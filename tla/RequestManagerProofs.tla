------------------------ MODULE RequestManagerProofs ------------------------
(***************************************************************************)
(* Machine-checked proofs about RequestManager, for any documents,         *)
(* contents, fingerprints and cache sizes, and any number of calls.        *)
(***************************************************************************)
EXTENDS RequestManager, FiniteSetTheorems, TLAPS

-----------------------------------------------------------------------------
(* The inductive invariant.                                                *)

\* What a run that has begun knows: where it is asked from, for whom, and
\* that only contents of Full ever wait for, or carry, a context.
RunsKnown ==
  \A r \in Calls : run[r].phase # "none" =>
    /\ run[r].doc \in Docs /\ run[r].content \in Contents
    /\ run[r].consumer \in Calls
    /\ run[r].phase = "repository" => run[r].content \in Full
    /\ run[r].content \notin Full => run[r].fp = NoFp

\* The run a document names is in flight, and is a run of that document.
ActiveInFlight ==
  \A d \in Docs : active[d] # NoCall =>
    InFlight(active[d]) /\ run[active[d]].doc = d

\* The answer to c may serve a call whose content is e.
Serves(c, e) == Base[c] = Base[e] \/ <<c, e>> \in Continues

\* A call that waits is waiting for a run that is in flight and has its key, or
\* asks about a content that it continues.
WaitersServed ==
  \A k \in Calls : call[k].state = "waiting" =>
    /\ call[k].run \in Calls /\ InFlight(call[k].run)
    /\ Serves(run[call[k].run].content, call[k].content)

\* The consumer of a run is a call that was told to wait for it.
ConsumersKnown ==
  \A r \in Calls : InFlight(r) =>
    /\ call[run[r].consumer].run = r
    /\ call[run[r].consumer].state # "new"

\* A call that has not come has no run, and one that has come has a content.
NewIsFresh ==
  \A k \in Calls :
    /\ call[k].state = "new" => run[k].phase = "none"
    /\ call[k].state # "new" => call[k].content \in Contents

\* A suggestion leads on from the content the engine was asked about.
ProducedLeadsOn == \A p \in produced : p[3] # None => <<Base[p[1]], p[3]>> \in Below

Bonds == RunsKnown /\ ActiveInFlight /\ WaitersServed /\ ConsumersKnown /\ NewIsFresh

\* Everything but the caches and what the engine has answered.
Requests == Bonds /\ LiveIsCurrent /\ LatestConsumerDecides

Faithful == ProducedLeadsOn /\ CacheFaithful

IInv == TypeOK /\ IsFiniteSet(cache) /\ Requests /\ Faithful /\ AnswersFit

-----------------------------------------------------------------------------
(* Updates of one record.                                                  *)

\* What an abort, a cancellation and a join leave of a run.
SameRequest(ru, new) ==
  /\ new \in RunType
  /\ new.phase = ru.phase /\ new.doc = ru.doc
  /\ new.content = ru.content /\ new.fp = ru.fp

LEMMA AbortNowKeeps ==
  ASSUME NEW ru \in RunType
  PROVE  /\ SameRequest(ru, AbortNow(ru)) /\ AbortNow(ru).consumer = ru.consumer
         /\ AbortNow(ru).aborted /\ ~AbortNow(ru).timer
BY DEF RunType, AbortNow, SameRequest

LEMMA AbandonKeeps ==
  ASSUME NEW ru \in RunType
  PROVE  /\ SameRequest(ru, Abandon(ru)) /\ Abandon(ru).consumer = ru.consumer
         /\ ru.phase \in Backend => /\ Abandon(ru).aborted = ru.aborted
                                    /\ Abandon(ru).timer
         /\ ru.phase \notin Backend => Abandon(ru).aborted
BY AbortNowKeeps DEF RunType, Abandon, SameRequest

LEMMA TakenKeeps ==
  ASSUME NEW ru \in RunType, NEW k \in Calls
  PROVE  /\ SameRequest(ru, Taken(ru, k)) /\ Taken(ru, k).consumer = k
         /\ Taken(ru, k).aborted = ru.aborted /\ ~Taken(ru, k).timer
BY DEF RunType, Taken, SameRequest

LEMMA NoCallIsNone == NoCall \notin Calls
BY BoundAssumption DEF NoCall, Calls

-----------------------------------------------------------------------------
(* What steps have in common.                                              *)

\* No call is answered and no run moves on; consumers stay.
Keeps ==
  /\ run' \in [Calls -> RunType] /\ call' \in [Calls -> CallType]
  /\ \A r \in Calls : /\ SameRequest(run[r], run'[r])
                      /\ run'[r].consumer = run[r].consumer
                      /\ run[r].aborted => run'[r].aborted
  /\ \A k \in Calls : /\ call'[k].state = call[k].state
                      /\ call'[k].content = call[k].content
                      /\ call'[k].run = call[k].run
                      /\ call'[k].answer = call[k].answer

LEMMA KeepsRequests ==
  ASSUME TypeOK, Requests, Keeps, UNCHANGED active,
         \A r \in Calls : InFlight(r) /\ ~run'[r].aborted =>
           (run'[r].timer <=> call'[run[r].consumer].cancelled)
  PROVE  Requests'
<1> USE DEF Keeps, SameRequest
<1>1. RunsKnown'
  BY DEF Requests, Bonds, RunsKnown
<1>2. ActiveInFlight'
  BY NoCallIsNone DEF TypeOK, Requests, Bonds, ActiveInFlight, InFlight
<1>3. WaitersServed'
  BY DEF Requests, Bonds, WaitersServed, InFlight
<1>4. ConsumersKnown'
  BY DEF Requests, Bonds, ConsumersKnown, RunsKnown, InFlight, Waits, Backend
<1>5. NewIsFresh'
  BY DEF Requests, Bonds, NewIsFresh
<1>6. LiveIsCurrent'
  BY DEF Requests, LiveIsCurrent, InFlight, IsCurrent
<1>7. LatestConsumerDecides'
  BY DEF LatestConsumerDecides, InFlight
<1>8. QED
  BY <1>1, <1>2, <1>3, <1>4, <1>5, <1>6, <1>7 DEF Requests, Bonds

LEMMA SupersededKeeps ==
  ASSUME TypeOK, NEW d \in Docs
  PROVE  /\ Superseded(d) \in [Calls -> RunType]
         /\ \A r \in Calls :
              /\ SameRequest(run[r], Superseded(d)[r])
              /\ Superseded(d)[r].consumer = run[r].consumer
              /\ run[r].aborted => Superseded(d)[r].aborted
              /\ ~Superseded(d)[r].aborted => Superseded(d)[r].timer = run[r].timer
              /\ active[d] = r => Superseded(d)[r].aborted
BY AbortNowKeeps DEF TypeOK, Superseded, SameRequest

LEMMA AllAbortedKeeps ==
  ASSUME TypeOK
  PROVE  /\ AllAborted \in [Calls -> RunType]
         /\ \A r \in Calls :
              /\ SameRequest(run[r], AllAborted[r])
              /\ AllAborted[r].consumer = run[r].consumer
              /\ run[r].aborted => AllAborted[r].aborted
              /\ ~AllAborted[r].aborted => AllAborted[r].timer = run[r].timer
              /\ \A d \in Docs : active[d] = r => AllAborted[r].aborted
BY AbortNowKeeps DEF TypeOK, AllAborted, SameRequest

LEMMA CallsUnchanged ==
  ASSUME TypeOK, UNCHANGED call
  PROVE  /\ call' \in [Calls -> CallType]
         /\ \A k \in Calls : /\ call'[k].state = call[k].state
                             /\ call'[k].content = call[k].content
                             /\ call'[k].run = call[k].run
                             /\ call'[k].answer = call[k].answer
BY DEF TypeOK

\* Aborting a run, for whatever reason, keeps the books.
LEMMA AbortsKeepRequests ==
  ASSUME TypeOK, Requests,
         \/ \E k \in Calls : SourceAbort(k)
         \/ \E r \in Calls : GraceElapsed(r)
         \/ \E d \in Docs : Cancel(d)
         \/ CancelAll
  PROVE  Keeps /\ Requests'
<1>1. ASSUME NEW k \in Calls, SourceAbort(k)
      PROVE  Keeps /\ Requests'
  <2> DEFINE r == call[k].run
  <2>1. r \in Calls /\ InFlight(r)
    BY <1>1 DEF SourceAbort, Requests, Bonds, WaitersServed
  <2>2. /\ call' \in [Calls -> CallType]
        /\ call'[k].cancelled
        /\ \A j \in Calls : /\ call'[j].state = call[j].state
                            /\ call'[j].content = call[j].content
                            /\ call'[j].run = call[j].run
                            /\ call'[j].answer = call[j].answer
                            /\ j # k => call'[j].cancelled = call[j].cancelled
    BY <1>1 DEF SourceAbort, TypeOK, CallType
  <2>3. run[r] \in RunType
    BY <2>1 DEF TypeOK
  <2>4. /\ run' = IF run[r].consumer = k THEN [run EXCEPT ![r] = Abandon(run[r])] ELSE run
        /\ UNCHANGED active
    BY <1>1 DEF SourceAbort, Decides
  <2> HIDE DEF r
  <2>5. /\ SameRequest(run[r], Abandon(run[r]))
        /\ Abandon(run[r]).consumer = run[r].consumer
        /\ run[r].aborted => Abandon(run[r]).aborted
        /\ ~Abandon(run[r]).aborted => Abandon(run[r]).timer
    BY <2>3, AbandonKeeps
  <2>6. \A q \in Calls : SameRequest(run[q], run[q])
    BY DEF TypeOK, SameRequest
  <2>7. Keeps
    <3>1. run' \in [Calls -> RunType]
      BY <2>4, <2>5 DEF TypeOK, SameRequest
    <3>2. \A q \in Calls :
            /\ SameRequest(run[q], run'[q])
            /\ run'[q].consumer = run[q].consumer
            /\ run[q].aborted => run'[q].aborted
      BY <2>1, <2>4, <2>5, <2>6 DEF TypeOK
    <3>3. QED
      BY <2>2, <3>1, <3>2 DEF Keeps
  <2>8. ASSUME NEW q \in Calls, InFlight(q), ~run'[q].aborted
        PROVE  run'[q].timer <=> call'[run[q].consumer].cancelled
    <3>1. run[q].consumer \in Calls /\ call[run[q].consumer].run = q
      BY <2>8 DEF Requests, Bonds, ConsumersKnown, RunsKnown, InFlight, Waits, Backend
    <3>2. ~run[q].aborted
      BY <2>7, <2>8 DEF Keeps
    <3>3. run[q].timer <=> call[run[q].consumer].cancelled
      BY <2>8, <3>2 DEF Requests, LatestConsumerDecides
    <3>4. CASE run[q].consumer = k
      <4>1. q = r
        BY <3>1, <3>4 DEF r
      <4>2. run'[q] = Abandon(run[r])
        BY <2>1, <2>4, <3>4, <4>1 DEF TypeOK
      <4>3. QED
        BY <2>2, <2>5, <2>8, <3>4, <4>2
    <3>5. CASE run[q].consumer # k
      <4>1. run'[q] = run[q]
        BY <2>1, <2>4, <3>5 DEF TypeOK
      <4>2. QED
        BY <2>2, <3>1, <3>3, <3>5, <4>1
    <3>6. QED
      BY <3>4, <3>5
  <2>9. QED
    BY <2>4, <2>7, <2>8, KeepsRequests
<1>2. ASSUME UNCHANGED <<active, call>>, run' \in [Calls -> RunType],
             \A q \in Calls :
               /\ SameRequest(run[q], run'[q])
               /\ run'[q].consumer = run[q].consumer
               /\ run[q].aborted => run'[q].aborted
               /\ ~run'[q].aborted => run'[q].timer = run[q].timer
      PROVE  Keeps /\ Requests'
  <2>1. Keeps
    BY <1>2, CallsUnchanged DEF Keeps
  <2>2. \A q \in Calls : InFlight(q) /\ ~run'[q].aborted =>
          (run'[q].timer <=> call'[run[q].consumer].cancelled)
    BY <1>2 DEF Requests, LatestConsumerDecides
  <2>3. QED
    BY <1>2, <2>1, <2>2, KeepsRequests
<1>3. ASSUME NEW r \in Calls, GraceElapsed(r)
      PROVE  Keeps /\ Requests'
  <2>1. /\ run' \in [Calls -> RunType]
        /\ \A q \in Calls : run'[q] = IF q = r THEN AbortNow(run[r]) ELSE run[q]
        /\ UNCHANGED <<active, call>>
    BY <1>3, AbortNowKeeps DEF GraceElapsed, TypeOK, SameRequest
  <2>2. \A q \in Calls :
          /\ SameRequest(run[q], run'[q])
          /\ run'[q].consumer = run[q].consumer
          /\ run[q].aborted => run'[q].aborted
          /\ ~run'[q].aborted => run'[q].timer = run[q].timer
    BY <2>1, AbortNowKeeps DEF TypeOK, SameRequest
  <2>3. QED
    BY <1>2, <2>1, <2>2
<1>4. ASSUME NEW d \in Docs, Cancel(d)
      PROVE  Keeps /\ Requests'
  BY <1>2, <1>4, SupersededKeeps DEF Cancel
<1>5. ASSUME CancelAll
      PROVE  Keeps /\ Requests'
  BY <1>2, <1>5, AllAbortedKeeps DEF CancelAll
<1>6. QED
  BY <1>1, <1>3, <1>4, <1>5

-----------------------------------------------------------------------------
(* A run moves on, or ends.                                                *)

\* What a run is going to tell: a suggestion its content leads on to, that the
\* engine gave to a content of the same base.
Given(r, t) ==
  t # None =>
    \E p \in produced' : /\ Base[p[1]] = Base[run[r].content] /\ p[3] = t
                         /\ run[r].content \notin Full => p[2] = NoFp

LEMMA FinishShape ==
  ASSUME TypeOK, Requests, NEW r \in Calls, InFlight(r), NEW t, NEW b, Finish(r, t, b)
  PROVE  /\ run' \in [Calls -> RunType]
         /\ run'[r].phase = "done" /\ run'[r].doc = run[r].doc
         /\ run'[r].content = run[r].content /\ run'[r].fp = run[r].fp
         /\ run'[r].consumer = run[r].consumer
         /\ \A q \in Calls : q # r => run'[q] = run[q]
         /\ active' \in [Docs -> Calls \cup {NoCall}]
         /\ \A d \in Docs : active'[d] = IF active[d] = r THEN NoCall ELSE active[d]
<1>1. run[r] \in RunType /\ run[r].doc \in Docs
  BY DEF TypeOK, InFlight, Waits, Backend, Requests, Bonds, RunsKnown
<1>2. run' = [run EXCEPT ![r].phase = "done", ![r].woken = FALSE,
                         ![r].timer = @ /\ ~IsCurrent(r)]
  BY DEF Finish
<1>3. /\ run' \in [Calls -> RunType]
      /\ run'[r].phase = "done" /\ run'[r].doc = run[r].doc
      /\ run'[r].content = run[r].content /\ run'[r].fp = run[r].fp
      /\ run'[r].consumer = run[r].consumer
      /\ \A q \in Calls : q # r => run'[q] = run[q]
  BY <1>1, <1>2 DEF TypeOK, RunType, Phases
<1>4. active' \in [Docs -> Calls \cup {NoCall}]
  BY DEF Finish, TypeOK
<1>5. \A d \in Docs : active'[d] = IF active[d] = r THEN NoCall ELSE active[d]
  <2>1. \A d \in Docs : active[d] = r => run[r].doc = d
    BY NoCallIsNone DEF Requests, Bonds, ActiveInFlight
  <2>2. CASE IsCurrent(r)
    BY <1>1, <2>1, <2>2 DEF Finish, IsCurrent, TypeOK
  <2>3. CASE ~IsCurrent(r)
    BY <1>1, <2>1, <2>3 DEF Finish, IsCurrent, TypeOK
  <2>4. QED
    BY <2>2, <2>3
<1>6. QED
  BY <1>3, <1>4, <1>5

LEMMA FinishAnswers ==
  ASSUME TypeOK, NEW r \in Calls, NEW t \in Bases \cup {None}, NEW b, Finish(r, t, b)
  PROVE  /\ call' \in [Calls -> CallType]
         /\ \A k \in Calls : ~Awaits(k, r) => call'[k] = call[k]
         /\ \A k \in Calls : Awaits(k, r) =>
              /\ call'[k].state = "done" /\ call'[k].content = call[k].content
              /\ call'[k].run = call[k].run
              /\ call'[k].answer = Refined(call[k].content, t)
         /\ \A k \in Calls : call'[k].cancelled = call[k].cancelled
<1>1. call' = [k \in Calls |->
                IF Awaits(k, r)
                  THEN [call[k] EXCEPT !.state = "done",
                                       !.answer = Refined(call[k].content, t)]
                  ELSE call[k]]
  BY DEF Finish
<1>2. \A k \in Calls : call[k] \in CallType /\ Refined(call[k].content, t) \in Bases \cup {None}
  BY DEF TypeOK, Refined
<1>3. QED
  BY <1>1, <1>2 DEF CallType

\* The end of a run answers exactly those who wait for it.
LEMMA FinishKeepsRequests ==
  ASSUME TypeOK, Requests, NEW r \in Calls, InFlight(r),
         NEW t \in Bases \cup {None}, NEW b, Finish(r, t, b)
  PROVE  Requests'
<1> DEFINE Shape ==
      /\ run'[r].phase = "done" /\ run'[r].doc = run[r].doc
      /\ run'[r].content = run[r].content /\ run'[r].fp = run[r].fp
      /\ run'[r].consumer = run[r].consumer
      /\ \A q \in Calls : q # r => run'[q] = run[q]
      /\ \A d \in Docs : active'[d] = IF active[d] = r THEN NoCall ELSE active[d]
<1>1. Shape
  BY FinishShape
<1>2. \A k \in Calls :
        /\ ~Awaits(k, r) => call'[k] = call[k]
        /\ Awaits(k, r) => /\ call'[k].state = "done"
                           /\ call'[k].content = call[k].content
                           /\ call'[k].run = call[k].run
        /\ call'[k].cancelled = call[k].cancelled
  BY FinishAnswers
<1>3. RunsKnown'
  BY <1>1 DEF Requests, Bonds, RunsKnown, InFlight, Waits, Backend
<1>4. ActiveInFlight'
  <2> SUFFICES ASSUME NEW d \in Docs, active'[d] # NoCall
               PROVE  InFlight(active[d])' /\ run'[active'[d]].doc = d
    BY DEF ActiveInFlight
  <2>1. active'[d] = active[d] /\ active[d] # r /\ active[d] \in Calls
    BY <1>1 DEF TypeOK
  <2>2. QED
    BY <1>1, <2>1 DEF Requests, Bonds, ActiveInFlight, InFlight
<1>5. WaitersServed'
  <2> SUFFICES ASSUME NEW k \in Calls, call'[k].state = "waiting"
               PROVE  /\ call'[k].run \in Calls /\ InFlight(call[k].run)'
                      /\ Serves(run'[call'[k].run].content, call'[k].content)
    BY DEF WaitersServed, Serves
  <2>1. call'[k] = call[k] /\ call[k].run # r
    BY <1>2 DEF Awaits
  <2>2. QED
    BY <1>1, <2>1 DEF Requests, Bonds, WaitersServed, InFlight
<1>6. ConsumersKnown'
  <2> SUFFICES ASSUME NEW q \in Calls, InFlight(q)'
               PROVE  /\ call'[run'[q].consumer].run = q
                      /\ call'[run'[q].consumer].state # "new"
    BY DEF ConsumersKnown
  <2>1. q # r /\ run'[q] = run[q]
    BY <1>1 DEF InFlight, Waits, Backend
  <2>2. InFlight(q) /\ run[q].consumer \in Calls
    BY <2>1 DEF InFlight, Requests, Bonds, RunsKnown, Waits, Backend
  <2>3. call[run[q].consumer].run = q /\ call[run[q].consumer].state # "new"
    BY <2>2 DEF Requests, Bonds, ConsumersKnown
  <2>4. QED
    BY <1>2, <2>1, <2>2, <2>3
<1>7. NewIsFresh'
  <2>1. \A k \in Calls : call'[k].state = "new" => call[k].state = "new"
    BY <1>2
  <2>2. \A k \in Calls : call'[k].content = call[k].content
                         /\ (call[k].state = "new" => call'[k].state = "new")
    BY <1>2 DEF Awaits
  <2>3. run[r].phase # "none"
    BY DEF InFlight, Waits, Backend
  <2>4. QED
    BY <1>1, <2>1, <2>2, <2>3 DEF Requests, Bonds, NewIsFresh
<1>8. LiveIsCurrent'
  <2> SUFFICES ASSUME NEW q \in Calls, InFlight(q)', ~run'[q].aborted
               PROVE  active'[run'[q].doc] = q
    BY DEF LiveIsCurrent, IsCurrent
  <2>1. q # r /\ run'[q] = run[q]
    BY <1>1 DEF InFlight, Waits, Backend
  <2>2. active[run[q].doc] = q /\ run[q].doc \in Docs
    BY <2>1 DEF InFlight, Requests, LiveIsCurrent, IsCurrent, Bonds, RunsKnown, Waits, Backend
  <2>3. QED
    BY <1>1, <2>1, <2>2
<1>9. LatestConsumerDecides'
  <2> SUFFICES ASSUME NEW q \in Calls, InFlight(q)', ~run'[q].aborted
               PROVE  run'[q].timer <=> call'[run'[q].consumer].cancelled
    BY DEF LatestConsumerDecides
  <2>1. q # r /\ run'[q] = run[q]
    BY <1>1 DEF InFlight, Waits, Backend
  <2>2. run[q].consumer \in Calls
    BY <2>1 DEF InFlight, Requests, Bonds, RunsKnown, Waits, Backend
  <2>3. QED
    BY <1>2, <2>1, <2>2 DEF Requests, LatestConsumerDecides, InFlight
<1>10. QED
  BY <1>3, <1>4, <1>5, <1>6, <1>7, <1>8, <1>9 DEF Requests, Bonds

\* A run goes on: to the next wait, to the engine, or to a response that stalls.
LEMMA GoesOnKeepsRequests ==
  ASSUME TypeOK, Requests, NEW r \in Calls, InFlight(r),
         run' \in [Calls -> RunType], UNCHANGED <<active, call>>,
         run'[r].phase \in {"repository", "engine", "stalled"},
         run'[r].phase = "repository" => run[r].content \in Full,
         run[r].content \notin Full => run'[r].fp = NoFp,
         run'[r].doc = run[r].doc, run'[r].content = run[r].content,
         run'[r].consumer = run[r].consumer, run'[r].aborted = run[r].aborted,
         run'[r].timer = run[r].timer,
         \A q \in Calls : q # r => run'[q] = run[q]
  PROVE  Requests'
<1>1. RunsKnown'
  BY DEF Requests, Bonds, RunsKnown, InFlight, Waits, Backend
<1>2. ActiveInFlight'
  BY NoCallIsNone DEF TypeOK, Requests, Bonds, ActiveInFlight, InFlight, Waits, Backend
<1>3. WaitersServed'
  BY DEF Requests, Bonds, WaitersServed, InFlight, Waits, Backend
<1>4. ConsumersKnown'
  BY DEF Requests, Bonds, ConsumersKnown, InFlight, Waits, Backend
<1>5. NewIsFresh'
  BY DEF Requests, Bonds, NewIsFresh, InFlight, Waits, Backend
<1>6. LiveIsCurrent'
  BY DEF Requests, LiveIsCurrent, IsCurrent, InFlight, Waits, Backend
<1>7. LatestConsumerDecides'
  BY DEF Requests, LatestConsumerDecides, InFlight, Waits, Backend
<1>8. QED
  BY <1>1, <1>2, <1>3, <1>4, <1>5, <1>6, <1>7 DEF Requests, Bonds

LEMMA AskKeepsRequests ==
  ASSUME TypeOK, Requests, NEW r \in Calls, run[r].phase \in Waits,
         NEW f \in Fingerprints \cup {NoFp},
         run[r].content \notin Full => f = NoFp, AskEngine(r, f)
  PROVE  run' \in [Calls -> RunType] /\ Requests'
<1>1. run[r] \in RunType
  BY DEF TypeOK
<1>2. /\ run' \in [Calls -> RunType]
      /\ run'[r].phase = "engine" /\ run'[r].fp = f
      /\ run'[r].doc = run[r].doc /\ run'[r].content = run[r].content
      /\ run'[r].consumer = run[r].consumer /\ run'[r].aborted = run[r].aborted
      /\ run'[r].timer = run[r].timer
      /\ \A q \in Calls : q # r => run'[q] = run[q]
      /\ UNCHANGED <<active, call>>
  BY <1>1 DEF AskEngine, TypeOK, RunType, Phases, Backend
<1>3. QED
  BY <1>2, GoesOnKeepsRequests DEF InFlight

-----------------------------------------------------------------------------
(* A call comes.                                                           *)

LEMMA NextIsNew ==
  ASSUME TypeOK, Bonds, NEW k \in Calls, IsNext(k)
  PROVE  /\ call[k].state = "new" /\ run[k].phase = "none"
         /\ \A r \in Calls : InFlight(r) => run[r].consumer # k
         /\ \A d \in Docs : active[d] # k
<1>1. call[k].state = "new"
  BY DEF IsNext, Calls
<1>2. run[k].phase = "none"
  BY <1>1 DEF Bonds, NewIsFresh
<1>3. \A r \in Calls : InFlight(r) => run[r].consumer # k
  BY <1>1 DEF Bonds, ConsumersKnown
<1>4. \A d \in Docs : active[d] # k
  BY <1>2, NoCallIsNone DEF Bonds, ActiveInFlight, InFlight, Waits, Backend
<1>5. QED
  BY <1>1, <1>2, <1>3, <1>4

\* A call answered at once disturbs no run.
LEMMA AnsweredKeepsRequests ==
  ASSUME TypeOK, Requests, NEW k \in Calls, NEW c \in Contents, NEW x \in BOOLEAN,
         NEW t \in Bases \cup {None}, IsNext(k),
         call' = [call EXCEPT ![k] = Answered(c, x, t)], UNCHANGED <<active, run>>
  PROVE  call' \in [Calls -> CallType] /\ Requests'
<1>1. Answered(c, x, t) \in CallType /\ Answered(c, x, t).state = "done"
      /\ Answered(c, x, t).content = c
  BY DEF Answered, CallType
<1>2. /\ call' \in [Calls -> CallType] /\ call'[k].state = "done" /\ call'[k].content = c
      /\ \A j \in Calls : j # k => call'[j] = call[j]
  BY <1>1 DEF TypeOK
<1>3. \A r \in Calls : InFlight(r) => run[r].consumer # k /\ run[r].consumer \in Calls
  BY NextIsNew DEF Requests, Bonds, RunsKnown, InFlight, Waits, Backend
<1>4. RunsKnown' /\ ActiveInFlight' /\ LiveIsCurrent'
  BY DEF Requests, Bonds, RunsKnown, ActiveInFlight, LiveIsCurrent, InFlight, IsCurrent
<1>5. WaitersServed'
  BY <1>2 DEF Requests, Bonds, WaitersServed, InFlight
<1>6. ConsumersKnown' /\ LatestConsumerDecides'
  BY <1>2, <1>3 DEF Requests, Bonds, ConsumersKnown, LatestConsumerDecides, InFlight
<1>7. NewIsFresh'
  BY <1>2 DEF Requests, Bonds, NewIsFresh
<1>8. QED
  BY <1>2, <1>4, <1>5, <1>6, <1>7 DEF Requests, Bonds

LEMMA WaitingCall ==
  ASSUME TypeOK, NEW k \in Calls, NEW r \in Calls, NEW c \in Contents, NEW x \in BOOLEAN,
         call' = [call EXCEPT ![k] = Waiting(r, c, x)]
  PROVE  /\ call' \in [Calls -> CallType]
         /\ call'[k].state = "waiting" /\ call'[k].content = c /\ call'[k].run = r
         /\ call'[k].cancelled = x /\ call'[k].answer = None
         /\ \A j \in Calls : j # k => call'[j] = call[j]
<1>1. Waiting(r, c, x) \in CallType
  BY DEF Waiting, CallType
<1>2. QED
  BY <1>1 DEF TypeOK, Waiting

\* The joining call takes over as the consumer, with its own cancellation.
LEMMA JoinKeepsRequests ==
  ASSUME TypeOK, Requests, NEW k \in Calls, NEW d \in Docs, NEW c \in Contents,
         NEW x \in BOOLEAN, Join(k, d, c, x)
  PROVE  run' \in [Calls -> RunType] /\ call' \in [Calls -> CallType] /\ Requests'
<1> DEFINE a == active[d]
           new == IF x THEN Abandon(Taken(run[a], k)) ELSE Taken(run[a], k)
<1>1. /\ a \in Calls /\ InFlight(a) /\ run[a].doc = d /\ run[a] \in RunType
      /\ run[a].content \in Contents
  BY DEF Join, Joinable, TypeOK, Requests, Bonds, ActiveInFlight, RunsKnown, InFlight, Waits, Backend
<1>2. Serves(run[a].content, c)
  BY DEF Join, Joinable, Serves
<1>3. /\ run' = [run EXCEPT ![a] = new] /\ call' = [call EXCEPT ![k] = Waiting(a, c, x)]
      /\ IsNext(k) /\ UNCHANGED active
  BY DEF Join
<1>4. /\ SameRequest(run[a], new) /\ new.consumer = k
      /\ run[a].aborted => new.aborted
      /\ ~new.aborted => (new.timer <=> x)
  <2>1. /\ SameRequest(run[a], Taken(run[a], k)) /\ Taken(run[a], k) \in RunType
        /\ Taken(run[a], k).consumer = k /\ Taken(run[a], k).aborted = run[a].aborted
        /\ ~Taken(run[a], k).timer
    BY <1>1, TakenKeeps DEF SameRequest
  <2>2. /\ SameRequest(Taken(run[a], k), Abandon(Taken(run[a], k)))
        /\ Abandon(Taken(run[a], k)).consumer = k
        /\ run[a].aborted => Abandon(Taken(run[a], k)).aborted
        /\ ~Abandon(Taken(run[a], k)).aborted => Abandon(Taken(run[a], k)).timer
    BY <2>1, AbandonKeeps
  <2>3. QED
    BY <2>1, <2>2 DEF SameRequest
<1> HIDE DEF new, a
<1>5. /\ run' \in [Calls -> RunType] /\ run'[a] = new
      /\ \A q \in Calls : q # a => run'[q] = run[q]
  BY <1>1, <1>3, <1>4 DEF TypeOK, SameRequest
<1>6. /\ call' \in [Calls -> CallType]
      /\ call'[k].state = "waiting" /\ call'[k].content = c /\ call'[k].run = a
      /\ call'[k].cancelled = x
      /\ \A j \in Calls : j # k => call'[j] = call[j]
  BY <1>1, <1>3, WaitingCall
<1>7. \A q \in Calls : SameRequest(run[q], run'[q]) /\ (q # a => run'[q].consumer = run[q].consumer)
  BY <1>4, <1>5 DEF TypeOK, SameRequest
<1>8. \A r \in Calls : InFlight(r) => run[r].consumer # k /\ run[r].consumer \in Calls
  BY <1>3, NextIsNew DEF Requests, Bonds, RunsKnown, InFlight, Waits, Backend
<1>9. call[k].state = "new" /\ run[k].phase = "none"
  BY <1>3, NextIsNew DEF Requests
<1>10. RunsKnown'
  BY <1>4, <1>5, <1>7 DEF Requests, Bonds, RunsKnown, SameRequest
<1>11. ActiveInFlight'
  BY <1>3, <1>7, NoCallIsNone DEF TypeOK, Requests, Bonds, ActiveInFlight, InFlight, SameRequest
<1>12. WaitersServed'
  BY <1>1, <1>2, <1>6, <1>7 DEF Requests, Bonds, WaitersServed, InFlight, SameRequest
<1>13. ConsumersKnown'
  BY <1>4, <1>5, <1>6, <1>7, <1>8 DEF Requests, Bonds, ConsumersKnown, InFlight, SameRequest
<1>14. NewIsFresh'
  BY <1>6, <1>7 DEF Requests, Bonds, NewIsFresh, SameRequest
<1>15. LiveIsCurrent'
  BY <1>3, <1>4, <1>5, <1>7 DEF Requests, LiveIsCurrent, IsCurrent, InFlight, SameRequest
<1>16. LatestConsumerDecides'
  BY <1>4, <1>5, <1>6, <1>7, <1>8 DEF Requests, LatestConsumerDecides, InFlight, SameRequest
<1>17. QED
  BY <1>5, <1>6, <1>10, <1>11, <1>12, <1>13, <1>14, <1>15, <1>16 DEF Requests, Bonds

\* A new run supersedes the one in flight for its document.
LEMMA StartKeepsRequests ==
  ASSUME TypeOK, Requests, NEW k \in Calls, NEW d \in Docs, NEW c \in Contents,
         NEW x \in BOOLEAN, Start(k, d, c, x)
  PROVE  /\ run' \in [Calls -> RunType] /\ call' \in [Calls -> CallType]
         /\ active' \in [Docs -> Calls \cup {NoCall}] /\ Requests'
<1> DEFINE new == [phase |-> "debounce", doc |-> d, content |-> c, fp |-> NoFp,
                   aborted |-> x, woken |-> FALSE, timer |-> FALSE, consumer |-> k]
<1>1. /\ run' = [Superseded(d) EXCEPT ![k] = new]
      /\ call' = [call EXCEPT ![k] = Waiting(k, c, x)]
      /\ active' = [active EXCEPT ![d] = k] /\ IsNext(k)
  BY DEF Start
<1>2. new \in RunType
  BY DEF RunType, Phases, Waits, Backend
<1>3. /\ new.phase = "debounce" /\ new.doc = d /\ new.content = c /\ new.fp = NoFp
      /\ new.aborted = x /\ ~new.timer /\ new.consumer = k
  OBVIOUS
<1> HIDE DEF new
<1>4. /\ run' \in [Calls -> RunType] /\ run'[k] = new
      /\ \A q \in Calls : q # k => /\ SameRequest(run[q], run'[q])
                                   /\ run'[q].consumer = run[q].consumer
                                   /\ run[q].aborted => run'[q].aborted
                                   /\ ~run'[q].aborted => run'[q].timer = run[q].timer
                                   /\ active[d] = q => run'[q].aborted
  BY <1>1, <1>2, SupersededKeeps
<1>5. /\ call' \in [Calls -> CallType]
      /\ call'[k].state = "waiting" /\ call'[k].content = c /\ call'[k].run = k
      /\ call'[k].cancelled = x
      /\ \A j \in Calls : j # k => call'[j] = call[j]
  BY <1>1, WaitingCall
<1>6. /\ active' \in [Docs -> Calls \cup {NoCall}] /\ active'[d] = k
      /\ \A e \in Docs : e # d => active'[e] = active[e]
  BY <1>1 DEF TypeOK
<1>7. /\ call[k].state = "new" /\ run[k].phase = "none"
      /\ \A e \in Docs : active[e] # k
      /\ \A r \in Calls : InFlight(r) => run[r].consumer # k /\ run[r].consumer \in Calls
  BY <1>1, NextIsNew DEF Requests, Bonds, RunsKnown, InFlight, Waits, Backend
<1>8. RunsKnown'
  BY <1>3, <1>4 DEF Requests, Bonds, RunsKnown, SameRequest
<1>9. ActiveInFlight'
  <2> SUFFICES ASSUME NEW e \in Docs, active'[e] # NoCall
               PROVE  InFlight(active[e])' /\ run'[active'[e]].doc = e
    BY DEF ActiveInFlight
  <2>1. CASE e = d
    BY <1>3, <1>4, <1>6, <2>1 DEF InFlight, Waits, Backend
  <2>2. CASE e # d
    <3>1. active'[e] = active[e] /\ active[e] \in Calls /\ active[e] # k
      BY <1>6, <1>7, <2>2 DEF TypeOK
    <3>2. QED
      BY <1>4, <3>1 DEF Requests, Bonds, ActiveInFlight, InFlight, SameRequest
  <2>3. QED
    BY <2>1, <2>2
<1>10. WaitersServed'
  <2> SUFFICES ASSUME NEW j \in Calls, call'[j].state = "waiting"
               PROVE  /\ call'[j].run \in Calls /\ InFlight(call[j].run)'
                      /\ Serves(run'[call'[j].run].content, call'[j].content)
    BY DEF WaitersServed, Serves
  <2>1. CASE j = k
    BY <1>3, <1>4, <1>5, <2>1 DEF InFlight, Waits, Backend, Serves
  <2>2. CASE j # k
    <3>1. /\ call'[j] = call[j] /\ call[j].run \in Calls /\ InFlight(call[j].run)
          /\ Serves(run[call[j].run].content, call[j].content)
      BY <1>5, <2>2 DEF Requests, Bonds, WaitersServed
    <3>2. call[j].run # k
      BY <1>7, <3>1 DEF InFlight, Waits, Backend
    <3>3. QED
      BY <1>4, <3>1, <3>2 DEF InFlight, SameRequest
  <2>3. QED
    BY <2>1, <2>2
<1>11. \A q \in Calls : InFlight(q)' /\ q # k => InFlight(q)
  BY <1>4 DEF InFlight, SameRequest
<1>12. ConsumersKnown'
  BY <1>3, <1>4, <1>5, <1>7, <1>11 DEF Requests, Bonds, ConsumersKnown
<1>13. NewIsFresh'
  BY <1>3, <1>4, <1>5 DEF Requests, Bonds, NewIsFresh, SameRequest
<1>14. LiveIsCurrent'
  <2> SUFFICES ASSUME NEW q \in Calls, InFlight(q)', ~run'[q].aborted
               PROVE  active'[run'[q].doc] = q
    BY DEF LiveIsCurrent, IsCurrent
  <2>1. CASE q = k
    BY <1>3, <1>4, <1>6, <2>1
  <2>2. CASE q # k
    <3>1. InFlight(q) /\ ~run[q].aborted /\ active[d] # q /\ run'[q].doc = run[q].doc
      BY <1>4, <1>11, <2>2 DEF SameRequest
    <3>2. active[run[q].doc] = q /\ run[q].doc \in Docs
      BY <3>1 DEF Requests, LiveIsCurrent, IsCurrent, Bonds, RunsKnown, InFlight, Waits, Backend
    <3>3. QED
      BY <1>6, <3>1, <3>2
  <2>3. QED
    BY <2>1, <2>2
<1>15. LatestConsumerDecides'
  <2> SUFFICES ASSUME NEW q \in Calls, InFlight(q)', ~run'[q].aborted
               PROVE  run'[q].timer <=> call'[run'[q].consumer].cancelled
    BY DEF LatestConsumerDecides
  <2>1. CASE q = k
    BY <1>3, <1>4, <1>5, <2>1
  <2>2. CASE q # k
    <3>1. InFlight(q) /\ ~run[q].aborted /\ run'[q].timer = run[q].timer
          /\ run'[q].consumer = run[q].consumer
      BY <1>4, <1>11, <2>2
    <3>2. QED
      BY <1>5, <1>7, <3>1 DEF Requests, LatestConsumerDecides
  <2>3. QED
    BY <2>1, <2>2
<1>16. QED
  BY <1>4, <1>5, <1>6, <1>8, <1>9, <1>10, <1>12, <1>13, <1>14, <1>15 DEF Requests, Bonds

-----------------------------------------------------------------------------
(* The caches, and what they hand out.                                     *)

CacheType ==
  /\ cache \subseteq EntryType /\ IsFiniteSet(cache)
  /\ Cardinality(cache) <= MaxEntries
  /\ quick \in [Bases -> Bases \cup {None}]
  /\ negative \subseteq Keys

\* Making room and storing one entry keeps the cache within its size.
LEMMA StoreFits ==
  ASSUME CacheType, NEW r \in Calls, run[r] \in RunType, run[r].doc \in Docs,
         run[r].content \in Contents, NEW t \in Bases, Store(r, t)
  PROVE  /\ cache' \subseteq EntryType /\ IsFiniteSet(cache')
         /\ Cardinality(cache') <= MaxEntries
         /\ \A e \in cache' : \/ e \in cache
                              \/ e.content = run[r].content /\ e.fp = run[r].fp /\ e.target = t
         /\ quick' = [quick EXCEPT ![Base[run[r].content]] = t]
<1> DEFINE new == [content |-> run[r].content, fp |-> KeyOf(r)[2], doc |-> run[r].doc, target |-> t]
           older == cache \ EntriesFor(new.content, new.fp)
<1>1. PICK kept \in Trimmed(older) : cache' = kept \cup {new}
  BY DEF Store
<1>2. new \in EntryType /\ new.content = run[r].content /\ new.fp = run[r].fp /\ new.target = t
  BY DEF KeyOf, EntryType, RunType
<1> HIDE DEF new
<1>3. /\ older \subseteq cache /\ IsFiniteSet(older)
      /\ Cardinality(older) \in Nat /\ Cardinality(older) <= MaxEntries
  <2>1. older \subseteq cache
    OBVIOUS
  <2>2. IsFiniteSet(older) /\ Cardinality(older) <= Cardinality(cache)
    BY <2>1, FS_Subset DEF CacheType
  <2>3. Cardinality(older) \in Nat /\ Cardinality(cache) \in Nat
    BY <2>2, FS_CardinalityType DEF CacheType
  <2>4. QED
    BY <2>1, <2>2, <2>3, BoundAssumption DEF CacheType
<1> HIDE DEF older
<1>4. kept \subseteq older /\ IsFiniteSet(kept) /\ Cardinality(kept) + 1 <= MaxEntries
      /\ Cardinality(kept) \in Nat
  <2>1. CASE Cardinality(older) < MaxEntries
    BY <1>1, <1>3, <2>1, BoundAssumption DEF Trimmed
  <2>2. CASE ~(Cardinality(older) < MaxEntries)
    <3>1. PICK e \in older : kept = older \ {e}
      BY <1>1, <2>2 DEF Trimmed
    <3>2. IsFiniteSet(kept) /\ Cardinality(kept) = Cardinality(older) - 1
      BY <1>3, <3>1, FS_RemoveElement
    <3>3. Cardinality(kept) \in Nat
      BY <3>2, FS_CardinalityType
    <3>4. QED
      BY <1>3, <3>1, <3>2, <3>3, BoundAssumption
  <2>3. QED
    BY <2>1, <2>2
<1>5. IsFiniteSet(cache') /\ Cardinality(cache') <= MaxEntries
  <2>1. /\ IsFiniteSet(kept \cup {new})
        /\ Cardinality(kept \cup {new}) = IF new \in kept THEN Cardinality(kept)
                                           ELSE Cardinality(kept) + 1
    BY <1>4, FS_AddElement
  <2>2. QED
    BY <1>1, <1>4, <2>1, BoundAssumption
<1>6. quick' = [quick EXCEPT ![Base[run[r].content]] = t]
  BY DEF Store, KeyOf
<1>7. QED
  BY <1>1, <1>2, <1>3, <1>4, <1>5, <1>6 DEF CacheType

\* Nothing but forgetting happens to the caches.
Forgets ==
  /\ cache' \subseteq cache /\ negative' \subseteq negative
  /\ quick' \in [Bases -> Bases \cup {None}]
  /\ \A b \in Bases : quick'[b] \in {quick[b], None}
  /\ produced' = produced

LEMMA ForgettingIsFaithful ==
  ASSUME CacheType, Faithful, Forgets
  PROVE  CacheType' /\ Faithful'
<1>1. IsFiniteSet(cache') /\ Cardinality(cache') <= Cardinality(cache)
  BY FS_Subset DEF CacheType, Forgets
<1>2. Cardinality(cache') \in Nat /\ Cardinality(cache) \in Nat
  BY <1>1, FS_CardinalityType DEF CacheType
<1>3. CacheType'
  BY <1>1, <1>2, BoundAssumption DEF CacheType, Forgets
<1>4. ProducedLeadsOn'
  BY DEF Faithful, ProducedLeadsOn, Forgets
<1>5. CacheFaithful'
  BY DEF Faithful, CacheFaithful, Forgets
<1>6. QED
  BY <1>3, <1>4, <1>5 DEF Faithful

\* Whatever the caches hand out for c fits c, and was produced for it.
LEMMA CachedFits ==
  ASSUME TypeOK, Faithful, NEW d \in Docs, NEW c \in Contents, NEW t \in Cached(d, c)
  PROVE  /\ t \in Bases /\ Reaches(Base[c], t)
         /\ \E p \in produced : /\ Reaches(Base[p[1]], Base[c]) /\ p[3] = t
                                /\ c \notin Full => p[2] = NoFp
<1>0. Base[c] \in Bases
  BY ContentAssumption
<1>1. CASE c \in Full
  <2>1. t = quick[Base[c]] /\ t # None /\ t \in Bases
    BY <1>0, <1>1 DEF Cached, TypeOK
  <2>2. PICK p \in produced : Base[p[1]] = Base[c] /\ p[3] = t
    BY <1>0, <2>1 DEF Faithful, CacheFaithful
  <2>3. <<Base[c], t>> \in Below
    BY <2>1, <2>2 DEF Faithful, ProducedLeadsOn
  <2>4. QED
    BY <1>1, <2>1, <2>2, <2>3 DEF Reaches
<1>2. ASSUME c \notin Full, NEW e \in cache, e.fp = NoFp, t = e.target,
             Reaches(Base[e.content], Base[c]),
             Reaches(Base[c], e.target) \/ Base[e.content] = Base[c]
      PROVE  /\ t \in Bases /\ Reaches(Base[c], t)
             /\ \E p \in produced : /\ Reaches(Base[p[1]], Base[c]) /\ p[3] = t
                                    /\ c \notin Full => p[2] = NoFp
  <2>1. t \in Bases /\ e.content \in Contents
    BY <1>2 DEF TypeOK, EntryType
  <2>2. <<e.content, NoFp, t>> \in produced
    BY <1>2 DEF Faithful, CacheFaithful
  <2>3. <<Base[e.content], t>> \in Below
    BY <2>1, <2>2, ContentAssumption DEF Faithful, ProducedLeadsOn
  <2>4. Reaches(Base[c], t)
    BY <1>2, <2>3 DEF Reaches
  <2>5. QED
    BY <1>2, <2>1, <2>2, <2>4
<1>3. CASE c \notin Full
  <2>1. PICK e \in IF EntriesFor(c, NoFp) # {} THEN EntriesFor(c, NoFp)
                   ELSE {f \in cache : Refines(f, d, c)} : t = e.target
    BY <1>3 DEF Cached
  <2>2. /\ e \in cache /\ e.fp = NoFp /\ Reaches(Base[e.content], Base[c])
        /\ Reaches(Base[c], e.target) \/ Base[e.content] = Base[c]
    BY <2>1, ContentAssumption DEF EntriesFor, Refines, Reaches
  <2>3. QED
    BY <1>2, <1>3, <2>1, <2>2
<1>4. QED
  BY <1>1, <1>3

\* An answer that a call may have been given, out of those in P.
Fits(cl, P) ==
  cl.answer # None =>
    /\ Reaches(Base[cl.content], cl.answer)
    /\ \E p \in P :
         /\ Reaches(Base[p[1]], Base[cl.content]) /\ p[3] = cl.answer
         /\ \/ p[2] = NoFp \/ cl.content \in Full
            \/ cl.run # NoCall /\ Base[p[1]] = Base[cl.content]

LEMMA AnswersFitIsFits ==
  /\ AnswersFit = \A k \in Calls : Fits(call[k], produced)
  /\ AnswersFit' = \A k \in Calls : Fits(call'[k], produced')
BY DEF AnswersFit, Fits, Reaches

\* What a waiting call is answered when its run ends fits it.
LEMMA FinishFits ==
  ASSUME TypeOK, Requests, AnswersFit, produced \subseteq produced',
         NEW r \in Calls, NEW t \in Bases \cup {None}, Given(r, t),
         NEW b, Finish(r, t, b)
  PROVE  AnswersFit'
<1> SUFFICES ASSUME NEW k \in Calls, call'[k].answer # None
             PROVE  Fits(call'[k], produced')
  BY AnswersFitIsFits DEF Fits
<1>1. CASE Awaits(k, r)
  <2> DEFINE c == call[k].content
  <2>1. call'[k].content = c /\ call'[k].run = r /\ call'[k].answer = Refined(c, t)
    BY <1>1, FinishAnswers DEF Awaits
  <2>2. t # None /\ call'[k].answer = t /\ Reaches(Base[c], t)
    BY <2>1 DEF Refined
  <2>3. Serves(run[r].content, c)
    BY <1>1 DEF Awaits, Requests, Bonds, WaitersServed
  <2>4. PICK p \in produced' : /\ Base[p[1]] = Base[run[r].content] /\ p[3] = t
                               /\ run[r].content \notin Full => p[2] = NoFp
    BY <2>2 DEF Given
  <2>5. CASE Base[run[r].content] = Base[c]
    BY <2>1, <2>2, <2>4, <2>5, NoCallIsNone DEF Fits, Reaches
  <2>6. CASE <<run[r].content, c>> \in Continues
    <3>1. /\ <<Base[run[r].content], Base[c]>> \in Below
          /\ c \notin Full => run[r].content \notin Full
      BY <2>6, ContentAssumption
    <3>2. QED
      BY <2>1, <2>2, <2>4, <3>1 DEF Fits, Reaches
  <2>7. QED
    BY <2>3, <2>5, <2>6 DEF Serves
<1>2. CASE ~Awaits(k, r)
  <2>1. call'[k] = call[k]
    BY <1>2, FinishAnswers
  <2>2. Fits(call[k], produced)
    BY AnswersFitIsFits
  <2>3. QED
    BY <2>1, <2>2 DEF Fits
<1>3. QED
  BY <1>1, <1>2

-----------------------------------------------------------------------------
(* The invariant is inductive.                                             *)

LEMMA InitIInv == Init => IInv
<1> SUFFICES ASSUME Init PROVE IInv
  OBVIOUS
<1>1. TypeOK /\ IsFiniteSet(cache)
  <2>1. IsFiniteSet({}) /\ Cardinality({}) <= MaxEntries
    BY FS_EmptySet, BoundAssumption
  <2>2. Unstarted \in RunType /\ Uncalled \in CallType
    BY DEF Unstarted, Uncalled, RunType, CallType, Phases
  <2>3. QED
    BY <2>1, <2>2 DEF Init, TypeOK
<1>2. Requests
  BY NoCallIsNone DEF Init, Requests, Bonds, RunsKnown, ActiveInFlight, WaitersServed,
     ConsumersKnown, NewIsFresh, LiveIsCurrent, LatestConsumerDecides, InFlight, Waits,
     Backend, Unstarted, Uncalled
<1>3. Faithful /\ AnswersFit
  BY DEF Init, Faithful, ProducedLeadsOn, CacheFaithful, AnswersFit, Uncalled
<1>4. QED
  BY <1>1, <1>2, <1>3 DEF IInv

\* What a step that keeps the caches has to show.
LEMMA CachesKept ==
  ASSUME IInv, UNCHANGED <<caches, produced>>,
         active' \in [Docs -> Calls \cup {NoCall}],
         run' \in [Calls -> RunType], call' \in [Calls -> CallType],
         activity' \in {"idle", "thinking", "cached", "ready"}, disposed' \in BOOLEAN,
         Requests', AnswersFit'
  PROVE  IInv'
<1>1. TypeOK' /\ IsFiniteSet(cache')
  BY DEF IInv, TypeOK, caches
<1>2. Faithful'
  BY DEF IInv, Faithful, ProducedLeadsOn, CacheFaithful, caches
<1>3. QED
  BY <1>1, <1>2 DEF IInv

LEMMA AbortsKeepIInv ==
  ASSUME IInv,
         \/ \E k \in Calls : SourceAbort(k)
         \/ \E r \in Calls : GraceElapsed(r)
         \/ \E d \in Docs : Cancel(d)
         \/ CancelAll
  PROVE  IInv'
<1>1. Keeps /\ Requests'
  BY AbortsKeepRequests DEF IInv
<1>2. UNCHANGED <<active, caches, activity, disposed, produced>>
  BY DEF SourceAbort, GraceElapsed, Cancel, CancelAll
<1>3. AnswersFit'
  BY <1>1, <1>2 DEF IInv, AnswersFit, Keeps
<1>4. QED
  BY <1>1, <1>2, <1>3, CachesKept DEF IInv, TypeOK, Keeps

\* A call that is answered at once is answered something that fits.
LEMMA AnsweredKeepsIInv ==
  ASSUME IInv, NEW k \in Calls, NEW d \in Docs, NEW c \in Contents, NEW x \in BOOLEAN,
         CachedAnswer(k, d, c, x) \/ NegativeAnswer(k, d, c, x)
  PROVE  IInv'
<1>1. PICK t \in Cached(d, c) \cup {None} :
        call' = [call EXCEPT ![k] = Answered(c, x, t)]
  BY DEF CachedAnswer, NegativeAnswer
<1>2. /\ IsNext(k) /\ UNCHANGED <<active, run, caches, disposed, produced>>
      /\ activity' \in {activity, "cached"}
  BY DEF CachedAnswer, NegativeAnswer
<1>3. TypeOK /\ Faithful /\ Requests
  BY DEF IInv
<1>4. t \in Bases \cup {None}
  BY <1>1, <1>3, CachedFits
<1>5. call' \in [Calls -> CallType] /\ Requests'
  BY <1>1, <1>2, <1>3, <1>4, AnsweredKeepsRequests
<1>6. AnswersFit'
  <2> SUFFICES ASSUME NEW j \in Calls, call'[j].answer # None
               PROVE  Fits(call'[j], produced)
    BY <1>2, AnswersFitIsFits DEF Fits
  <2>1. CASE j = k
    <3>1. call'[j].content = c /\ call'[j].answer = t
      BY <1>1, <1>3, <2>1 DEF TypeOK, Answered
    <3>2. t \in Cached(d, c)
      BY <1>1, <3>1
    <3>3. QED
      BY <1>3, <3>1, <3>2, CachedFits DEF Fits
  <2>2. CASE j # k
    <3>1. call'[j] = call[j]
      BY <1>1, <1>3, <2>2 DEF TypeOK
    <3>2. QED
      BY <3>1, AnswersFitIsFits DEF IInv
  <2>3. QED
    BY <2>1, <2>2
<1>7. QED
  BY <1>2, <1>3, <1>5, <1>6, CachesKept DEF TypeOK

LEMMA ComesKeepsIInv ==
  ASSUME IInv, NEW k \in Calls, NEW d \in Docs, NEW c \in Contents, NEW x \in BOOLEAN,
         Join(k, d, c, x) \/ Start(k, d, c, x)
  PROVE  IInv'
<1>1. TypeOK /\ Requests
  BY DEF IInv
<1>2. /\ run' \in [Calls -> RunType] /\ call' \in [Calls -> CallType]
      /\ active' \in [Docs -> Calls \cup {NoCall}] /\ Requests'
  BY <1>1, JoinKeepsRequests, StartKeepsRequests DEF Join, TypeOK
<1>3. UNCHANGED <<caches, activity, disposed, produced>>
  BY DEF Join, Start
<1>4. \E r \in Calls : call' = [call EXCEPT ![k] = Waiting(r, c, x)]
  <2>1. CASE Join(k, d, c, x)
    BY <1>1, <2>1 DEF Join, Joinable, TypeOK
  <2>2. CASE Start(k, d, c, x)
    BY <2>2 DEF Start
  <2>3. QED
    BY <2>1, <2>2
<1>5. call'[k].answer = None /\ \A j \in Calls : j # k => call'[j] = call[j]
  BY <1>1, <1>4, WaitingCall
<1>6. AnswersFit'
  BY <1>3, <1>5 DEF IInv, AnswersFit
<1>7. QED
  BY <1>1, <1>2, <1>3, <1>6, CachesKept DEF TypeOK

\* Clearing the caches and expiry only forget.
LEMMA ForgettingKeepsIInv ==
  ASSUME IInv, ClearCache \/ Expire
  PROVE  IInv'
<1>1. UNCHANGED <<active, run, call, activity, disposed, produced>>
  BY DEF ClearCache, Expire
<1>2. Forgets
  BY DEF ClearCache, Expire, Forgets, IInv, TypeOK
<1>3. CacheType' /\ Faithful'
  BY <1>2, ForgettingIsFaithful DEF IInv, TypeOK, CacheType
<1>4. TypeOK' /\ IsFiniteSet(cache')
  BY <1>1, <1>3 DEF IInv, TypeOK, CacheType
<1>5. Requests'
  BY <1>1 DEF IInv, Requests, Bonds, RunsKnown, ActiveInFlight, WaitersServed,
     ConsumersKnown, NewIsFresh, LiveIsCurrent, LatestConsumerDecides, InFlight, IsCurrent
<1>6. AnswersFit'
  BY <1>1 DEF IInv, AnswersFit
<1>7. QED
  BY <1>3, <1>4, <1>5, <1>6 DEF IInv

\* Disposing aborts every run that is live, since those are the active ones.
LEMMA DisposeKeepsIInv ==
  ASSUME IInv, Dispose
  PROVE  IInv'
<1>1. TypeOK /\ Requests
  BY DEF IInv
<1>2. /\ run' = AllAborted /\ active' = [d \in Docs |-> NoCall] /\ disposed'
      /\ UNCHANGED <<call, activity, produced>>
  BY DEF Dispose
<1>3. Forgets
  BY DEF Dispose, Forgets, IInv, TypeOK
<1>4. CacheType' /\ Faithful'
  BY <1>3, ForgettingIsFaithful DEF IInv, TypeOK, CacheType
<1>5. /\ run' \in [Calls -> RunType]
      /\ \A r \in Calls :
           /\ SameRequest(run[r], run'[r]) /\ run'[r].consumer = run[r].consumer
           /\ run[r].aborted => run'[r].aborted
           /\ \A d \in Docs : active[d] = r => run'[r].aborted
  BY <1>1, <1>2, AllAbortedKeeps
<1>6. TypeOK' /\ IsFiniteSet(cache')
  <2>1. disposed' \in BOOLEAN
    BY DEF Dispose
  <2>2. QED
    BY <1>1, <1>2, <1>4, <1>5, <2>1 DEF TypeOK, CacheType
<1>7. \A r \in Calls : ~(InFlight(r)' /\ ~run'[r].aborted)
  <2> SUFFICES ASSUME NEW r \in Calls, InFlight(r)', ~run'[r].aborted
               PROVE  FALSE
    OBVIOUS
  <2>1. InFlight(r) /\ ~run[r].aborted
    BY <1>5 DEF InFlight, SameRequest
  <2>2. active[run[r].doc] = r /\ run[r].doc \in Docs
    BY <1>1, <2>1 DEF Requests, LiveIsCurrent, IsCurrent, Bonds, RunsKnown, InFlight, Waits, Backend
  <2>3. QED
    BY <1>5, <2>2
<1>8. LiveIsCurrent' /\ LatestConsumerDecides'
  BY <1>7 DEF LiveIsCurrent, LatestConsumerDecides
<1>9. Bonds'
  <2>1. RunsKnown'
    BY <1>1, <1>5 DEF Requests, Bonds, RunsKnown, SameRequest
  <2>2. ActiveInFlight'
    BY <1>2 DEF ActiveInFlight
  <2>3. WaitersServed'
    BY <1>1, <1>2, <1>5 DEF Requests, Bonds, WaitersServed, SameRequest, InFlight
  <2>4. ConsumersKnown'
    BY <1>1, <1>2, <1>5 DEF Requests, Bonds, ConsumersKnown, SameRequest, InFlight
  <2>5. NewIsFresh'
    BY <1>1, <1>2, <1>5 DEF Requests, Bonds, NewIsFresh, SameRequest
  <2>6. QED
    BY <2>1, <2>2, <2>3, <2>4, <2>5 DEF Bonds
<1>10. AnswersFit'
  BY <1>2 DEF IInv, AnswersFit
<1>11. QED
  BY <1>4, <1>6, <1>8, <1>9, <1>10 DEF IInv, Requests

\* A run that ends with nothing, or with what was given to it.
LEMMA FinishKeepsIInv ==
  ASSUME IInv, NEW r \in Calls, InFlight(r), NEW t \in Bases \cup {None},
         NEW b \in {"idle", "thinking", "cached", "ready"}, Finish(r, t, b),
         produced \subseteq produced', Given(r, t)
  PROVE  /\ active' \in [Docs -> Calls \cup {NoCall}]
         /\ run' \in [Calls -> RunType] /\ call' \in [Calls -> CallType]
         /\ activity' \in {"idle", "thinking", "cached", "ready"}
         /\ Requests' /\ AnswersFit'
<1>1. TypeOK /\ Requests /\ AnswersFit
  BY DEF IInv
<1>2. active' \in [Docs -> Calls \cup {NoCall}] /\ run' \in [Calls -> RunType]
  BY <1>1, FinishShape
<1>3. call' \in [Calls -> CallType]
  BY <1>1, FinishAnswers
<1>4. activity' \in {"idle", "thinking", "cached", "ready"}
  BY DEF Finish
<1>5. Requests'
  BY <1>1, FinishKeepsRequests
<1>6. AnswersFit'
  BY <1>1, FinishFits
<1>7. QED
  BY <1>2, <1>3, <1>4, <1>5, <1>6

LEMMA AskKeepsIInv ==
  ASSUME IInv, NEW r \in Calls, run[r].phase \in Waits,
         NEW f \in Fingerprints \cup {NoFp},
         run[r].content \notin Full => f = NoFp, AskEngine(r, f),
         UNCHANGED <<caches, disposed, produced>>
  PROVE  IInv'
<1>1. TypeOK /\ Requests
  BY DEF IInv
<1>2. run' \in [Calls -> RunType] /\ Requests'
  BY <1>1, AskKeepsRequests
<1>3. activity' = "thinking" /\ UNCHANGED <<active, call>>
  BY DEF AskEngine
<1>4. AnswersFit'
  BY <1>3 DEF IInv, AnswersFit
<1>5. QED
  BY <1>1, <1>2, <1>3, <1>4, CachesKept DEF TypeOK

LEMMA DebounceKeepsIInv ==
  ASSUME IInv, NEW r \in Calls, DebounceOver(r)
  PROVE  IInv'
<1>1. /\ TypeOK /\ Requests
      /\ run[r].phase = "debounce" /\ run[r].phase \in Waits /\ InFlight(r)
      /\ UNCHANGED <<caches, disposed, produced>>
  BY DEF DebounceOver, IInv, InFlight, Waits, Backend
<1>2. CASE Finish(r, None, activity)
  <2>1. /\ active' \in [Docs -> Calls \cup {NoCall}]
        /\ run' \in [Calls -> RunType] /\ call' \in [Calls -> CallType]
        /\ activity' \in {"idle", "thinking", "cached", "ready"}
        /\ Requests' /\ AnswersFit'
    BY <1>1, <1>2, FinishKeepsIInv DEF TypeOK, Given
  <2>2. QED
    BY <1>1, <2>1, CachesKept DEF TypeOK
<1>3. CASE /\ ~run[r].aborted /\ run[r].content \in Full
           /\ run' = [run EXCEPT ![r].phase = "repository"]
           /\ UNCHANGED <<active, call, activity>>
  <2>1. run[r] \in RunType
    BY <1>1 DEF TypeOK
  <2>2. /\ run' \in [Calls -> RunType]
        /\ run'[r].phase = "repository"
        /\ run'[r].doc = run[r].doc /\ run'[r].content = run[r].content
        /\ run'[r].consumer = run[r].consumer /\ run'[r].aborted = run[r].aborted
        /\ run'[r].timer = run[r].timer
        /\ \A q \in Calls : q # r => run'[q] = run[q]
    BY <1>1, <1>3, <2>1 DEF TypeOK, RunType, Phases, Waits, Backend
  <2>3. Requests'
    BY <1>1, <1>3, <2>2, GoesOnKeepsRequests
  <2>4. AnswersFit'
    BY <1>1, <1>3 DEF IInv, AnswersFit
  <2>5. QED
    BY <1>1, <1>3, <2>2, <2>3, <2>4, CachesKept DEF TypeOK
<1>4. CASE run[r].content \notin Full /\ AskEngine(r, NoFp)
  BY <1>1, <1>4, AskKeepsIInv
<1>5. QED
  BY <1>2, <1>3, <1>4 DEF DebounceOver

LEMMA RepositoryKeepsIInv ==
  ASSUME IInv, NEW r \in Calls, RepositoryOver(r)
  PROVE  IInv'
<1>1. /\ TypeOK /\ Requests /\ Faithful
      /\ run[r].phase = "repository" /\ run[r].phase \in Waits /\ InFlight(r)
      /\ run[r].content \in Full
      /\ UNCHANGED <<caches, disposed, produced>>
  BY DEF RepositoryOver, IInv, InFlight, Waits, Backend, Requests, Bonds, RunsKnown
<1>2. PICK f \in {NoFp} \cup (IF run[r].aborted THEN {} ELSE Fingerprints) :
        \/ \E e \in EntriesFor(run[r].content, f) : Finish(r, e.target, "cached")
        \/ EntriesFor(run[r].content, f) = {} /\ AskEngine(r, f)
  BY DEF RepositoryOver
<1>3. ASSUME NEW e \in EntriesFor(run[r].content, f), Finish(r, e.target, "cached")
      PROVE  IInv'
  <2>1. e \in cache /\ Base[e.content] = Base[run[r].content] /\ e.target \in Bases
    BY <1>1, <1>3 DEF EntriesFor, TypeOK, EntryType
  <2>2. <<e.content, e.fp, e.target>> \in produced
    BY <1>1, <2>1 DEF Faithful, CacheFaithful
  <2>3. Given(r, e.target)
    BY <1>1, <2>1, <2>2 DEF Given
  <2>4. /\ active' \in [Docs -> Calls \cup {NoCall}]
        /\ run' \in [Calls -> RunType] /\ call' \in [Calls -> CallType]
        /\ activity' \in {"idle", "thinking", "cached", "ready"}
        /\ Requests' /\ AnswersFit'
    BY <1>1, <1>3, <2>1, <2>3, FinishKeepsIInv
  <2>5. QED
    BY <1>1, <2>4, CachesKept DEF TypeOK
<1>4. CASE AskEngine(r, f)
  BY <1>1, <1>2, <1>4, AskKeepsIInv
<1>5. QED
  BY <1>2, <1>3, <1>4

\* The engine's answer is remembered under the request it was asked with.
LEMMA EngineKeepsIInv ==
  ASSUME IInv, NEW r \in Calls, EngineReturns(r)
  PROVE  IInv'
<1> DEFINE c == run[r].content
<1>1. /\ TypeOK /\ Requests /\ Faithful /\ AnswersFit /\ CacheType
      /\ InFlight(r) /\ UNCHANGED disposed
  BY DEF EngineReturns, IInv, InFlight, CacheType, TypeOK
<1>2. /\ run[r] \in RunType /\ run[r].doc \in Docs /\ c \in Contents
      /\ c \notin Full => run[r].fp = NoFp
  BY <1>1 DEF TypeOK, Requests, Bonds, RunsKnown, InFlight, Waits, Backend
<1>3. PICK t \in {None} \cup {b \in Bases : <<Base[c], b>> \in Below} :
        /\ produced' = IF run[r].aborted THEN produced
                       ELSE produced \cup {<<c, run[r].fp, t>>}
        /\ \/ ~Wanted(r) /\ Finish(r, None, activity) /\ UNCHANGED caches
           \/ /\ Wanted(r) /\ t # None
              /\ Finish(r, t, activity)
              /\ IF CacheEnabled THEN Store(r, t) ELSE UNCHANGED <<cache, quick>>
              /\ UNCHANGED negative
           \/ /\ Wanted(r) /\ t = None
              /\ Finish(r, None, activity)
              /\ negative' = negative \cup {KeyOf(r)}
              /\ UNCHANGED <<cache, quick>>
  BY DEF EngineReturns
<1>4. t \in Bases \cup {None} /\ run[r].fp \in Fingerprints \cup {NoFp}
  BY <1>2, <1>3 DEF RunType
<1>5. /\ produced \subseteq produced'
      /\ produced' \subseteq Contents \X (Fingerprints \cup {NoFp}) \X (Bases \cup {None})
      /\ ProducedLeadsOn'
      /\ Wanted(r) => <<c, run[r].fp, t>> \in produced'
  BY <1>1, <1>2, <1>3, <1>4 DEF TypeOK, Wanted, Faithful, ProducedLeadsOn
<1>6. PICK s \in {t, None} : /\ Finish(r, s, activity)
                             /\ s # None => Wanted(r)
  BY <1>3
<1>7. Given(r, s)
  BY <1>2, <1>5, <1>6 DEF Given
<1>8. /\ active' \in [Docs -> Calls \cup {NoCall}]
      /\ run' \in [Calls -> RunType] /\ call' \in [Calls -> CallType]
      /\ activity' \in {"idle", "thinking", "cached", "ready"}
      /\ Requests' /\ AnswersFit'
  BY <1>1, <1>4, <1>5, <1>6, <1>7, FinishKeepsIInv DEF TypeOK
<1>9. CASE UNCHANGED caches
  <2>1. CacheType' /\ CacheFaithful'
    BY <1>1, <1>5, <1>9 DEF CacheType, Faithful, CacheFaithful, caches
  <2>2. QED
    BY <1>1, <1>5, <1>8, <2>1 DEF IInv, TypeOK, CacheType, Faithful
<1>10. CASE /\ Wanted(r) /\ t # None /\ Store(r, t) /\ UNCHANGED negative
  <2>1. t \in Bases
    BY <1>3, <1>10
  <2>2. /\ cache' \subseteq EntryType /\ IsFiniteSet(cache')
        /\ Cardinality(cache') <= MaxEntries
        /\ \A e \in cache' :
             \/ e \in cache
             \/ e.content = c /\ e.fp = run[r].fp /\ e.target = t
        /\ quick' = [quick EXCEPT ![Base[c]] = t]
    BY <1>1, <1>2, <1>10, <2>1, StoreFits
  <2>3. CacheType'
    BY <1>1, <1>2, <1>10, <2>1, <2>2 DEF CacheType
  <2>4. CacheFaithful'
    <3>1. \A e \in cache' : <<e.content, e.fp, e.target>> \in produced'
      BY <1>1, <1>5, <1>10, <2>2 DEF Faithful, CacheFaithful
    <3>2. \A b \in Bases :
            quick'[b] # None => \E p \in produced' : Base[p[1]] = b /\ p[3] = quick'[b]
      BY <1>1, <1>2, <1>5, <1>10, <2>2 DEF Faithful, CacheFaithful, CacheType
    <3>3. \A n \in negative' :
            \E p \in produced' : Base[p[1]] = n[1] /\ p[2] = n[2] /\ p[3] = None
      BY <1>1, <1>5, <1>10 DEF Faithful, CacheFaithful
    <3>4. QED
      BY <3>1, <3>2, <3>3 DEF CacheFaithful
  <2>5. QED
    BY <1>1, <1>5, <1>8, <2>3, <2>4 DEF IInv, TypeOK, CacheType, Faithful
<1>11. CASE /\ Wanted(r) /\ t = None
            /\ negative' = negative \cup {KeyOf(r)} /\ UNCHANGED <<cache, quick>>
  <2>1. KeyOf(r) = <<Base[c], run[r].fp>> /\ KeyOf(r) \in Keys
    BY <1>2, <1>4, ContentAssumption DEF KeyOf, Keys
  <2>2. CacheType'
    BY <1>1, <1>11, <2>1 DEF CacheType
  <2>3. CacheFaithful'
    BY <1>1, <1>5, <1>11, <2>1 DEF Faithful, CacheFaithful
  <2>4. QED
    BY <1>1, <1>5, <1>8, <2>2, <2>3 DEF IInv, TypeOK, CacheType, Faithful
<1>12. QED
  BY <1>3, <1>9, <1>10, <1>11 DEF caches

\* A response that stalls changes nothing but what its run awaits.
LEMMA StallsKeepsIInv ==
  ASSUME IInv, NEW r \in Calls, EngineStalls(r)
  PROVE  IInv'
<1>1. TypeOK /\ Requests /\ run[r] \in RunType /\ InFlight(r)
  BY DEF EngineStalls, IInv, TypeOK, InFlight, Backend
<1>2. /\ run' = [run EXCEPT ![r].phase = "stalled"]
      /\ UNCHANGED <<active, call, caches, activity, disposed, produced>>
  BY DEF EngineStalls
<1>3. /\ run' \in [Calls -> RunType]
      /\ run'[r].phase = "stalled" /\ run'[r].fp = run[r].fp
      /\ run'[r].doc = run[r].doc /\ run'[r].content = run[r].content
      /\ run'[r].consumer = run[r].consumer /\ run'[r].aborted = run[r].aborted
      /\ run'[r].timer = run[r].timer
      /\ \A q \in Calls : q # r => run'[q] = run[q]
  BY <1>1, <1>2 DEF TypeOK, RunType, Phases, Backend
<1>4. run[r].content \notin Full => run'[r].fp = NoFp
  BY <1>1, <1>3 DEF Requests, Bonds, RunsKnown, InFlight, Waits, Backend
<1>5. Requests'
  BY <1>1, <1>2, <1>3, <1>4, GoesOnKeepsRequests
<1>6. AnswersFit'
  BY <1>2 DEF IInv, AnswersFit
<1>7. QED
  BY <1>1, <1>2, <1>3, <1>5, <1>6, CachesKept DEF TypeOK

LEMMA NextIInv ==
  ASSUME IInv, [Next]_vars
  PROVE  IInv'
<1>1. ASSUME NEW k \in Calls, NEW d \in Docs, NEW c \in Contents, NEW x \in BOOLEAN,
             Complete(k, d, c, x)
      PROVE  IInv'
  BY <1>1, AnsweredKeepsIInv, ComesKeepsIInv DEF Complete
<1>2. ASSUME NEW r \in Calls, RunStep(r)
      PROVE  IInv'
  BY <1>2, DebounceKeepsIInv, RepositoryKeepsIInv, EngineKeepsIInv DEF RunStep
<1>3. ASSUME NEW r \in Calls, EngineStalls(r)
      PROVE  IInv'
  BY <1>3, StallsKeepsIInv
<1>4. CASE UNCHANGED vars
  <2>1. /\ UNCHANGED <<active, run, call, activity, disposed, produced>>
        /\ UNCHANGED <<cache, quick, negative>>
    BY <1>4 DEF vars, caches
  <2>2. Requests'
    BY <2>1 DEF IInv, Requests, Bonds, RunsKnown, ActiveInFlight, WaitersServed,
       ConsumersKnown, NewIsFresh, LiveIsCurrent, LatestConsumerDecides, InFlight, IsCurrent
  <2>3. AnswersFit'
    BY <2>1 DEF IInv, AnswersFit
  <2>4. QED
    BY <2>1, <2>2, <2>3, CachesKept DEF IInv, TypeOK, caches
<1>5. QED
  BY <1>1, <1>2, <1>3, <1>4, AbortsKeepIInv, ForgettingKeepsIInv, DisposeKeepsIInv DEF Next

-----------------------------------------------------------------------------
(* Theorems.                                                               *)

LEMMA Invariance == Spec => []IInv
<1>1. IInv /\ [Next]_vars => IInv'
  BY NextIInv
<1>2. QED
  BY <1>1, InitIInv, PTL DEF Spec

\* Every variable keeps its type, and the cache of answers never outgrows
\* cache.maxEntries.
THEOREM TypeCorrect == Spec => []TypeOK
<1>1. IInv => TypeOK
  BY DEF IInv
<1>2. QED
  BY <1>1, Invariance, PTL

\* A document has one request under way that may still be answered, whatever
\* supersedes, cancels or joins it: the identity checks of run() and complete()
\* lose no live run.
THEOREM LiveIsCurrentHolds == Spec => []LiveIsCurrent
<1>1. IInv => LiveIsCurrent
  BY DEF IInv, Requests
<1>2. QED
  BY <1>1, Invariance, PTL

\* A run is about to be abandoned exactly when its latest consumer was cancelled:
\* no earlier consumer's abort handler ends it, and a join takes the pending abort
\* back (bindCancellation).
THEOREM LatestConsumerDecidesHolds == Spec => []LatestConsumerDecides
<1>1. IInv => LatestConsumerDecides
  BY DEF IInv, Requests
<1>2. QED
  BY <1>1, Invariance, PTL

\* Every entry of the three caches is an answer the engine gave to the request it
\* is stored under, and only a run that was left to finish is remembered as empty.
THEOREM CacheFaithfulHolds == Spec => []CacheFaithful
<1>1. IInv => CacheFaithful
  BY DEF IInv, Faithful
<1>2. QED
  BY <1>1, Invariance, PTL

\* What a call is answered continues what its caller had typed, through any chain
\* of joins and refined cache entries; a request that waits for no repository
\* context gets one's suggestion only by joining a run in flight under its own key.
THEOREM AnswersFitHolds == Spec => []AnswersFit
<1>1. IInv => AnswersFit
  BY DEF IInv
<1>2. QED
  BY <1>1, Invariance, PTL

=============================================================================
