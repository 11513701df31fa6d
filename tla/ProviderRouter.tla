---------------------------- MODULE ProviderRouter ----------------------------
(***************************************************************************)
(* One completion request on its way through the handler, the completion   *)
(* service, the router and the providers                                   *)
(* (api/internal/http/handlers/completion.go and stream.go,                *)
(* completion/service.go, router/router.go, providers/).                   *)
(*                                                                         *)
(* The request's context, the router's time-out and the provider's end     *)
(* independently of what the upstream sends; the router asks its targets   *)
(* in order.  Text is a sequence of pieces, each with the target it came   *)
(* from: some characters of the completion, a line end, or what the        *)
(* sanitizer takes off (a fence, an announcement, a repetition).           *)
(***************************************************************************)
EXTENDS Naturals, Sequences, SequencesExt

CONSTANTS
    Routers,        \* the routers of this instance: the kind of each target, the attempts
    Modes,          \* the endpoints of this instance
    Chunks,         \* what upstream sends at a time: sequences of "text", "line", "extra"
    MaxChunks       \* bound: chunks of one target

ASSUME RouterAssumption ==
    \A r \in Routers :
        /\ r.kind \in Seq({"chat", "raw", "anthropic", "mock"})
        /\ r.attempts \in Nat \ {0}
ASSUME ModeAssumption == Modes \subseteq {"complete", "stream"}
\* An empty delta is skipped.
ASSUME ChunkAssumption ==
    Chunks \subseteq Seq({"text", "line", "extra"}) \ {<<>>} /\ MaxChunks \in Nat

VARIABLES
    router,     \* Static: its targets and AI_MAX_ROUTER_ATTEMPTS
    req,        \* endpoint, validity, kind of intent, single-line focus of its context
    plan,       \* what the caller's plan includes
    gone,       \* the request's context has been cancelled
    ctx,        \* the router's context: live, or why it ended
    call,       \* the same for the provider call's context
    at,         \* where the request is
    target,     \* the last target begun
    emitted,    \* this target has emitted text
    err,        \* the error returned last
    raw,        \* the text received
    sent,       \* what the client was sent
    count,      \* chunks of this target
    ended,      \* history: how each target ended
    asked       \* history: the targets a request was sent to

vars == <<router, req, plan, gone, ctx, call, at, target, emitted, err, raw, sent, count, ended, asked>>

Contexts == {"live", "canceled", "deadline"}

\* completion.ProviderErrorKind
ProviderErrors == {"authentication", "rate_limit", "timeout", "unavailable", "invalid_response"}

Requests == [mode : Modes, valid : BOOLEAN, intent : {"none", "line", "block"}, focus : BOOLEAN]

Init ==
    /\ router \in Routers
    /\ req \in Requests
    /\ plan \in [streaming : BOOLEAN, context : BOOLEAN]
    /\ gone = FALSE /\ ctx = "live" /\ call = "live"
    /\ at = "new" /\ target = 0 /\ emitted = FALSE /\ err = "none"
    /\ raw = <<>> /\ sent = <<>> /\ count = 0
    /\ ended = <<>> /\ asked = {}

Streaming == req.mode = "stream"

Kind == router.kind

MaxAttempts == router.attempts

Event(type, text) == [type |-> type, text |-> text]

Final(event) == at' = "over" /\ sent' = Append(sent, event)

-----------------------------------------------------------------------------
(* The handlers, up to the service *)

\* POST /v1/completions: a plan without repository context has it removed.
AcceptComplete ==
    /\ at = "new" /\ ~Streaming
    /\ IF ~req.valid THEN Final(Event("INVALID_REQUEST", <<>>)) /\ UNCHANGED req
       ELSE /\ at' = "route" /\ UNCHANGED sent
            /\ req' = [req EXCEPT !.focus = @ /\ plan.context]
    /\ UNCHANGED <<router, plan, gone, ctx, call, target, emitted, err, raw, count, ended, asked>>

\* POST /v1/completions/stream: the 200 is sent before any provider is asked.
AcceptStream ==
    /\ at = "new" /\ Streaming
    /\ CASE ~req.valid -> Final(Event("INVALID_REQUEST", <<>>)) /\ UNCHANGED req
         [] req.valid /\ ~plan.streaming ->
              Final(Event("FEATURE_NOT_AVAILABLE", <<>>)) /\ UNCHANGED req
         [] OTHER -> /\ at' = "route" /\ sent' = <<Event("open", <<>>)>>
                     /\ req' = [req EXCEPT !.focus = @ /\ plan.context]
    /\ UNCHANGED <<router, plan, gone, ctx, call, target, emitted, err, raw, count, ended, asked>>

-----------------------------------------------------------------------------
(* The router's loop *)

\* mutant: a rate limit does not fall back
Eligible_NoLimit(e) == e \in ProviderErrors \ {"rate_limit"}

Eligible(e) == e \in ProviderErrors

Returns(e) == at' = "returned" /\ err' = e

\* openai-compatible targets in completion mode refuse to stream unasked.
Refuses == Streaming /\ Kind[target'] = "raw"

\* mutant: the context is not looked at
MoreTargets_Anyway == target < Len(Kind) /\ target < MaxAttempts

MoreTargets == target < Len(Kind) /\ target < MaxAttempts /\ ctx = "live"

\* The next target is asked, under a time-out of its own, or the loop is over.
NextTarget ==
    /\ at = "route"
    /\ IF MoreTargets
       THEN /\ target' = target + 1 /\ call' = "live" /\ emitted' = FALSE /\ count' = 0
            /\ IF Refuses THEN Returns("unavailable") /\ UNCHANGED asked
               ELSE at' = "sent" /\ asked' = asked \cup {target'} /\ UNCHANGED err
       ELSE /\ at' = "answer" /\ err' = IF ctx = "live" THEN err ELSE ctx
            /\ UNCHANGED <<target, call, emitted, count, asked>>
    /\ UNCHANGED <<router, req, plan, gone, ctx, raw, sent, ended>>

\* mutant: what was emitted is forgotten
Falls_Emitted(e) == Eligible(e)

\* A failure that has shown nothing yet goes to the next target.
Falls(e) == ~emitted /\ Eligible(e)

Returned ==
    /\ at = "returned"
    /\ ended' = Append(ended, err)
    /\ at' = IF Falls(err) THEN "route" ELSE "answer"
    /\ UNCHANGED <<router, req, plan, gone, ctx, call, target, emitted, err, raw, sent, count, asked>>

-----------------------------------------------------------------------------
(* Service.Stream's callback *)

\* singleLineFocus: by intent, or else by the focus of the repository context.
SingleLineFocus == IF req.intent = "none" THEN req.focus ELSE req.intent = "line"

From(i, chunk) == [n \in DOMAIN chunk |-> <<i, chunk[n]>>]

LineEnds(text) == {n \in DOMAIN text : text[n][2] = "line"}

\* The text up to its first line end.
FirstLine(text) ==
    IF LineEnds(text) = {} THEN text
    ELSE SubSeq(text, 1, (CHOOSE n \in LineEnds(text) : \A m \in LineEnds(text) : n <= m) - 1)

\* The whole of it, unless only the line is wanted.
Useful(text) == IF SingleLineFocus THEN FirstLine(text) ELSE text

\* mutant: the chunk is passed on whole
Added_Whole(chunk) == chunk

\* What the chunk adds to the useful text.
Added(chunk) == SubSeq(Useful(raw \o chunk), Len(raw) + 1, Len(Useful(raw \o chunk)))

\* The error the callback returns: the write's, if the client has gone; then the end
\* of the line, then the request's context.
CallbackErrors(chunk) ==
    (IF gone /\ Added(chunk) # <<>> THEN {"write"} ELSE {})
        \cup {CASE Useful(raw \o chunk) # raw \o chunk -> "line"
                [] Useful(raw \o chunk) = raw \o chunk /\ gone -> "canceled"
                [] OTHER -> "none"}

\* The chunk is sent on.
OnChunk(chunk, e) ==
    /\ e \in CallbackErrors(chunk)
    /\ raw' = Useful(raw \o chunk)
    /\ sent' = IF e = "write" \/ Added(chunk) = <<>> THEN sent
               ELSE Append(sent, Event("chunk", Added(chunk)))

-----------------------------------------------------------------------------
(* Providers *)

\* Statuses other than 2xx; the classes of both providers.
StatusErrors == {"authentication", "rate_limit", "timeout", "unavailable"}

\* The upstream refuses, or the connection fails.
UpstreamRefuses ==
    /\ at = "sent" /\ Kind[target] # "mock"
    /\ \E e \in StatusErrors : Returns(e)
    /\ UNCHANGED <<router, req, plan, gone, ctx, call, target, emitted, raw, sent, count, ended, asked>>

UpstreamAccepts ==
    /\ at = "sent" /\ Kind[target] # "mock"
    /\ at' = "reading"
    /\ UNCHANGED <<router, req, plan, gone, ctx, call, target, emitted, err, raw, sent, count, ended, asked>>

\* A body that cannot be decoded, or breaks off.
UpstreamGarbles ==
    /\ at = "reading"
    /\ Returns("invalid_response")
    /\ UNCHANGED <<router, req, plan, gone, ctx, call, target, emitted, raw, sent, count, ended, asked>>

\* mutant: the body is read without the context
Notices_Headers == at = "sent"

Notices == at \in {"sent", "reading"}

\* The provider call's context ends it: a time-out before the headers, an invalid
\* response after them.
ContextEnds ==
    /\ Notices /\ call # "live" /\ Kind[target] # "mock"
    /\ Returns(CASE call = "canceled" -> "canceled"
                 [] call = "deadline" /\ at = "sent" -> "timeout"
                 [] OTHER -> "invalid_response")
    /\ UNCHANGED <<router, req, plan, gone, ctx, call, target, emitted, raw, sent, count, ended, asked>>

Native == Streaming /\ Kind[target] = "chat"

\* StreamComplete of a chat target: a chunk,
StreamChunk(chunk) ==
    /\ at = "reading" /\ Native /\ count < MaxChunks
    /\ count' = count + 1 /\ emitted' = TRUE
    /\ \E e \in CallbackErrors(From(target, chunk)) :
          /\ OnChunk(From(target, chunk), e)
          /\ IF e = "none" THEN UNCHANGED <<at, err>> ELSE Returns(e)
    /\ UNCHANGED <<router, req, plan, gone, ctx, call, target, ended, asked>>

\* or the end, with or without [DONE].
StreamEnds ==
    /\ at = "reading" /\ Native
    /\ Returns("none")
    /\ UNCHANGED <<router, req, plan, gone, ctx, call, target, emitted, raw, sent, count, ended, asked>>

\* Complete: the whole text, possibly empty; a stream gets it as one chunk.
Completes(chunk) ==
    /\ at \in {"sent", "reading"} /\ ~Native
    /\ at = "sent" <=> Kind[target] = "mock"
    /\ IF Streaming /\ chunk # <<>>
       THEN \E e \in CallbackErrors(From(target, chunk)) :
               OnChunk(From(target, chunk), e) /\ Returns(e)
       ELSE raw' = From(target, chunk) /\ Returns("none") /\ UNCHANGED sent
    /\ UNCHANGED <<router, req, plan, gone, ctx, call, target, emitted, count, ended, asked>>

-----------------------------------------------------------------------------
(* The service's answer, and the handlers after it *)

\* What the sanitizer leaves: nothing before the first or after the last piece of the
\* completion (module CompletionText has its steps).
Code(text) ==
    LET code == {n \in DOMAIN text : text[n][2] = "text"}
    IN  IF code = {} THEN <<>>
        ELSE SubSeq(text, CHOOSE n \in code : \A m \in code : n <= m,
                          CHOOSE n \in code : \A m \in code : m <= n)

\* MaxLinesForIntent gives one line to the intents that ask for one.
Sanitize(text) == IF req.intent = "line" THEN FirstLine(Code(text)) ELSE Code(text)

\* writeProviderError, and 500 for what is not a provider's error.
StatusOf(e) ==
    CASE e = "timeout" -> "PROVIDER_TIMEOUT"
      [] e = "rate_limit" -> "PROVIDER_RATE_LIMITED"
      [] e \in ProviderErrors \ {"timeout", "rate_limit"} -> "PROVIDER_UNAVAILABLE"
      [] OTHER -> "INTERNAL_ERROR"

AnswerComplete ==
    /\ at = "answer" /\ ~Streaming
    /\ CASE err = "none" -> Final(Event("done", Sanitize(raw)))
         [] err # "none" /\ gone -> at' = "over" /\ UNCHANGED sent
         [] OTHER -> Final(Event(StatusOf(err), <<>>))
    /\ UNCHANGED <<router, req, plan, gone, ctx, call, target, emitted, err, raw, count, ended, asked>>

\* The end of the line is a success of the service.
Success(e) == e \in {"none", "line"}

AnswerStream ==
    /\ at = "answer" /\ Streaming
    /\ CASE Success(err) -> Final(Event("done", Sanitize(raw)))
         [] ~Success(err) /\ gone -> at' = "over" /\ UNCHANGED sent
         [] OTHER -> Final(Event("error", <<>>))
    /\ UNCHANGED <<router, req, plan, gone, ctx, call, target, emitted, err, raw, count, ended, asked>>

-----------------------------------------------------------------------------
(* Contexts: the first cause is the one a context keeps *)

First(c, cause) == IF c = "live" THEN cause ELSE c

ClientLeaves ==
    /\ ~gone /\ at \notin {"new", "over"}
    /\ gone' = TRUE
    /\ ctx' = First(ctx, "canceled") /\ call' = First(call, "canceled")
    /\ UNCHANGED <<router, req, plan, at, target, emitted, err, raw, sent, count, ended, asked>>

RouterTimeout ==
    /\ ctx = "live" /\ at \notin {"new", "answer", "over"}
    /\ ctx' = "deadline" /\ call' = First(call, "deadline")
    /\ UNCHANGED <<router, req, plan, gone, at, target, emitted, err, raw, sent, count, ended, asked>>

ProviderTimeout ==
    /\ call = "live" /\ at \in {"sent", "reading"}
    /\ call' = "deadline"
    /\ UNCHANGED <<router, req, plan, gone, ctx, at, target, emitted, err, raw, sent, count, ended, asked>>

Upstream ==
    \/ UpstreamRefuses \/ UpstreamAccepts \/ UpstreamGarbles \/ StreamEnds
    \/ \E chunk \in Chunks : StreamChunk(chunk)
    \/ \E chunk \in Chunks \cup {<<>>} : Completes(chunk)

Server ==
    \/ AcceptComplete \/ AcceptStream \/ NextTarget \/ Returned \/ ContextEnds
    \/ AnswerComplete \/ AnswerStream

Next == Upstream \/ Server \/ ClientLeaves \/ RouterTimeout \/ ProviderTimeout

Spec == Init /\ [][Next]_vars

MockAnswers ==
    at = "sent" /\ Kind[target] = "mock" /\ \E chunk \in Chunks : Completes(chunk)

\* The server's own steps, its mock included; nothing is assumed of upstream.
FairSpec == Spec /\ WF_vars(Server) /\ WF_vars(MockAnswers)

-----------------------------------------------------------------------------
(* Properties *)

Shown == FlattenSeq([n \in DOMAIN sent |-> IF sent[n].type = "chunk" THEN sent[n].text ELSE <<>>])

\* docs/streaming-protocol.md:7: "output from two providers is never combined":
\* everything a client is sent, chunks and final text, comes from one target.
OneVoice ==
    \A n, m \in DOMAIN sent :
        \A p \in ToSet(sent[n].text), q \in ToSet(sent[m].text) : p[1] = q[1]

\* A stream is opened, chunks follow, and one event ends it; the chunks are "raw
\* provider text" (docs/streaming-protocol.md:5), one line of it where only the line is
\* wanted, and "done" carries the sanitized form of exactly the text they showed.
StreamTellsWhatItShowed ==
    Streaming /\ sent # <<>> /\ sent[1].type = "open" =>
        /\ \A n \in 2..Len(sent) : sent[n].type # "chunk" => n = Len(sent) /\ at = "over"
        /\ Last(sent).type = "done" => Last(sent).text = Sanitize(Shown)
        /\ SingleLineFocus => LineEnds(Shown) = {}

\* "Router fallback is permitted only before a provider emits a chunk": the next
\* target is begun only after a provider's error, with nothing shown, while the
\* client is there; an empty answer is an answer.
FallbackIsJustified ==
    [][target' > target =>
         /\ ~gone /\ Shown = <<>>
         /\ target > 0 => ended[target] \in ProviderErrors]_vars

MayTry == IF Len(Kind) < MaxAttempts THEN Len(Kind) ELSE MaxAttempts

\* A request fails only when every target it may try has been asked, unless its context
\* ended or a part of the answer was already sent.  A stream passes over the targets in
\* completion mode, which refuse it unasked (docs/streaming-protocol.md:7 promises their
\* "normal result ... as a single chunk"): it may fail although one of them would answer.
NoTargetLeftOut ==
    at = "over" /\ ctx = "live" /\ sent # <<>> /\ Shown = <<>>
        /\ Last(sent).type \notin {"done", "INVALID_REQUEST", "FEATURE_NOT_AVAILABLE"} =>
            \A n \in 1..MayTry : n \in asked \/ (Streaming /\ Kind[n] = "raw")

\* "Cancelling the HTTP request cancels the backend context and the upstream provider
\* request": a request whose context ended is over soon, whatever upstream does.
ContextReachesUpstream == ctx # "live" ~> at = "over"
=============================================================================
