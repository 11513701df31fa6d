------------------------------ MODULE ApiServer ------------------------------
(***************************************************************************)
(* The API process (cmd/server, internal/server, http/middleware and the   *)
(* handlers): start-up over its stores, the route table and middleware     *)
(* chains that its configuration selects, requests passing through them    *)
(* while Redis, PostgreSQL or the mail server fail and recover, and the    *)
(* shutdown that waits ten seconds for them.                               *)
(*                                                                         *)
(* Here an answer is its error code ("OK" for a success).  What the        *)
(* handlers do to the stores is in Metering, AccountSessions and           *)
(* QualityEvents; the limits themselves are in TokenBucket.                *)
(***************************************************************************)
EXTENDS Naturals, Sequences

CONSTANTS
    Slots,      \* requests at the same time
    Settings,   \* configurations the process may be started with
    Routes,     \* routes that are asked for
    Clients,    \* what a client may show: valid tokens, and whether it is revoked or linked
    MayFail,    \* dependencies that may fail
    MaxEvents   \* bound: events of one stream

Flags == {"auth", "redis", "database", "quality", "admin", "limit", "quota", "streaming", "required"}

Deps == {"redis", "database", "mail"}

Tokens == {"installation", "user", "session", "code", "admin"}

\* The configuration accepts quality insights and the dashboard only with a database.
ASSUME SettingsAssumption ==
    \A s \in Settings : s \subseteq Flags /\ (s \cap {"quality", "admin"} # {} => "database" \in s)
ASSUME ClientsAssumption == \A c \in Clients : c \subseteq Tokens \cup {"revoked", "linked"}
ASSUME MayFailAssumption == MayFail \subseteq Deps

VARIABLES
    settings,  \* what is configured
    phase,     \* of the process
    open,      \* stores the process holds connections to
    up,        \* dependencies that answer
    req        \* the request in every slot

vars == <<settings, phase, open, up, req>>

Idle == [at |-> "idle", route |-> "none", shown |-> {}, left |-> <<>>, code |-> "none",
         down |-> {}, saw |-> {}, buffered |-> 0]

Init ==
    /\ settings \in Settings
    /\ phase = "redis" /\ open = {} /\ up \in {Deps \ d : d \in SUBSET MayFail}
    /\ req = [r \in Slots |-> Idle]

On(flag) == flag \in settings

-----------------------------------------------------------------------------
(* Start-up: each store is opened after the one before *)

OpenRedis ==
    /\ phase = "redis"
    /\ phase' = IF On("redis") /\ "redis" \notin up THEN "failed" ELSE "database"
    /\ open' = IF On("redis") /\ "redis" \in up THEN {"redis"} ELSE {}
    /\ UNCHANGED <<settings, up, req>>

OpenDatabase ==
    /\ phase = "database"
    /\ IF On("database") /\ "database" \notin up
       THEN phase' = "failed" /\ open' = {}
       ELSE phase' = "cleanup" /\ open' = open \cup (settings \cap {"database"})
    /\ UNCHANGED <<settings, up, req>>

\* mutant: only the pool is closed when the clean-up fails
Abandoned_Pool == open \ {"database"}

\* What a start-up that fails in the clean-up still holds.
Abandoned == {}

\* Old quality events are deleted before the server listens.
Cleanup ==
    /\ phase = "cleanup"
    /\ IF On("quality") /\ "database" \notin up
       THEN phase' = "failed" /\ open' = Abandoned
       ELSE phase' = "serving" /\ UNCHANGED open
    /\ UNCHANGED <<settings, up, req>>

-----------------------------------------------------------------------------
(* The route table *)

AuthRoutes == {"auth.request", "auth.verify", "auth.refresh", "auth.logout"}
UserRoutes == {"account", "entitlements", "installations", "revoke", "link"}
AdminRoutes == {"admin.overview", "admin.users", "admin.installations", "admin.invites",
                "admin.quality", "admin.invite", "admin.plan", "admin.revoke"}
Metered == {"completions", "stream"}

Mounted(route) ==
    CASE route \in AuthRoutes \cup UserRoutes -> On("database")
      [] route \in AdminRoutes \cup {"admin.page"} -> On("admin")
      [] route = "quality" -> {"quality", "auth", "database"} \subseteq settings
      [] route = "stream" -> On("streaming")
      [] OTHER -> route \in {"root", "health", "ready", "register", "requirement", "completions"}

If(flag, stages) == IF On(flag) THEN stages ELSE <<>>

\* mutant: the limit is wrapped around the authentication
Admission_Limit ==
    If("limit", <<"RateLimit">>) \o <<"Auth">> \o If("quota", <<"Quota">>)
    \o If("database", <<"InstallationStatus", "RequireLinkedAccount", "Entitlements", "MonthlyQuota">>)

\* The middlewares around a completion, outermost first.
Admission ==
    <<"Auth">> \o If("limit", <<"RateLimit">>) \o If("quota", <<"Quota">>)
    \o If("database", <<"InstallationStatus", "RequireLinkedAccount", "Entitlements", "MonthlyQuota">>)

\* Routes under the router mounted at "/" pass its limit, and so does every path that
\* nothing else serves.
Chain(route) ==
    CASE ~Mounted(route) \/ route \in AuthRoutes -> If("database", <<"PublicRateLimit">>)
      [] Mounted(route) /\ route \in UserRoutes ->
           IF route = "link" THEN <<"UserAuth", "InstallationToken">> ELSE <<"UserAuth">>
      [] Mounted(route) /\ route \in AdminRoutes -> <<"AdminAuth">>
      [] Mounted(route) /\ route = "quality" -> <<"PublicRateLimit", "Auth", "InstallationStatus">>
      [] Mounted(route) /\ route \in Metered -> If("auth", Admission)
      [] Mounted(route) /\ route = "ready" -> If("redis", <<"CheckRedis">>)
      [] OTHER -> <<>>

-----------------------------------------------------------------------------
(* Requests *)

Arrive(r, route, client) ==
    /\ phase = "serving" /\ req[r].at = "idle"
    /\ req' = [req EXCEPT ![r] = [Idle EXCEPT
         !.at = "running", !.route = route, !.shown = client, !.left = Chain(route),
         !.down = Deps \ up, !.saw = Deps \ up]]
    /\ UNCHANGED <<settings, phase, open, up>>

At(r, stage) == req[r].at = "running" /\ req[r].left # <<>> /\ Head(req[r].left) = stage

Set(r, new) == req' = [req EXCEPT ![r] = new] /\ UNCHANGED <<settings, phase, open, up>>

Pass(r) == Set(r, [req[r] EXCEPT !.left = Tail(@)])

Answer(r, code) == Set(r, [req[r] EXCEPT !.at = "done", !.code = code])

Shows(r, token) == token \in req[r].shown

\* A store answers; what is kept in memory when there is no Redis always does.
Reach(dep) == dep \in up /\ (dep = "mail" \/ dep \in open)

Counters == On("redis") => Reach("redis")

PublicRateLimit(r) ==
    /\ At(r, "PublicRateLimit")
    /\ Pass(r) \/ Answer(r, "RATE_LIMITED")

\* The identity later stages need; it is there only after Auth.
Identified(r) == "Auth" \in {Chain(req[r].route)[i] : i \in 1..Len(Chain(req[r].route)) - Len(req[r].left)}

Auth(r) ==
    /\ At(r, "Auth")
    /\ IF Shows(r, "installation") THEN Pass(r) ELSE Answer(r, "UNAUTHORIZED")

UserAuth(r) ==
    /\ At(r, "UserAuth")
    /\ IF Shows(r, "user") THEN Pass(r) ELSE Answer(r, "UNAUTHORIZED")

AdminAuth(r) ==
    /\ At(r, "AdminAuth")
    /\ IF Shows(r, "admin") THEN Pass(r) ELSE Answer(r, "UNAUTHORIZED")

\* A failing database looks like a revoked installation.
InstallationToken(r) ==
    /\ At(r, "InstallationToken")
    /\ CASE ~Shows(r, "installation") -> Answer(r, "UNAUTHORIZED")
         [] Shows(r, "installation") /\ (~Reach("database") \/ Shows(r, "revoked")) ->
              Answer(r, "INSTALLATION_REVOKED")
         [] OTHER -> Pass(r)

\* mutant: the limit is skipped when Redis fails
RateLimit_Open(r) ==
    /\ At(r, "RateLimit")
    /\ CASE ~Identified(r) -> Answer(r, "UNAUTHORIZED")
         [] Identified(r) /\ ~Counters -> Pass(r)
         [] OTHER -> Pass(r) \/ Answer(r, "RATE_LIMITED")

RateLimit(r) ==
    /\ At(r, "RateLimit")
    /\ CASE ~Identified(r) -> Answer(r, "UNAUTHORIZED")
         [] Identified(r) /\ ~Counters -> Answer(r, "SERVICE_UNAVAILABLE")
         [] OTHER -> Pass(r) \/ Answer(r, "RATE_LIMITED")

Quota(r) ==
    /\ At(r, "Quota")
    /\ IF Counters THEN Pass(r) \/ Answer(r, "QUOTA_EXCEEDED") ELSE Answer(r, "SERVICE_UNAVAILABLE")

InstallationStatus(r) ==
    /\ At(r, "InstallationStatus")
    /\ CASE ~Identified(r) -> Answer(r, "UNAUTHORIZED")
         [] Identified(r) /\ ~Reach("database") -> Answer(r, "SERVICE_UNAVAILABLE")
         [] Identified(r) /\ Reach("database") /\ Shows(r, "revoked") -> Answer(r, "INSTALLATION_REVOKED")
         [] OTHER -> Pass(r)

RequireLinkedAccount(r) ==
    /\ At(r, "RequireLinkedAccount")
    /\ IF On("required") /\ ~Shows(r, "linked") THEN Answer(r, "ACCOUNT_REQUIRED") ELSE Pass(r)

Entitlements(r) ==
    /\ At(r, "Entitlements")
    /\ IF Reach("database") THEN Pass(r) ELSE Answer(r, "SERVICE_UNAVAILABLE")

MonthlyQuota(r) ==
    /\ At(r, "MonthlyQuota")
    /\ IF Counters THEN Pass(r) \/ Answer(r, "PLAN_QUOTA_EXCEEDED") ELSE Answer(r, "SERVICE_UNAVAILABLE")

\* The first half of readiness.
CheckRedis(r) ==
    /\ At(r, "CheckRedis")
    /\ IF Reach("redis") THEN Pass(r) ELSE Answer(r, "SERVICE_UNAVAILABLE")

-----------------------------------------------------------------------------
(* Handlers: the codes each may answer with in the present state *)

Needing(ready, codes) == IF ready THEN codes ELSE {"SERVICE_UNAVAILABLE"}

\* The pool is handed over as an interface, so it is never nil: without a database the
\* check panics, and Recovery answers.
Ready == IF On("database") THEN Needing(Reach("database"), {"OK"}) ELSE {"INTERNAL_ERROR"}

RegisterInstallations(r) ==
    {"INVALID_REQUEST"} \cup
    CASE ~On("database") -> {"OK"}
      [] On("database") /\ ~Reach("database") -> {"SERVICE_UNAVAILABLE"}
      [] OTHER -> IF Shows(r, "revoked") THEN {"INSTALLATION_REVOKED"} ELSE {"OK"}

MagicRequest == {"INVALID_REQUEST"} \cup Needing(Reach("database") /\ Reach("mail"), {"OK"})

\* Any failure of the two is a failed authentication, the database's included.
MagicVerify(r) ==
    {"INVALID_REQUEST"} \cup IF Reach("database") /\ Shows(r, "code") THEN {"OK"} ELSE {"INVALID_CREDENTIALS"}

Refresh(r) ==
    {"INVALID_REQUEST"} \cup IF Reach("database") /\ Shows(r, "session") THEN {"OK"} ELSE {"UNAUTHORIZED"}

Logout == {"INVALID_REQUEST", "OK"}

Account == Needing(Reach("database"), {"OK"})

AccountEntitlements == Needing(Reach("database") /\ Counters, {"OK"})

Installations == Needing(Reach("database"), {"OK"})

\* Any failure but a revoked row is a conflict, as is an installation of somebody else;
\* only the first link needs the counters.
Link(r) ==
    CASE ~Reach("database") -> {"LINK_FAILED"}
      [] Reach("database") /\ Shows(r, "revoked") -> {"INSTALLATION_REVOKED"}
      [] OTHER -> {"LINK_FAILED", "OK"}

Revoke == {"NOT_FOUND"} \cup IF Reach("database") THEN {"OK"} ELSE {}

Overview == Needing(Reach("database"), {"OK"})

\* The usage of every user is read from the counters.
Users == Needing(Reach("database") /\ Counters, {"OK"})

AdminInstallations == Needing(Reach("database"), {"OK"})

Invites == Needing(Reach("database"), {"OK"})

AdminQuality == Needing(Reach("database"), {"OK"})

CreateInvite == {"INVALID_REQUEST"} \cup Needing(Reach("database"), {"OK"})

SetPlan == {"INVALID_REQUEST", "NOT_FOUND"} \cup IF Reach("database") THEN {"OK"} ELSE {}

RevokeInstallation == {"NOT_FOUND"} \cup IF Reach("database") THEN {"OK"} ELSE {}

\* An event that is not sampled is accepted without the database.
RecordQuality == {"INVALID_REQUEST", "OK"} \cup Needing(Reach("database"), {"OK"})

Complete == {"OK", "INVALID_REQUEST", "INTERNAL_ERROR", "PROVIDER_TIMEOUT",
             "PROVIDER_RATE_LIMITED", "PROVIDER_UNAVAILABLE"}

Outcomes(r) ==
    LET route == req[r].route IN
    IF ~Mounted(route) THEN {"NOT_FOUND"} ELSE
    CASE route \in {"root", "health", "requirement", "admin.page"} -> {"OK"}
      [] route = "ready" -> Ready
      [] route = "register" -> RegisterInstallations(r)
      [] route = "auth.request" -> MagicRequest
      [] route = "auth.verify" -> MagicVerify(r)
      [] route = "auth.refresh" -> Refresh(r)
      [] route = "auth.logout" -> Logout
      [] route = "account" -> Account
      [] route = "entitlements" -> AccountEntitlements
      [] route = "installations" -> Installations
      [] route = "link" -> Link(r)
      [] route = "revoke" -> Revoke
      [] route = "admin.overview" -> Overview
      [] route = "admin.users" -> Users
      [] route = "admin.installations" -> AdminInstallations
      [] route = "admin.invites" -> Invites
      [] route = "admin.quality" -> AdminQuality
      [] route = "admin.invite" -> CreateInvite
      [] route = "admin.plan" -> SetPlan
      [] route = "admin.revoke" -> RevokeInstallation
      [] route = "quality" -> RecordQuality
      [] route = "completions" -> Complete
      [] route = "stream" -> {"INVALID_REQUEST", "FEATURE_NOT_AVAILABLE"}

InHandler(r) == req[r].at = "running" /\ req[r].left = <<>>

Handle(r) ==
    /\ InHandler(r)
    /\ \E code \in Outcomes(r) : Answer(r, code)

\* The headers of a stream leave the handler.
BeginStream(r) ==
    /\ InHandler(r) /\ req[r].route = "stream" /\ Mounted("stream")
    /\ Set(r, [req[r] EXCEPT !.at = "streaming"])

\* The writer a handler is given is the one Logging wrapped; it passes on no Flush.
Flushes == FALSE

\* An event is written: with no flush it waits until the buffer is full or the
\* handler returns.
WriteEvent(r) ==
    /\ req[r].at = "streaming" /\ req[r].buffered < MaxEvents
    /\ \/ Flushes /\ Set(r, [req[r] EXCEPT !.buffered = 0])
       \/ ~Flushes /\ Set(r, [req[r] EXCEPT !.buffered = @ + 1])

Spill(r) ==
    /\ req[r].at = "streaming" /\ req[r].buffered > 0
    /\ Set(r, [req[r] EXCEPT !.buffered = 0])

\* The stream ends with "done" or with "error"; either way it was begun with 200.
EndStream(r) ==
    /\ req[r].at = "streaming"
    /\ Set(r, [req[r] EXCEPT !.at = "done", !.code = "OK", !.buffered = 0])

\* Another request revokes the installation while this one is under way.
RevokedMeanwhile(r) ==
    /\ req[r].at = "running" /\ Shows(r, "installation") /\ Reach("database")
    /\ Set(r, [req[r] EXCEPT !.shown = @ \cup {"revoked"}])

\* The client goes away, or has read its answer.
Leave(r) ==
    /\ req[r].at \in {"running", "streaming", "done"}
    /\ Set(r, Idle)

-----------------------------------------------------------------------------
(* Failures, and the shutdown *)

Fail(dep) ==
    /\ dep \in MayFail \cap up
    /\ up' = up \ {dep}
    /\ req' = [r \in Slots |-> IF req[r].at \in {"running", "streaming"}
                               THEN [req[r] EXCEPT !.saw = @ \cup {dep}] ELSE req[r]]
    /\ UNCHANGED <<settings, phase, open>>

Recover(dep) ==
    /\ dep \in Deps \ up
    /\ up' = up \cup {dep}
    /\ req' = [r \in Slots |-> IF req[r].at \in {"running", "streaming"}
                               THEN [req[r] EXCEPT !.down = @ \ {dep}] ELSE req[r]]
    /\ UNCHANGED <<settings, phase, open>>

\* SIGINT or SIGTERM: no request is accepted from here on.
Signal ==
    /\ phase = "serving"
    /\ phase' = "draining"
    /\ UNCHANGED <<settings, open, up, req>>

InFlight == {r \in Slots : req[r].at \in {"running", "streaming"}}

\* mutant: the stores are closed without waiting
Drained_Always == TRUE

Drained == InFlight = {}

\* The stores are closed after the last request has been answered ...
Shutdown ==
    /\ phase = "draining" /\ Drained
    /\ phase' = "stopped" /\ open' = {}
    /\ UNCHANGED <<settings, up, req>>

\* ... or after ten seconds, under the requests that are still running.
Deadline ==
    /\ phase = "draining" /\ InFlight # {}
    /\ phase' = "late" /\ open' = {}
    /\ req' = [r \in Slots |-> IF r \in InFlight THEN [req[r] EXCEPT !.saw = @ \cup {"deadline"}] ELSE req[r]]
    /\ UNCHANGED <<settings, up>>

\* The process ends, and its requests with it.
Exit ==
    /\ phase = "late"
    /\ phase' = "stopped"
    /\ req' = [r \in Slots |-> IF r \in InFlight THEN Idle ELSE req[r]]
    /\ UNCHANGED <<settings, open, up>>

-----------------------------------------------------------------------------

Stage(r) ==
    \/ PublicRateLimit(r) \/ Auth(r) \/ UserAuth(r) \/ AdminAuth(r) \/ InstallationToken(r)
    \/ RateLimit(r) \/ Quota(r) \/ InstallationStatus(r) \/ RequireLinkedAccount(r)
    \/ Entitlements(r) \/ MonthlyQuota(r) \/ CheckRedis(r)

Next ==
    \/ OpenRedis \/ OpenDatabase \/ Cleanup
    \/ \E r \in Slots, route \in Routes, client \in Clients : Arrive(r, route, client)
    \/ \E r \in Slots : Stage(r) \/ Handle(r) \/ BeginStream(r) \/ WriteEvent(r) \/ Spill(r)
                        \/ EndStream(r) \/ RevokedMeanwhile(r) \/ Leave(r)
    \/ \E dep \in Deps : Fail(dep) \/ Recover(dep)
    \/ Signal \/ Shutdown \/ Deadline \/ Exit

Spec == Init /\ [][Next]_vars

-----------------------------------------------------------------------------
(* Properties *)

\* A process that could not start, or has stopped, holds no connection (server.New,
\* Server.Shutdown).
NothingIsLeftOpen == phase \in {"failed", "stopped", "late"} => open = {}

\* The tokens a route asks for.
Demanded(route) ==
    CASE route \in UserRoutes -> IF route = "link" THEN {"user", "installation"} ELSE {"user"}
      [] route \in AdminRoutes -> {"admin"}
      [] route = "quality" \/ (route \in Metered /\ On("auth")) -> {"installation"}
      [] OTHER -> {}

\* What a client must show not to be turned away as somebody unknown.
Credentials(route) ==
    CASE route = "auth.verify" -> {"code"}
      [] route = "auth.refresh" -> {"session"}
      [] OTHER -> Demanded(route)

\* The database failed the request, or was closed under it.
DatabaseLost(q) == q.saw \cap {"database", "deadline"} # {}

\* However the chains are put together, no handler behind a token runs without it, and
\* nobody with the right credentials is told to authenticate, nor an installation in
\* good standing that it is revoked (newRouter, the middlewares, AccountHandler), with
\* three exceptions, which need an outage of the database while the request ran: there
\* verify, refresh and link answer 401, although docs/accounts-and-database.md:17 has the
\* API fail "with 503 SERVICE_UNAVAILABLE".
TokensDecide ==
    \A r \in DOMAIN req :
        LET q == req[r] IN
        /\ (InHandler(r) \/ q.at = "streaming") /\ Mounted(q.route) => Demanded(q.route) \subseteq q.shown
        /\ q.code \in {"UNAUTHORIZED", "INVALID_CREDENTIALS"} =>
              \/ ~(Credentials(q.route) \subseteq q.shown)
              \/ q.route \in {"auth.verify", "auth.refresh"} /\ DatabaseLost(q)
        /\ q.code = "INSTALLATION_REVOKED" =>
              "revoked" \in q.shown \/ (q.route = "link" /\ DatabaseLost(q))

\* What must answer before a completion may reach the provider.
Needed ==
    IF ~On("auth") THEN {}
    ELSE (settings \cap {"database"})
         \cup IF settings \cap {"limit", "quota", "database"} # {} THEN settings \cap {"redis"} ELSE {}

\* No completion passes while a store that its admission needs has been down since the
\* request came (RateLimit, Quota, InstallationStatus, Entitlements, MonthlyQuota), and
\* nobody is told "ready" while a configured store has been (server.readiness).
FailsClosed ==
    \A r \in DOMAIN req :
        /\ InHandler(r) /\ req[r].route \in Metered /\ Mounted(req[r].route) =>
             req[r].down \cap Needed = {}
        /\ req[r].route = "ready" /\ req[r].code = "OK" => req[r].down \cap settings = {}

\* A request is refused for an unavailable service only if a dependency was down at some
\* time while it ran, or the deadline of the shutdown passed: the stores outlive the
\* requests (Server.Shutdown).
OutagesAreReal ==
    \A r \in DOMAIN req : req[r].code = "SERVICE_UNAVAILABLE" => req[r].saw # {}

\* docs/streaming-protocol.md: chunk events are for "low-latency consumers": an event is
\* on its way to the client while the next one is awaited.
EventsAreOnTheirWay == \A r \in DOMAIN req : req[r].at = "streaming" => req[r].buffered = 0
=============================================================================
