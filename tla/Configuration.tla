---------------------------- MODULE Configuration ----------------------------
(***************************************************************************)
(* What the API server starts with (internal/config/config.go and the      *)
(* first half of cmd/server/main.go): the environment is read section by   *)
(* section, the first section that does not hold together refuses the      *)
(* start, and the providers are built from what was accepted.              *)
(*                                                                         *)
(* An action reads one section: its settings are arbitrary, because every  *)
(* key is read in one section only.  Where nothing but the range of a      *)
(* setting matters, fine says that all of the section's settings of that   *)
(* sort are in range.                                                      *)
(***************************************************************************)
EXTENDS Integers

CONSTANTS
    Unset, Garbage,   \* a setting that is absent, one that is not a number
    Numbers,          \* numbers found in the environment
    Environments      \* values found in APP_ENV

Written == Numbers \cup {Unset, Garbage}

NumbersAssumption == Numbers \subseteq Int /\ Unset \notin Numbers /\ Garbage \notin Numbers

VARIABLES
    at,       \* the section that is read next
    config    \* what was accepted so far

vars == <<at, config>>

Nobody == [provider |-> "none", mode |-> "chat", api |-> "chat", scheme |-> "none", timeout |-> 0]

Init ==
    /\ at = "redis"
    /\ config \in [env : Environments, redis : {FALSE}, database : {FALSE}, required : {FALSE},
                   mail : {FALSE}, signed : {FALSE}, auth : {FALSE}, admin : {FALSE}, quality : {FALSE},
                   perMinute : {0}, burst : {0}, primary : {Nobody}, fallback : {Nobody},
                   attempts : {0}]

-----------------------------------------------------------------------------

Allowed(raw, low, high) == raw = Unset \/ (raw \in Numbers /\ raw \in low..high)

OrDefault(raw, default) == IF raw = Unset THEN default ELSE raw

\* A section is accepted with what it sets, or the process does not start.
Section(ok, next, accepted) ==
    IF ok THEN at' = next /\ config' = accepted ELSE at' = "refused" /\ UNCHANGED config

ParseRedis ==
    /\ at = "redis"
    /\ \E enabled, address, fine \in BOOLEAN :
           Section((enabled => address) /\ fine, "database", [config EXCEPT !.redis = enabled])

\* Without a database none of its other settings is looked at.
ParseDatabase ==
    /\ at = "database"
    /\ \E enabled, required, url, mail, signed, fine \in BOOLEAN,
          mode \in {"open", "invite", "disabled", "other"}, open, idle \in Written :
           Section(
               IF ~enabled THEN ~required
               ELSE /\ url /\ signed /\ fine
                    /\ config.env = "production" => mail
                    /\ mode # "other"
                    /\ Allowed(open, 1, 100) /\ Allowed(idle, 0, 100)
                    /\ OrDefault(idle, 5) <= OrDefault(open, 10),
               "auth",
               [config EXCEPT !.database = enabled, !.required = required,
                              !.mail = enabled /\ mail, !.signed = enabled /\ signed])

\* Production is authenticated, and authentication has a secret of 32 bytes.
AuthAllowed(enabled, secret) == (config.env = "production" => enabled) /\ (enabled => secret)

\* Port, host, log level, the version and the life of installation tokens are fine or not.
ParseBasics ==
    /\ at = "auth"
    /\ \E enabled, secret, fine \in BOOLEAN :
           Section(
               /\ fine /\ config.env \in {"development", "test", "production"}
               /\ AuthAllowed(enabled, secret),
               "admin", [config EXCEPT !.auth = enabled])

ParseAdmin ==
    /\ at = "admin"
    /\ \E enabled, token \in BOOLEAN :
           Section(enabled => config.database /\ token, "quality", [config EXCEPT !.admin = enabled])

ParseQuality ==
    /\ at = "quality"
    /\ \E enabled, fine \in BOOLEAN :
           Section(fine /\ (enabled => config.database /\ config.auth), "admission",
                   [config EXCEPT !.quality = enabled])

MaxPerMinute == 10000
MaxBurst == 1000

ParseAdmission ==
    /\ at = "admission"
    /\ \E perMinute, burst \in Written, daily \in BOOLEAN :
           Section(
               Allowed(perMinute, 1, MaxPerMinute) /\ Allowed(burst, 1, MaxBurst) /\ daily, "ai",
               [config EXCEPT !.perMinute = OrDefault(perMinute, 60), !.burst = OrDefault(burst, 10)])

\* A target: which provider, prompt and interface; whether what they need is there (prompt
\* tokens, key, model and version); the scheme of its address.
Targets ==
    [provider : {"mock", "openai-compatible", "anthropic", "other"}, mode : {"chat", "fim"},
     api : {"chat", "completion"}, complete : BOOLEAN, scheme : {"http", "https", "other"}]

\* mutant: any scheme will do
SecureURL_Any(scheme) == scheme \in {"http", "https"}

SecureURL(scheme) == scheme \in {"http", "https"} /\ (config.env = "production" => scheme = "https")

\* What parseAIConfig asks of a target.  A provider nobody knows is not refused here.
Sound(t) ==
    /\ t.mode = "fim" => t.complete
    /\ t.api = "completion" => t.mode = "fim"
    /\ t.provider = "anthropic" => t.api = "chat"
    /\ t.provider \in {"openai-compatible", "anthropic"} => t.complete /\ SecureURL(t.scheme)

Kept(t, timeout) ==
    [provider |-> t.provider, mode |-> t.mode, api |-> t.api, timeout |-> timeout,
     scheme |-> IF t.provider \in {"openai-compatible", "anthropic"} THEN t.scheme ELSE "none"]

\* AI_TIMEOUT_MS is in seconds here.
ParseAI ==
    /\ at = "ai"
    /\ \E t \in Targets, timeout \in Written, fine \in BOOLEAN :
           Section(Sound(t) /\ Allowed(timeout, 1, 60) /\ fine, "router",
                   [config EXCEPT !.primary = Kept(t, OrDefault(timeout, 10))])

FallbackTimeout == config.primary.timeout

ParseRouter ==
    /\ at = "router"
    /\ \E attempts \in Written, fine \in BOOLEAN :
           Section(Allowed(attempts, 1, 5) /\ fine, "fallback",
                   [config EXCEPT !.attempts = OrDefault(attempts, 2)])

NoFallback == at = "fallback" /\ at' = "providers" /\ UNCHANGED config

\* The same checks through other keys; the keys of its numbers are answered with nothing.
ParseFallback ==
    /\ at = "fallback"
    /\ \E named \in BOOLEAN, t \in Targets :
           Section(named /\ Sound(t), "providers",
                   [config EXCEPT !.fallback = Kept(t, FallbackTimeout)])

\* main: both providers are built; here a provider nobody knows ends the start.
NewProviders ==
    /\ at = "providers"
    /\ Section(config.primary.provider # "other" /\ config.fallback.provider # "other",
               "started", config)

Next ==
    \/ ParseRedis \/ ParseDatabase \/ ParseBasics \/ ParseAdmin \/ ParseQuality \/ ParseAdmission
    \/ ParseAI \/ ParseRouter \/ NoFallback \/ ParseFallback \/ NewProviders

Spec == Init /\ [][Next]_vars

-----------------------------------------------------------------------------
(* Properties *)

Started == at = "started"

Upstreams == {config.primary, config.fallback}

\* A process that starts in production asks for installation tokens, can mail its sign-in
\* codes if it keeps accounts, and sends no source text to any provider in the clear, be it
\* the primary or the fallback (config.parse with the closure of parseRouterConfig).
ProductionIsProtected ==
    Started /\ config.env = "production" =>
        /\ config.auth /\ (config.database => config.mail)
        /\ \A t \in Upstreams : t.scheme \in {"https", "none"}

\* Whatever the sections accept one by one fits together: everything that needs the database
\* has it, the bucket can hold a token and is refilled, the router may ask someone, no target
\* is asked in a way it has no code for, and a required account can be asked for in production.
\* ApiServer's SettingsAssumption, what TokenBucket's UnitAssumption says of rate and burst, and
\* what ProviderRouter's RouterAssumption says of attempts rest on it.  Nothing relates the burst
\* to the rate, and TokenBucket asks for no such relation.
SectionsFitTogether ==
    Started =>
        /\ (config.quality \/ config.admin \/ config.required) => config.database /\ config.signed
        /\ config.quality => config.auth
        /\ config.env = "production" /\ config.required => config.auth
        /\ config.perMinute >= 1 /\ config.burst >= 1 /\ config.attempts >= 1
        /\ \A t \in Upstreams : t.api = "completion" => t.mode = "fim" /\ t.provider # "anthropic"

\* The fallback answers within the time-out the operator gave the primary.
FallbackKeepsTimeout ==
    Started /\ config.fallback # Nobody => config.fallback.timeout = config.primary.timeout

\* What starts is protected in production, has sections that fit together, and gives the
\* fallback the time-out of the primary provider.
StartsSound == ProductionIsProtected /\ SectionsFitTogether /\ FallbackKeepsTimeout
=============================================================================
