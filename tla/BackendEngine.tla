---------------------------- MODULE BackendEngine ----------------------------
(***************************************************************************)
(* One window's backend engine: src/completion/backendCompletionEngine.ts  *)
(* over src/api/deinsCompleteClient.ts and                                 *)
(* src/identity/installationService.ts, with the authentication wiring of  *)
(* src/extension.ts, against the installation tokens of the API            *)
(* (api/internal/auth/token.go, http/middleware/auth.go).                  *)
(*                                                                         *)
(* Every step ends at an await.  Completions of the window overlap; they   *)
(* share one registration and one renewal of the token, and one window of  *)
(* unavailability.  A token is the version of the secret it was signed     *)
(* with.  Time passes in ticks, counted down.                              *)
(***************************************************************************)
EXTENDS Naturals, FiniteSets

CONSTANTS
    Calls,          \* completions, each runs once
    Streaming,      \* the streaming setting
    MaxEpoch,       \* bound: versions of the server's signing secret
    MaxWait,        \* bound: the longest Retry-After, in ticks
    ShortWait,      \* the pause after a 503
    Failures        \* the server and the network fail, calls are aborted

ASSUME WaitAssumption == MaxWait \in Nat /\ ShortWait \in 1..MaxWait
ASSUME EpochAssumption == MaxEpoch \in Nat \ {0}
ASSUME SettingAssumption == Streaming \in BOOLEAN /\ Failures \in BOOLEAN

VARIABLES
    epoch,          \* the server's secret; a token is valid while it equals this
    revoked,        \* the installation's row
    token,          \* SecretStorage: the installation token, 0 if there is none
    reg,            \* the pending registration: step, whose signal it has, token received
    renew,          \* the pending authenticationRefresh: its step
    call,           \* completions
    wait,           \* ticks until unavailableUntil
    calm            \* history: a batch of calls since anything outside went wrong

vars == <<epoch, revoked, token, reg, renew, call, wait, calm>>

Nobody == "nobody"      \* the signal of the renewal, which nobody aborts

Init ==
    /\ epoch = 1 /\ revoked = FALSE
    /\ token \in {0, 1}
    /\ reg = [at |-> "idle", owner |-> Nobody, got |-> 0]
    /\ renew = "idle"
    /\ call = [k \in Calls |-> [at |-> "new", stream |-> FALSE, cred |-> 0, retried |-> FALSE,
                                aborted |-> FALSE, result |-> "none"]]
    /\ wait = 0
    /\ calm = {}

InFlight(k) == call[k].at \notin {"new", "done"}

Quiet == reg.at = "idle" /\ renew = "idle" /\ \A k \in Calls : ~InFlight(k)

Answer(c, result) == [c EXCEPT !.at = "done", !.result = result]

-----------------------------------------------------------------------------
(* Errors of a call (the catch of complete) *)

\* mutant: a 401 after the retry is retried again
Renews_Always(c) == ~c.aborted

\* A first 401 renews the token, unless the call has been aborted.
Renews(c) == ~c.aborted /\ ~c.retried

\* UnauthorizedError: wait for the shared renewal, or give up.
Unauthorized(c) == IF Renews(c) THEN [c EXCEPT !.at = "renewing"] ELSE Answer(c, "empty")

\* What complete makes of an error; nothing of it reaches the editor as an error.
Failed(c, error) ==
    IF error = "unauthorized" THEN Unauthorized(c)
    ELSE Answer(c, CASE c.aborted \/ c.retried \/ error \in {"cancelled", "account"} -> "empty"
                     [] ~c.aborted /\ ~c.retried /\ error = "limited" -> "quota"
                     [] OTHER -> "offline")

\* refreshAuthentication begins when the first call asks for it.
RenewFor(newCall) ==
    renew' = IF renew = "idle" /\ \E k \in Calls : newCall[k].at = "renewing" THEN "reset" ELSE renew

Update(k, c) ==
    /\ call' = [call EXCEPT ![k] = c]
    /\ RenewFor(call')

-----------------------------------------------------------------------------
(* Registration (InstallationService) *)

\* ensureRegistered: nothing to do with a token; otherwise join the pending
\* registration or begin one under the caller's signal.
BeginRegistration(owner) ==
    reg' = IF reg.at = "idle" THEN [reg EXCEPT !.at = "asked", !.owner = owner] ELSE reg

Complete(k) ==
    /\ call[k].at = "new"
    /\ calm' = IF calm # {} \/ (Quiet /\ wait = 0) THEN calm \cup {k} ELSE {}
    /\ IF token # 0
       THEN Update(k, [call[k] EXCEPT !.at = "send", !.stream = Streaming]) /\ UNCHANGED reg
       ELSE Update(k, [call[k] EXCEPT !.at = "registering"]) /\ BeginRegistration(k)
    /\ UNCHANGED <<epoch, revoked, token, wait>>

\* A failed registration rejects the promise for everyone who shares it.
RejectRegistration(error) ==
    /\ reg' = [at |-> "idle", owner |-> Nobody, got |-> 0]
    /\ call' = [k \in Calls |->
                 CASE call[k].at = "registering" -> Failed(call[k], error)
                   [] call[k].at = "renewing" /\ renew = "registering" -> Answer(call[k], "empty")
                   [] OTHER -> call[k]]
    /\ renew' = IF \E k \in Calls : call'[k].at = "renewing"
                THEN IF renew \in {"idle", "registering"} THEN "reset" ELSE renew
                ELSE IF renew = "registering" THEN "idle" ELSE renew

\* POST /v1/installations/register: a token signed with the secret of the moment, in
\* a body that is read afterwards, or 401 for a revoked installation.
Registered ==
    /\ reg.at = "asked"
    /\ IF revoked THEN RejectRegistration("unauthorized")
       ELSE reg' = [reg EXCEPT !.at = "reading", !.got = epoch] /\ UNCHANGED <<call, renew>>
    /\ UNCHANGED <<epoch, revoked, token, wait, calm>>

\* The body: no timer and no signal bounds it any more.
RegistrationRead ==
    /\ reg.at = "reading"
    /\ reg' = [reg EXCEPT !.at = "storing"]
    /\ UNCHANGED <<epoch, revoked, token, renew, call, wait, calm>>

StoreToken ==
    /\ reg.at = "storing"
    /\ token' = reg.got
    /\ reg' = [at |-> "idle", owner |-> Nobody, got |-> 0]
    /\ call' = [k \in Calls |-> IF call[k].at = "registering"
                                THEN [call[k] EXCEPT !.at = "send", !.stream = Streaming]
                                ELSE call[k]]
    /\ renew' = IF renew = "registering" THEN "linking" ELSE renew
    /\ UNCHANGED <<epoch, revoked, wait, calm>>

-----------------------------------------------------------------------------
(* The shared renewal (refreshAuthentication) *)

\* mutant: the refused token is kept
ResetToken_Kept == token

\* InstallationService.reset
ResetToken == 0

RenewReset ==
    /\ renew = "reset"
    /\ token' = ResetToken /\ renew' = "ensure"
    /\ UNCHANGED <<epoch, revoked, reg, call, wait, calm>>

RenewEnsure ==
    /\ renew = "ensure"
    /\ IF token # 0 THEN renew' = "linking" /\ UNCHANGED reg
       ELSE renew' = "registering" /\ BeginRegistration(Nobody)
    /\ UNCHANGED <<epoch, revoked, token, call, wait, calm>>

\* mutant: the calls that joined are not released
Released_First(k) == call[k].at = "renewing" /\ \A j \in Calls : call[j].at # "send"

Released(k) == call[k].at = "renewing"

\* The requests of the link of a signed-in account have bodies of their own to read.
LinkAnswered ==
    /\ renew = "linking"
    /\ renew' = "reading"
    /\ UNCHANGED <<epoch, revoked, token, reg, call, wait, calm>>

\* Nobody is signed in, or the link has succeeded or failed, which is the same; then
\* every waiting call is released, to retry unless it has been aborted meanwhile.
RenewDone ==
    /\ renew \in {"linking", "reading"}
    /\ renew' = "idle"
    /\ call' = [k \in Calls |->
                 IF ~Released(k) THEN call[k]
                 ELSE IF call[k].aborted THEN Answer(call[k], "empty")
                 ELSE [call[k] EXCEPT !.at = "send", !.stream = Streaming, !.retried = TRUE]]
    /\ UNCHANGED <<epoch, revoked, token, reg, wait, calm>>

-----------------------------------------------------------------------------
(* Requests (completeRequest, DeinsCompleteClient.send) *)

\* Within the unavailability window the client fails at once; otherwise the token is
\* read and the request goes out.
Send(k) ==
    /\ call[k].at = "send"
    /\ Update(k, CASE wait > 0 -> Failed(call[k], "unavailable")
                   [] wait = 0 /\ call[k].aborted -> Failed(call[k], "cancelled")
                   [] OTHER -> [call[k] EXCEPT !.at = "sent", !.cred = token])
    /\ UNCHANGED <<epoch, revoked, token, reg, wait, calm>>

Valid(k) == call[k].cred = epoch /\ ~revoked

\* 200: the headers have come; the body is read in a step of its own.
Accepted(k) ==
    /\ call[k].at = "sent" /\ Valid(k)
    /\ Update(k, [call[k] EXCEPT !.at = "reading"])
    /\ UNCHANGED <<epoch, revoked, token, reg, wait, calm>>

\* 401 from the signature, the version or the row of the installation.
Rejected(k) ==
    /\ call[k].at = "sent" /\ ~Valid(k)
    /\ Update(k, Unauthorized(call[k]))
    /\ UNCHANGED <<epoch, revoked, token, reg, wait, calm>>

\* A stream endpoint that is switched off answers 404: the standard one is asked.
NotFound(k) ==
    /\ call[k].at = "sent" /\ call[k].stream /\ Valid(k)
    /\ Update(k, [call[k] EXCEPT !.at = "send", !.stream = FALSE])
    /\ UNCHANGED <<epoch, revoked, token, reg, wait, calm>>

\* 429 with a Retry-After, 503, and the errors that pause nothing.
TurnedAway(k) ==
    /\ Failures /\ call[k].at = "sent"
    /\ \/ \E r \in 1..MaxWait :
             /\ wait' = r
             /\ Update(k, Failed(call[k], "limited"))
       \/ /\ wait' = ShortWait
          /\ Update(k, Failed(call[k], "unavailable"))
       \/ \E error \in {"account", "timeout", "unavailable"} :
             Update(k, Failed(call[k], error)) /\ UNCHANGED wait
    /\ calm' = {}
    /\ UNCHANGED <<epoch, revoked, token, reg>>

\* The stream's done event, or the whole body of a standard answer.
Read(k) ==
    /\ call[k].at = "reading"
    /\ Update(k, Answer(call[k], "answer"))
    /\ UNCHANGED <<epoch, revoked, token, reg, wait, calm>>

\* The stream's error event, its end without a done event, or a body that breaks.
ReadFails(k) ==
    /\ Failures /\ call[k].at = "reading"
    /\ Update(k, Failed(call[k], "unavailable"))
    /\ calm' = {}
    /\ UNCHANGED <<epoch, revoked, token, reg, wait>>

-----------------------------------------------------------------------------
(* Environment *)

\* The caller's signal: it ends a request before its headers, and a registration
\* begun under it; afterwards nobody listens to it.
Abort(k) ==
    /\ Failures /\ InFlight(k) /\ ~call[k].aborted
    /\ LET c == [call[k] EXCEPT !.aborted = TRUE] IN
       IF reg.owner = k /\ reg.at = "asked"
       THEN RejectRegistration("cancelled")
       ELSE /\ Update(k, IF call[k].at = "sent" THEN Answer(c, "empty") ELSE c)
            /\ UNCHANGED reg
    /\ calm' = {}
    /\ UNCHANGED <<epoch, revoked, token, wait>>

\* The timer, the network or the server, before the headers or in the body.
RegistrationFails ==
    /\ Failures /\ reg.at \in {"asked", "reading"}
    /\ RejectRegistration("timeout")
    /\ calm' = {}
    /\ UNCHANGED <<epoch, revoked, token, wait>>

\* The operator rotates the secret or its version; every token is void.
RotateSecret ==
    /\ epoch < MaxEpoch
    /\ epoch' = epoch + 1 /\ calm' = {}
    /\ UNCHANGED <<revoked, token, reg, renew, call, wait>>

Revoke ==
    /\ Failures /\ ~revoked
    /\ revoked' = TRUE /\ calm' = {}
    /\ UNCHANGED <<epoch, token, reg, renew, call, wait>>

\* The reset command, or the renewal of another window, deletes the shared secret.
ResetElsewhere ==
    /\ Failures /\ token # 0
    /\ token' = 0 /\ calm' = {}
    /\ UNCHANGED <<epoch, revoked, reg, renew, call, wait>>

Tick ==
    /\ wait > 0
    /\ wait' = wait - 1
    /\ UNCHANGED <<epoch, revoked, token, reg, renew, call, calm>>

\* What ends by itself: the client's own steps, and requests up to their headers.
Progress ==
    \/ Registered \/ StoreToken \/ RenewReset \/ RenewEnsure
    \/ renew = "linking" /\ (LinkAnswered \/ RenewDone)

CallStep(k) == Send(k) \/ Accepted(k) \/ Rejected(k) \/ NotFound(k)

Next ==
    \/ Progress \/ RegistrationRead \/ RenewDone
    \/ \E k \in Calls :
         Complete(k) \/ CallStep(k) \/ Read(k) \/ TurnedAway(k) \/ ReadFails(k) \/ Abort(k)
    \/ RegistrationFails \/ RotateSecret \/ Revoke \/ ResetElsewhere \/ Tick

Spec == Init /\ [][Next]_vars

\* A request ends within its time-out: its headers, or the timer.  send() disposes
\* the timer and the signal with the headers, so nothing is assumed of reading a body,
\* of a completion, of a registration or of a link.
Fairness ==
    /\ WF_vars(Progress)
    /\ \A k \in Calls : WF_vars(CallStep(k))

FairSpec == Spec /\ Fairness

-----------------------------------------------------------------------------
(* Properties *)

\* However late refusals, renewals and registrations interleave, once everything is
\* still and a batch of calls has run since the last rotation, reset or failure, the
\* token stored is one the server accepts, and one call of the batch was answered: a
\* 401 is repaired by the completions that meet it, although a late one may take the
\* new token from another.
Recovers ==
    Quiet /\ calm # {} /\ ~revoked =>
        /\ token = epoch
        /\ \E k \in calm : call[k].result = "answer"

\* A waiter never waits for something nobody is doing: calls that wait for the
\* registration or the renewal have one in progress.
NoLostWaiter ==
    \A k \in Calls :
        /\ call[k].at = "registering" => reg.at # "idle"
        /\ call[k].at = "renewing" => renew # "idle"
        /\ renew = "registering" => reg.at # "idle"

\* A completion waits for a body, its own or that of the registration or the link it
\* waits for.
Stalled(k) ==
    \/ call[k].at = "reading"
    \/ call[k].at = "registering" /\ reg.at = "reading"
    \/ call[k].at = "renewing" /\ renew = "reading"
    \/ call[k].at = "renewing" /\ renew = "registering" /\ reg.at = "reading"

\* Every completion ends, unless a body stalls: its own, or, since the registration and
\* the renewal are shared, one that another call began to read.  No pause, renewal or
\* order of refusals keeps it waiting otherwise.
EveryCallEnds == \A k \in Calls : InFlight(k) ~> call[k].at = "done" \/ Stalled(k)
=============================================================================
