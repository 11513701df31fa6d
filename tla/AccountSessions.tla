--------------------------- MODULE AccountSessions ---------------------------
(***************************************************************************)
(* Sign-in and sessions on the server: magic codes, invites, registration, *)
(* refresh tokens and logout (api/internal/account/service.go over         *)
(* repository.go, behind http/handlers/account.go).                        *)
(*                                                                         *)
(* A handler is a task.  It performs one SQL statement or transaction per  *)
(* step; steps of other handlers fall between, and with MayFail a handler  *)
(* may stop after any of them, its reply lost.                             *)
(***************************************************************************)
EXTENDS Naturals, FiniteSets

CONSTANTS
    Emails, Invites, Codes, Tokens,
    Tasks,          \* handler invocations, each runs once
    Registration,   \* REGISTRATION_MODE
    InviteEmail,    \* the address an invite is made out to, or None
    MayFail,
    None, Ended

ASSUME ModeAssumption == Registration \in {"open", "invite", "disabled"}
ASSUME InviteAssumption == InviteEmail \in [Invites -> Emails \cup {None}]
ASSUME NoneAssumption == None \notin Emails \cup Invites \cup Codes \cup Tokens
ASSUME EndedAssumption == Ended \notin Tokens \cup {None}

VARIABLES
    registered,     \* users.email_normalized
    invite,         \* used_at and expires_at of invites
    code,           \* magic_codes: address and state
    session,        \* user_sessions by token: state, user, the code that opened the sign-in
    task,           \* handlers in flight
    mailed,         \* codes delivered by e-mail
    received,       \* tokens whose reply reached a client
    admittedBy      \* history: the addresses each invite, or none, has registered

vars == <<registered, invite, code, session, task, mailed, received, admittedBy>>

NewTask == [at |-> "new", email |-> None, invite |-> None, code |-> None, token |-> None]

Init ==
    /\ registered \in SUBSET Emails
    /\ invite = [i \in Invites |-> "none"]
    /\ code = [c \in Codes |-> [state |-> "none", email |-> None]]
    /\ session = [t \in Tokens |-> [state |-> "none", user |-> None, code |-> None]]
    /\ task = [k \in Tasks |-> NewTask]
    /\ mailed = {} /\ received = {}
    /\ admittedBy = [i \in Invites \cup {None} |-> {}]

GoTo(k, step) == task' = [task EXCEPT ![k].at = step]

-----------------------------------------------------------------------------
(* Administration and time *)

\* AdminHandler.CreateInvite and the command-line tool.
CreateInvite(i) ==
    /\ invite[i] = "none"
    /\ invite' = [invite EXCEPT ![i] = "open"]
    /\ UNCHANGED <<registered, code, session, task, mailed, received, admittedBy>>

ExpireInvite(i) ==
    /\ invite[i] = "open"
    /\ invite' = [invite EXCEPT ![i] = "over"]
    /\ UNCHANGED <<registered, code, session, task, mailed, received, admittedBy>>

ExpireCode(c) ==
    /\ code[c].state = "open"
    /\ code' = [code EXCEPT ![c].state = "over"]
    /\ UNCHANGED <<registered, invite, session, task, mailed, received, admittedBy>>

ExpireSession(t) ==
    /\ session[t].state = "live"
    /\ session' = [session EXCEPT ![t].state = "over"]
    /\ UNCHANGED <<registered, invite, code, task, mailed, received, admittedBy>>

-----------------------------------------------------------------------------
(* POST /v1/auth/magic/request *)

\* Where the look-up of the address leads: unknown addresses register if the
\* mode, and the presence of an invite, allow it.  Every way out is a 202.
AfterLookup(e, i) ==
    CASE e \in registered -> "code"
      [] e \notin registered /\ Registration = "open" -> "create"
      [] e \notin registered /\ Registration = "invite" /\ i # None -> "create"
      [] OTHER -> "done"

RequestMagicCode(k, e, i) ==
    /\ task[k].at = "new"
    /\ task' = [task EXCEPT ![k] =
           [NewTask EXCEPT !.at = AfterLookup(e, i), !.email = e,
                           !.invite = IF Registration = "invite" THEN i ELSE None]]
    /\ UNCHANGED <<registered, invite, code, session, mailed, received, admittedBy>>

\* mutant: the invite is not required to be unused
Admits_Used(i, e) == i = None \/ (invite[i] # "none" /\ InviteEmail[i] \in {None, e})

Admits(i, e) == i = None \/ (invite[i] = "open" /\ InviteEmail[i] \in {None, e})

\* mutant: a new user is not sent a code
AfterCreate_Done(ok) == "done"

\* A failed registration ends the request, with the same 202.
AfterCreate(ok) == IF ok THEN "code" ELSE "done"

\* One transaction: lock the invite, insert the user, mark the invite used.
CreateUser(k) ==
    LET e == task[k].email
        i == task[k].invite
        ok == Admits(i, e) /\ e \notin registered
    IN  /\ task[k].at = "create"
        /\ GoTo(k, AfterCreate(ok))
        /\ registered' = IF ok THEN registered \cup {e} ELSE registered
        /\ invite' = IF ok /\ i # None THEN [invite EXCEPT ![i] = "over"] ELSE invite
        /\ admittedBy' = IF ok THEN [admittedBy EXCEPT ![i] = @ \cup {e}] ELSE admittedBy
        /\ UNCHANGED <<code, session, mailed, received>>

CreateMagicCode(k, c) ==
    /\ task[k].at = "code" /\ code[c].state = "none"
    /\ code' = [code EXCEPT ![c] = [state |-> "open", email |-> task[k].email]]
    /\ task' = [task EXCEPT ![k].at = "mail", ![k].code = c]
    /\ UNCHANGED <<registered, invite, session, mailed, received, admittedBy>>

SendMagicCode(k) ==
    /\ task[k].at = "mail"
    /\ mailed' = mailed \cup {task[k].code}
    /\ GoTo(k, "done")
    /\ UNCHANGED <<registered, invite, code, session, received, admittedBy>>

-----------------------------------------------------------------------------
(* POST /v1/auth/magic/verify *)

Consumable(c) == code[c].state = "open"

\* mutant: the session is opened for the address the client sent
Bound_Sent(c, e) == e

\* The address a code is bound to; the one the client sent must equal it.
Bound(c, e) == IF code[c].email = e THEN e ELSE None

\* The code is consumed first, so a mistyped address uses it up.
ConsumeMagicCode(k, c, e) ==
    /\ task[k].at = "new" /\ c \in mailed
    /\ code' = IF Consumable(c) THEN [code EXCEPT ![c].state = "over"] ELSE code
    /\ task' = [task EXCEPT ![k] =
           IF Consumable(c) /\ Bound(c, e) # None
           THEN [NewTask EXCEPT !.at = "session", !.email = Bound(c, e), !.code = c]
           ELSE [NewTask EXCEPT !.at = "done"]]
    /\ UNCHANGED <<registered, invite, session, mailed, received, admittedBy>>

\* The row a verified code inserts.
SessionRow(k) == [state |-> "live", user |-> task[k].email, code |-> task[k].code]

\* newSession, if the user exists.
CreateSession(k, t) ==
    /\ task[k].at = "session" /\ task[k].email \in registered
    /\ session[t].state = "none"
    /\ session' = [session EXCEPT ![t] = SessionRow(k)]
    /\ task' = [task EXCEPT ![k].at = "reply", ![k].token = t]
    /\ UNCHANGED <<registered, invite, code, mailed, received, admittedBy>>

\* The token pair reaches the client.
Reply(k) ==
    /\ task[k].at = "reply"
    /\ received' = received \cup {task[k].token}
    /\ GoTo(k, "done")
    /\ UNCHANGED <<registered, invite, code, session, mailed, admittedBy>>

-----------------------------------------------------------------------------
(* POST /v1/auth/refresh and /v1/auth/logout *)

FindActiveSession(t) == session[t].state = "live"

Refresh(k, t) ==
    /\ task[k].at = "new" /\ t \in received
    /\ task' = [task EXCEPT ![k] =
           [NewTask EXCEPT !.at = IF FindActiveSession(t) THEN "rotate" ELSE "done",
                           !.token = t]]
    /\ UNCHANGED <<registered, invite, code, session, mailed, received, admittedBy>>

\* mutant: the rotation relies on the look-up before it
Rotates_Found(t) == session[t].state # "none"

Rotates(t) == session[t].state = "live"

\* The row inserted for the new token: the same user, a new life time.
Successor(t) == [session[t] EXCEPT !.state = "live"]

\* One transaction: revoke the old row if it is still live, insert its successor.
RotateSession(k, n) ==
    LET t == task[k].token IN
    /\ task[k].at = "rotate" /\ session[n].state = "none"
    /\ IF Rotates(t)
       THEN /\ session' = [session EXCEPT ![t].state = "over",
                                          ![n] = Successor(t)]
            /\ task' = [task EXCEPT ![k].at = "reply", ![k].token = n]
       ELSE GoTo(k, "done") /\ UNCHANGED session
    /\ UNCHANGED <<registered, invite, code, mailed, received, admittedBy>>

RevokeSessionByTokenHash(t) ==
    IF session[t].state = "live" THEN [session EXCEPT ![t].state = "over"] ELSE session

Logout(k, t) ==
    /\ task[k].at = "new" /\ t \in received
    /\ session' = RevokeSessionByTokenHash(t)
    /\ task' = [task EXCEPT ![k] = [NewTask EXCEPT !.at = "done", !.token = t]]
    /\ UNCHANGED <<registered, invite, code, mailed, received, admittedBy>>

\* A handler stops between two steps, or its reply is lost.
Abort(k) ==
    /\ MayFail
    /\ task[k].at \notin {"new", "done", "lost"}
    /\ GoTo(k, "lost")
    /\ UNCHANGED <<registered, invite, code, session, mailed, received, admittedBy>>

-----------------------------------------------------------------------------

TaskStep(k) ==
    \/ CreateUser(k)
    \/ \E c \in Codes : CreateMagicCode(k, c)
    \/ SendMagicCode(k)
    \/ \E t \in Tokens : CreateSession(k, t) \/ RotateSession(k, t)
    \/ Reply(k)

Arrival(k) ==
    \/ \E e \in Emails, i \in Invites \cup {None} : RequestMagicCode(k, e, i)
    \/ \E c \in Codes, e \in Emails : ConsumeMagicCode(k, c, e)
    \/ \E t \in Tokens : Refresh(k, t) \/ Logout(k, t)

Environment ==
    \/ \E i \in Invites : CreateInvite(i) \/ ExpireInvite(i)
    \/ \E c \in Codes : ExpireCode(c)
    \/ \E t \in Tokens : ExpireSession(t)

Next == Environment \/ \E k \in Tasks : Arrival(k) \/ TaskStep(k) \/ Abort(k)

Spec == Init /\ [][Next]_vars

-----------------------------------------------------------------------------
(* Properties *)

Steps == {"new", "create", "code", "mail", "session", "rotate", "reply", "done", "lost"}

\* The shapes of the variables; codes and sessions belong to registered addresses
\* only, although look-up, registration and code are statements of their own.
TypeOK ==
    /\ registered \subseteq Emails
    /\ invite \in [Invites -> {"none", "open", "over"}]
    /\ code \in [Codes -> [state : {"none", "open", "over"}, email : registered \cup {None}]]
    /\ session \in [Tokens -> [state : {"none", "live", "over"},
                               user : registered \cup {None}, code : Codes \cup {None}]]
    /\ task \in [Tasks -> [at : Steps, email : Emails \cup {None}, invite : Invites \cup {None},
                           code : Codes \cup {None}, token : Tokens \cup {None}]]
    /\ mailed \subseteq Codes /\ received \subseteq Tokens
    /\ admittedBy \in [Invites \cup {None} -> SUBSET Emails]

\* However requests, retries and concurrent registrations interleave, an invite
\* registers at most one address, the one it was made out to (CreateUser locks the
\* invite and marks it in the transaction that inserts the user).
InviteAdmitsOne ==
    \A i \in Invites, e, f \in Emails :
        {e, f} \subseteq admittedBy[i] => e = f /\ InviteEmail[i] \in {None, e}

\* Every session belongs to the user to whose mailbox its code was sent, whatever
\* address the verification named (VerifyMagicCode).
MailboxOwnsSession ==
    \A t \in Tokens : session[t].state # "none" =>
        /\ session[t].code \in mailed
        /\ session[t].user = code[session[t].code].email
        /\ session[t].user \in registered

SessionsOf(c) == {t \in Tokens : session[t].state # "none" /\ session[t].code = c}

LiveOf(c) == {t \in SessionsOf(c) : session[t].state = "live"}

HeadOf(c) == IF SessionsOf(c) = {} THEN None
             ELSE IF LiveOf(c) = {} THEN Ended ELSE CHOOSE t \in LiveOf(c) : TRUE

Promised == INSTANCE SessionChain
    WITH Chains <- Codes,
         head <- [c \in Codes |-> HeadOf(c)],
         spent <- {t \in Tokens : session[t].state # "none"}

\* Handlers that overlap, fail and lose replies implement the chains of tokens: a
\* code signs in once, a sign-in has at most one token that can be exchanged, an
\* old token stays spent, and nothing revives a sign-in that has ended.
ImplementsChains == Promised!Spec

\* An address that has registered gets a code: it has been mailed one, or the request
\* that will do so is still under way, or was lost.  Of several concurrent requests
\* for a new address only one creates the user; the others end without a code.
RegisteredIsMailed ==
    \A i \in Invites \cup {None} : \A e \in admittedBy[i] :
        \/ \E c \in mailed : code[c].email = e
        \/ \E k \in Tasks : task[k].email = e /\ task[k].at \in {"code", "mail", "lost"}
=============================================================================
