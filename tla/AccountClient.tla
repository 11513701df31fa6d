---------------------------- MODULE AccountClient ----------------------------
(***************************************************************************)
(* The extension's side of an account: src/account/accountService.ts over  *)
(* src/security/credentialStore.ts, against the sessions SessionChain      *)
(* promises (AccountSessions implements them).                             *)
(*                                                                         *)
(* Operations of all windows of one user share the two secrets.  Between   *)
(* the awaits of an operation, those of others run; the two secrets are    *)
(* written in parallel.  An access token is named by the refresh token it  *)
(* was issued with.                                                        *)
(***************************************************************************)
EXTENDS FiniteSets

CONSTANTS
    SignIns, Tokens, None, Ended,   \* as in SessionChain
    Ops,            \* operations, each runs once
    Kinds,          \* the kinds of operations in this instance
    Networks        \* "faulty": windows close, replies are lost, sessions end and the
                    \* API answers 401 for another reason than the access token

ASSUME KindAssumption == Kinds \subseteq {"signIn", "signOut", "use"}
ASSUME NetworkAssumption == Networks \subseteq {"reliable", "faulty"}
ASSUME NoneAssumption == None \notin Tokens
ASSUME EndedAssumption == Ended \notin Tokens \cup {None}

VARIABLES
    network,        \* Static: what may go wrong
    head, spent,    \* the server: SessionChain
    stale,          \* access tokens that have expired
    secret,         \* SecretStorage: the access and the refresh token
    op              \* operations: kind, step, token in hand, pair received, writes left

vars == <<network, head, spent, stale, secret, op>>

Server == INSTANCE SessionChain WITH Chains <- SignIns

Secrets == {"access", "refresh"}

Idle == [kind |-> "none", at |-> "new", token |-> None, pair |-> None,
         writes |-> {}, retried |-> FALSE, alone |-> TRUE]

Init ==
    /\ network \in Networks
    /\ Server!Init
    /\ stale = {}
    /\ secret = [s \in Secrets |-> None]
    /\ op = [k \in Ops |-> Idle]

MayFail == network = "faulty"

InFlight(k) == op[k].at \notin {"new", "ok", "failed"}

Busy == {k \in Ops : InFlight(k)}

\* Operation k begins; "alone" remembers whether another one overlapped it.
Begin(k, rec) ==
    op' = [j \in Ops |->
             CASE j = k -> [rec EXCEPT !.alone = Busy = {}]
               [] j \in Busy \ {k} -> [op[j] EXCEPT !.alone = FALSE]
               [] OTHER -> op[j]]

Set(k, rec) == op' = [op EXCEPT ![k] = rec]

GoTo(k, step) == Set(k, [op[k] EXCEPT !.at = step])

-----------------------------------------------------------------------------
(* withAccess: a call with the stored access token, one refresh and retry *)

\* The access token, or none: then the refresh comes first.
Use(k) ==
    /\ "use" \in Kinds /\ op[k].at = "new"
    /\ Begin(k, [Idle EXCEPT !.kind = "use", !.token = secret["access"],
                             !.at = IF secret["access"] = None THEN "read" ELSE "call"])
    /\ UNCHANGED <<network, head, spent, stale, secret>>

\* One retry; the link after a sign-in has none.
Retries(k) == op[k].kind = "use" /\ ~op[k].retried

ValidateAccessToken(t) == t \notin stale

\* The API call itself: it succeeds, or answers 401.
Call(k) ==
    /\ op[k].at = "call"
    /\ \/ ValidateAccessToken(op[k].token) /\ GoTo(k, "ok")
       \/ /\ ~ValidateAccessToken(op[k].token) \/ MayFail
          /\ Set(k, [op[k] EXCEPT !.at = IF Retries(k) THEN "read" ELSE "failed", !.retried = TRUE])
    /\ UNCHANGED <<network, head, spent, stale, secret>>

\* refresh() and signOut() read the refresh token; without one a refresh fails, and
\* a sign-out has nothing to tell the server.
ReadRefresh(k) ==
    /\ op[k].at = "read"
    /\ LET t == secret["refresh"]
           step == CASE op[k].kind = "use" -> IF t = None THEN "failed" ELSE "exchange"
                     [] OTHER -> IF t = None THEN "write" ELSE "logout"
       IN  Set(k, [op[k] EXCEPT !.token = t, !.at = step,
                                !.writes = IF step = "write" THEN Secrets ELSE {}])
    /\ UNCHANGED <<network, head, spent, stale, secret>>

\* mutant: a refused refresh token is deleted
Refused_Clears(k) ==
    Set(k, [op[k] EXCEPT !.at = "write", !.pair = None, !.writes = Secrets, !.retried = TRUE])

\* mutant: a refused refresh writes its token back
Refused_Restores(k) ==
    Set(k, [op[k] EXCEPT !.at = "write", !.pair = op[k].token, !.writes = Secrets, !.retried = TRUE])

\* A refused refresh fails the operation and leaves the secrets alone.
Refused(k) == GoTo(k, "failed")

\* POST /v1/auth/refresh
Exchange(k) ==
    /\ op[k].at = "exchange"
    /\ \/ \E c \in SignIns, n \in Tokens :
             /\ Server!Rotate(c, op[k].token, n)
             /\ Set(k, [op[k] EXCEPT !.at = "reply", !.pair = n])
       \/ /\ \A c \in SignIns : head[c] # op[k].token
          /\ Refused(k)
          /\ UNCHANGED <<head, spent>>
    /\ UNCHANGED <<network, stale, secret>>

\* The reply arrives: both secrets are to be written.
Receive(k) ==
    /\ op[k].at = "reply"
    /\ Set(k, [op[k] EXCEPT !.at = "write", !.writes = Secrets])
    /\ UNCHANGED <<network, head, spent, stale, secret>>

\* One of the writes of setAccountTokens or deleteAccountTokens completes; after
\* the second one the operation goes on with the new access token, or ends.
Write(k, s) ==
    /\ op[k].at = "write" /\ s \in op[k].writes
    /\ secret' = [secret EXCEPT ![s] = op[k].pair]
    /\ Set(k, [op[k] EXCEPT !.writes = @ \ {s},
                            !.token = IF op[k].pair = None THEN @ ELSE op[k].pair,
                            !.at = CASE op[k].writes # {s} -> "write"
                                     [] op[k].writes = {s} /\ op[k].pair = None -> "ok"
                                     [] OTHER -> "call"])
    /\ UNCHANGED <<network, head, spent, stale>>

-----------------------------------------------------------------------------
(* verifyMagicCode and signOut *)

VerifyMagicCode(k, c, n) ==
    /\ "signIn" \in Kinds /\ op[k].at = "new"
    /\ Server!Open(c, n)
    /\ Begin(k, [Idle EXCEPT !.kind = "signIn", !.at = "reply", !.pair = n])
    /\ UNCHANGED <<network, stale, secret>>

SignOut(k) ==
    /\ "signOut" \in Kinds /\ op[k].at = "new"
    /\ Begin(k, [Idle EXCEPT !.kind = "signOut", !.at = "read"])
    /\ UNCHANGED <<network, head, spent, stale, secret>>

\* finally: the secrets are deleted whether or not the server was reached.
AfterLogout(k) == [op[k] EXCEPT !.at = "write", !.writes = Secrets]

LogoutAccount(k) ==
    /\ op[k].at = "logout"
    /\ \/ /\ \A c \in SignIns : head[c] # op[k].token
          /\ Set(k, AfterLogout(k))
          /\ UNCHANGED <<head, spent>>
       \/ /\ \E c \in SignIns : head[c] = op[k].token /\ Server!Close(c)
          /\ Set(k, AfterLogout(k))
       \/ Set(k, AfterLogout(k)) /\ UNCHANGED <<head, spent>>
    /\ UNCHANGED <<network, stale, secret>>

-----------------------------------------------------------------------------
(* Environment *)

\* An access token expires, but not within the operation that obtained it.
AccessExpires(t) ==
    /\ t \in spent \ stale
    /\ \A k \in Busy : op[k].pair # t
    /\ stale' = stale \cup {t}
    /\ UNCHANGED <<network, head, spent, secret, op>>

\* A session ends on the server.
EndSession(c) ==
    /\ MayFail
    /\ Server!Close(c)
    /\ UNCHANGED <<network, stale, secret, op>>

\* A request or its reply is lost, or the window closes between two steps.
Abort(k) ==
    /\ MayFail /\ InFlight(k)
    /\ Set(k, [op[k] EXCEPT !.at = "failed", !.writes = {}])
    /\ UNCHANGED <<network, head, spent, stale, secret>>

OpStep(k) ==
    \/ Call(k) \/ ReadRefresh(k) \/ Exchange(k) \/ Receive(k) \/ LogoutAccount(k)
    \/ \E s \in Secrets : Write(k, s)

Next ==
    \/ \E k \in Ops :
         \/ OpStep(k) \/ Use(k) \/ SignOut(k) \/ Abort(k)
         \/ \E c \in SignIns, n \in Tokens : VerifyMagicCode(k, c, n)
    \/ \E t \in Tokens : AccessExpires(t)
    \/ \E c \in SignIns : EndSession(c)

Spec == Init /\ [][Next]_vars

-----------------------------------------------------------------------------
(* Properties *)

Accepted == {t \in Tokens : \E c \in SignIns : head[c] = t}

\* Windows that refresh, sign in and sign out at the same time never strand the
\* user: once nothing is in flight, a stored refresh token is one the server takes,
\* and a user who signed in and never out has one.
NotStranded ==
    Busy = {} =>
        /\ secret["refresh"] \in Accepted \cup {None}
        /\ (\E k \in Ops : op[k].kind = "signIn" /\ op[k].at # "new")
             /\ (\A k \in Ops : op[k].kind # "signOut") => secret["refresh"] # None

\* An operation nobody overlapped does what it says: a call succeeds after at most
\* one refresh, and a sign-out leaves no secret, even if the server was not reached.
AloneDoesItsJob ==
    \A k \in Ops : op[k].alone =>
        /\ op[k].kind = "use" /\ op[k].at = "failed" =>
             op[k].token = None
        /\ op[k].kind = "signOut" => op[k].at # "failed"

\* Both hold while no reply is lost and no window closes.
NobodyIsStranded == network = "reliable" => NotStranded /\ AloneDoesItsJob

OneSignIn == \A c, d \in SignIns : head[c] # None /\ head[d] # None => c = d

StoreStep ==
    LET old == secret["refresh"]
        new == secret'["refresh"]
    IN  old \in Accepted /\ new \notin {None, old} => new \in Accepted'

\* With one sign-in, a usable refresh token in the store is never replaced by a
\* spent one, whatever is lost and whoever refreshes: two concurrent refreshes
\* cannot store their pairs in the wrong order.
StoreNeverGoesBack == [][OneSignIn => StoreStep]_vars

\* README.md:53: "Removes locally stored account credentials".  After a sign-out from
\* the only sign-in there was, which nothing else overlapped, no secret is left once
\* nothing is in flight.
SignedOutIsCleared ==
    (/\ Busy = {}
     /\ \E k \in Ops : op[k].kind = "signOut" /\ op[k].at = "ok" /\ op[k].token # None
     /\ \A k \in Ops : op[k].kind = "signIn" => op[k].alone)
    => secret = [s \in Secrets |-> None]
=============================================================================
