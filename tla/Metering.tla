------------------------------ MODULE Metering ------------------------------
(***************************************************************************)
(* The account side of the completion API: durable installations, their    *)
(* link to a user account, plans, and the calendar-month completion quota. *)
(*                                                                         *)
(* PostgreSQL holds the installation rows and the plans, Redis (or the     *)
(* in-process tracker, which has the same atomicity) the usage counters.   *)
(* Each database statement, transaction or Redis script is one action; the *)
(* two handlers that need several of them, a completion request and an     *)
(* installation link, are processes with a program counter, so every other *)
(* handler may run between two of their steps, and they may stop between   *)
(* any two (a cancelled context, an unavailable store, a crashed server).  *)
(***************************************************************************)
EXTENDS Integers, FiniteSets

CONSTANTS
  Users,            \* accounts
  Installations,    \* VS Code installations, each with its signed token
  Requests,         \* completion requests the server can have in flight
  Links,            \* link requests the server can have in flight
  None,             \* a NULL: an installation without owner, an idle handler
  FreeLimit,        \* monthly_completion_limit of the plan "free"
  ProLimit,         \*                          ... of the plan "pro"
  DailyLimit,       \* completions per installation and UTC day
  MaxMonth,         \* bound: the months of a behaviour are 1..MaxMonth
  AccountRequired,  \* the server only serves linked installations
  MayFail           \* handlers may stop before they are done

ASSUME LimitAssumption ==
  /\ FreeLimit \in Nat /\ ProLimit \in Nat /\ FreeLimit <= ProLimit
  /\ DailyLimit \in Nat
  /\ MaxMonth \in Nat \ {0}
  /\ AccountRequired \in BOOLEAN /\ MayFail \in BOOLEAN

ASSUME SubjectAssumption ==
  /\ None \notin Users \cup Installations
  /\ Users \cap Installations = {}

VARIABLES
  status,       \* installations.status, "absent" before the row exists
  owner,        \* installations.user_id
  usageLinked,  \* installations.usage_linked_at IS NOT NULL
  plan,         \* user_entitlements
  month,        \* the calendar month (UTC)
  daily,        \* completions of each installation on this UTC day
  used,         \* monthly usage by subject and month
  migrated,     \* merge markers (installation, user, month)
  req,          \* completion requests in flight
  link,         \* link requests in flight
  granted,      \* history: completions let through, by charged subject
  mergedIn,     \* history: anonymous usage added to each user's month
  merges        \* history: how often each installation's usage was added

storeVars   == <<status, owner, usageLinked, plan, month, daily, used, migrated>>
historyVars == <<granted, mergedIn, merges>>
vars        == <<storeVars, req, link, historyVars>>

-----------------------------------------------------------------------------
Subjects == Users \cup Installations
Months   == 1..MaxMonth
Plans    == {"free", "pro"}

Limit(p) == IF p = "pro" THEN ProLimit ELSE FreeLimit

\* The plan an installation resolves to: its owner's, Free while it has none.
PlanOf(i) == IF owner[i] = None THEN "free" ELSE plan[owner[i]]

\* The quota subject is chosen from the installation row the request READ.
SubjectOf(r) == IF r.user = None THEN r.inst ELSE r.user

ReqPCs  == {"idle", "status", "entitlements", "quota"}
LinkPCs == {"idle", "link", "mark", "merge"}

IdleReq  == [pc |-> "idle", inst |-> None, user |-> None, limit |-> 0]
IdleLink == [pc |-> "idle", inst |-> None, user |-> None]

Init ==
  /\ status      = [i \in Installations |-> "absent"]
  /\ owner       = [i \in Installations |-> None]
  /\ usageLinked = [i \in Installations |-> FALSE]
  /\ plan        = [u \in Users |-> "free"]
  /\ month       = 1
  /\ daily       = [i \in Installations |-> 0]
  /\ used        = [s \in Subjects |-> [m \in Months |-> 0]]
  /\ migrated    = {}
  /\ req         = [r \in Requests |-> IdleReq]
  /\ link        = [l \in Links |-> IdleLink]
  /\ granted     = [s \in Subjects |-> [m \in Months |-> 0]]
  /\ mergedIn    = [u \in Users |-> [m \in Months |-> 0]]
  /\ merges      = [i \in Installations |-> 0]

-----------------------------------------------------------------------------
(* Installation rows.                                                      *)

\* Mutation: ON CONFLICT DO UPDATE SET status = 'active'.
EnsureInstallation_Revives(i) == status' = [status EXCEPT ![i] = "active"]

\* INSERT ... ON CONFLICT DO NOTHING: creates the row, never revives one.
EnsureInstallation(i) ==
  status' = [status EXCEPT ![i] = IF @ = "absent" THEN "active" ELSE @]

Register(i) ==
  /\ EnsureInstallation(i)
  /\ UNCHANGED <<owner, usageLinked, plan, month, daily, used, migrated,
                 req, link, historyVars>>

RevokeInstallation(i, u) ==
  /\ status[i] = "active" /\ owner[i] = u
  /\ status' = [status EXCEPT ![i] = "revoked"]
  /\ UNCHANGED <<owner, usageLinked, plan, month, daily, used, migrated,
                 req, link, historyVars>>

AdminRevokeInstallation(i) ==
  /\ status[i] = "active"
  /\ status' = [status EXCEPT ![i] = "revoked"]
  /\ UNCHANGED <<owner, usageLinked, plan, month, daily, used, migrated,
                 req, link, historyVars>>

SetUserPlan(u, p) ==
  /\ plan' = [plan EXCEPT ![u] = p]
  /\ UNCHANGED <<status, owner, usageLinked, month, daily, used, migrated,
                 req, link, historyVars>>

-----------------------------------------------------------------------------
(* A completion request.  A rejected request only leaves its slot; the     *)
(* counters it has already consumed are not given back.                    *)

Leave(r) == req' = [req EXCEPT ![r] = IdleReq]

\* Mutation: compares before adding.
DailyFits_OffByOne(i) == daily[i] <= DailyLimit

DailyFits(i) == daily[i] + 1 <= DailyLimit

\* A valid token, and room in the installation's daily quota.
Quota(r, i) ==
  /\ req[r].pc = "idle"
  /\ DailyFits(i)
  /\ daily' = [daily EXCEPT ![i] = @ + 1]
  /\ req' = [req EXCEPT ![r] =
               [pc |-> "status", inst |-> i, user |-> None, limit |-> 0]]
  /\ UNCHANGED <<status, owner, usageLinked, plan, month, used, migrated,
                 link, historyVars>>

\* Mutation: the middleware is left out of the chain.
RequireLinkedAccount_Skipped(i) == TRUE

RequireLinkedAccount(i) == AccountRequired => owner[i] # None

\* Reads the row; the request keeps the owner it saw.
InstallationStatus(r) ==
  LET i == req[r].inst IN
  /\ req[r].pc = "status"
  /\ EnsureInstallation(i)
  /\ IF status'[i] = "active" /\ RequireLinkedAccount(i)
       THEN req' = [req EXCEPT ![r].pc = "entitlements", ![r].user = owner[i]]
       ELSE Leave(r)
  /\ UNCHANGED <<owner, usageLinked, plan, month, daily, used, migrated,
                 link, historyVars>>

\* Reads the row again, joined with the owner's plan.
Entitlements(r) ==
  LET i == req[r].inst IN
  /\ req[r].pc = "entitlements"
  /\ IF status[i] = "active"
       THEN req' = [req EXCEPT ![r].pc = "quota", ![r].limit = Limit(PlanOf(i))]
       ELSE Leave(r)
  /\ UNCHANGED <<storeVars, link, historyVars>>

\* Mutation: compares before adding.
Fits_OffByOne(s, limit) == used[s][month] <= limit

Fits(s, limit) == used[s][month] + 1 <= limit

\* The script increments the counter unless that exceeds the limit.  When its
\* reply is lost the completion is charged and the client gets a 503.
MonthlyQuota(r) ==
  LET s == SubjectOf(req[r]) IN
  /\ req[r].pc = "quota"
  /\ Leave(r)
  /\ \/ /\ Fits(s, req[r].limit)
        /\ used' = [used EXCEPT ![s][month] = @ + 1]
        /\ \/ granted' = [granted EXCEPT ![s][month] = @ + 1]
           \/ MayFail /\ UNCHANGED granted
     \/ /\ ~Fits(s, req[r].limit)
        /\ UNCHANGED <<used, granted>>
  /\ UNCHANGED <<status, owner, usageLinked, plan, month, daily, migrated,
                 link, mergedIn, merges>>

AbortRequest(r) ==
  /\ MayFail /\ req[r].pc # "idle"
  /\ Leave(r)
  /\ UNCHANGED <<storeVars, link, historyVars>>

-----------------------------------------------------------------------------
(* Linking an installation to the account of a signed-in user.             *)

LeaveLink(l) == link' = [link EXCEPT ![l] = IdleLink]

InstallationToken(l, i, u) ==
  /\ link[l].pc = "idle"
  /\ EnsureInstallation(i)
  /\ status'[i] = "active"
  /\ link' = [link EXCEPT ![l] = [pc |-> "link", inst |-> i, user |-> u]]
  /\ UNCHANGED <<owner, usageLinked, plan, month, daily, used, migrated,
                 req, historyVars>>

\* Mutation: the owner read under the row lock is not compared.
Unclaimed_Transfers(i, u) == TRUE

Unclaimed(i, u) == owner[i] = None \/ owner[i] = u

\* SELECT ... FOR UPDATE, the two checks and the UPDATE are one transaction.
LinkInstallation(l) ==
  LET i == link[l].inst
      u == link[l].user
  IN
  /\ link[l].pc = "link"
  /\ IF status[i] = "active" /\ Unclaimed(i, u)
       THEN /\ owner' = [owner EXCEPT ![i] = u]
            /\ link' = [link EXCEPT ![l].pc = "mark"]
       ELSE LeaveLink(l) /\ UNCHANGED owner
  /\ UNCHANGED <<status, usageLinked, plan, month, daily, used, migrated,
                 req, historyVars>>

\* Mutation: the UPDATE has no usage_linked_at IS NULL.
Unmarked_Always(i) == TRUE

Unmarked(i) == ~usageLinked[i]

\* UPDATE ... WHERE usage_linked_at IS NULL: one caller sees a row affected.
MarkInstallationUsageLinked(l) ==
  LET i == link[l].inst IN
  /\ link[l].pc = "mark"
  /\ IF Unmarked(i)
       THEN /\ usageLinked' = [usageLinked EXCEPT ![i] = TRUE]
            /\ link' = [link EXCEPT ![l].pc = "merge"]
       ELSE LeaveLink(l) /\ UNCHANGED usageLinked
  /\ UNCHANGED <<status, owner, plan, month, daily, used, migrated,
                 req, historyVars>>

Migrated(i, u) == <<i, u, month>> \in migrated

\* The counter of the installation is added to its user's, and kept.
MergeInstallationIntoUser(l) ==
  LET i == link[l].inst
      u == link[l].user
  IN
  /\ link[l].pc = "merge"
  /\ LeaveLink(l)
  /\ IF Migrated(i, u)
       THEN UNCHANGED <<used, migrated, mergedIn, merges>>
       ELSE /\ used'     = [used EXCEPT ![u][month] = @ + used[i][month]]
            /\ mergedIn' = [mergedIn EXCEPT ![u][month] = @ + used[i][month]]
            /\ merges'   = [merges EXCEPT ![i] = @ + 1]
            /\ migrated' = migrated \cup {<<i, u, month>>}
  /\ UNCHANGED <<status, owner, usageLinked, plan, month, daily, req, granted>>

AbortLink(l) ==
  /\ MayFail /\ link[l].pc # "idle"
  /\ LeaveLink(l)
  /\ UNCHANGED <<storeVars, req, historyVars>>

-----------------------------------------------------------------------------
(* The UTC clock.                                                          *)

NextDay ==
  /\ daily' = [i \in Installations |-> 0]
  /\ UNCHANGED <<status, owner, usageLinked, plan, month, used, migrated,
                 req, link, historyVars>>

NextMonth ==
  /\ month < MaxMonth
  /\ month' = month + 1
  /\ daily' = [i \in Installations |-> 0]
  /\ UNCHANGED <<status, owner, usageLinked, plan, used, migrated,
                 req, link, historyVars>>

-----------------------------------------------------------------------------
RequestStep(r) ==
  \/ InstallationStatus(r)
  \/ Entitlements(r)
  \/ MonthlyQuota(r)

LinkStep(l) ==
  \/ LinkInstallation(l)
  \/ MarkInstallationUsageLinked(l)
  \/ MergeInstallationIntoUser(l)

InstallationAction(i) ==
  \/ Register(i)
  \/ AdminRevokeInstallation(i)
  \/ \E u \in Users : RevokeInstallation(i, u)
  \/ \E r \in Requests : Quota(r, i)
  \/ \E l \in Links, u \in Users : InstallationToken(l, i, u)

Next ==
  \/ \E i \in Installations : InstallationAction(i)
  \/ \E u \in Users, p \in Plans : SetUserPlan(u, p)
  \/ \E r \in Requests : RequestStep(r) \/ AbortRequest(r)
  \/ \E l \in Links : LinkStep(l) \/ AbortLink(l)
  \/ NextDay
  \/ NextMonth

\* Every handler that has been accepted runs to its end: each step is bounded
\* by a store timeout or the request context.
Fairness ==
  /\ \A r \in Requests : WF_vars(RequestStep(r))
  /\ \A l \in Links : WF_vars(LinkStep(l))

Spec     == Init /\ [][Next]_vars
FairSpec == Spec /\ Fairness

-----------------------------------------------------------------------------
(* Properties.                                                             *)

TypeOK ==
  /\ status \in [Installations -> {"absent", "active", "revoked"}]
  /\ owner \in [Installations -> Users \cup {None}]
  /\ usageLinked \in [Installations -> BOOLEAN]
  /\ plan \in [Users -> Plans]
  /\ month \in Months
  /\ daily \in [Installations -> 0..DailyLimit]
  /\ used \in [Subjects -> [Months -> Nat]]
  /\ migrated \subseteq Installations \X Users \X Months
  /\ req \in [Requests -> [pc : ReqPCs, inst : Installations \cup {None},
                           user : Users \cup {None}, limit : Nat]]
  /\ link \in [Links -> [pc : LinkPCs, inst : Installations \cup {None},
                         user : Users \cup {None}]]
  /\ granted \in [Subjects -> [Months -> Nat]]
  /\ mergedIn \in [Users -> [Months -> Nat]]
  /\ merges \in [Installations -> Nat]

\* Whatever order requests, links, plan changes and failures come in, an
\* account is charged for every completion it was granted and for the usage
\* merged into it, and goes beyond the largest plan only by what was merged
\* (monthly_redis.go's scripts are atomic, the handlers around them are not).
LedgerBalance ==
  \A u \in Users, m \in Months :
    /\ granted[u][m] + mergedIn[u][m] <= used[u][m]
    /\ used[u][m] <= ProLimit + mergedIn[u][m]

\* The usage of an installation is added to an account at most once, however
\* many link requests race, fail half-way, are retried, or come in a later
\* month (the durable marker of MarkInstallationUsageLinked).
MergedAtMostOnce == \A i \in Installations : merges[i] <= 1

\* A request about to be metered charges the account that owns the
\* installation now, although it read the owner several steps ago; so does a
\* link about to merge.
ChargesOwner ==
  /\ \A r \in Requests :
       req[r].user # None => owner[req[r].inst] = req[r].user
  /\ \A l \in Links :
       link[l].pc \in {"mark", "merge"} => owner[link[l].inst] = link[l].user

\* When the server requires an account, no completion is ever counted
\* against an installation: no link can lose anonymous usage.
NoAnonymousUsage ==
  AccountRequired => \A i \in Installations, m \in Months : used[i][m] = 0

\* From some time after its revocation on, no request of an installation gets
\* past the check of its durable status, whatever tokens it still holds and
\* however often it registers again.
RevocationTakesEffect ==
  \A i \in Installations :
    status[i] = "revoked" ~>
      [](\A r \in Requests :
           req[r].inst = i => req[r].pc \notin {"entitlements", "quota"})

\* The documentation's reading of the same marker: once no link request of
\* an installation is in flight, its usage has been added once.
UsageAddedOnce ==
  \A i \in Installations :
    (/\ usageLinked[i] /\ \A l \in Links : link[l].inst # i
     /\ \E m \in Months : used[i][m] > 0) => merges[i] = 1

\* The quota ledger the accounts rely on.
Ledger == INSTANCE QuotaLedger
            WITH TopLimit <- ProLimit,
                 balance  <- used,
                 credited <- {i \in Installations : merges[i] > 0}

ImplementsLedger == Ledger!Spec

=============================================================================
