--------------------------- MODULE MeteringProofs ---------------------------
(***************************************************************************)
(* Machine-checked proofs about Metering, for any number of users,         *)
(* installations, requests in flight, and any limits: the invariants, and  *)
(* that Metering keeps the promises of QuotaLedger.                        *)
(***************************************************************************)
EXTENDS Metering, TLAPS

-----------------------------------------------------------------------------
(* The inductive invariant.                                                *)

ReqType  == [pc : ReqPCs, inst : Installations \cup {None},
             user : Users \cup {None}, limit : Nat]
LinkType == [pc : LinkPCs, inst : Installations \cup {None},
             user : Users \cup {None}]

\* What a handler in flight knows about its own data.
ReqOK(q)  == /\ q.pc # "idle" => q.inst \in Installations
             /\ q.user # None => q.inst \in Installations
             /\ q.limit <= ProLimit
LinkOK(k) == k.pc # "idle" => k.inst \in Installations /\ k.user \in Users

HandlersOK == /\ \A r \in Requests : ReqOK(req[r])
              /\ \A l \in Links : LinkOK(link[l])

\* The right to merge an installation is held by one link request, between
\* the marker and the merge.
MergeToken ==
  /\ \A l \in Links :
       link[l].pc = "merge" => /\ usageLinked[link[l].inst]
                               /\ merges[link[l].inst] = 0
  /\ \A k, l \in Links :
       /\ link[k].pc = "merge" /\ link[l].pc = "merge"
       /\ link[k].inst = link[l].inst
       => k = l
  /\ \A i \in Installations : merges[i] > 0 => usageLinked[i]

-----------------------------------------------------------------------------
(* Updates of one handler's record.                                        *)

LEMMA PlanLimit ==
  ASSUME TypeOK, NEW i \in Installations
  PROVE  Limit(PlanOf(i)) \in Nat /\ Limit(PlanOf(i)) <= ProLimit
BY LimitAssumption, SubjectAssumption DEF TypeOK, PlanOf, Limit, Plans

LEMMA LeaveOK ==
  ASSUME TypeOK, HandlersOK, NEW r \in Requests, Leave(r)
  PROVE  /\ req' \in [Requests -> ReqType]
         /\ \A q \in Requests : ReqOK(req'[q])
         /\ \A q \in Requests : req'[q] = IF q = r THEN IdleReq ELSE req[q]
<1>1. IdleReq \in ReqType /\ ReqOK(IdleReq)
  BY LimitAssumption DEF IdleReq, ReqType, ReqPCs, ReqOK
<1>2. req' = [req EXCEPT ![r] = IdleReq]
  BY DEF Leave
<1>3. QED
  BY <1>1, <1>2 DEF TypeOK, HandlersOK, ReqType

LEMMA LeaveLinkOK ==
  ASSUME TypeOK, HandlersOK, NEW l \in Links, LeaveLink(l)
  PROVE  /\ link' \in [Links -> LinkType]
         /\ \A k \in Links : LinkOK(link'[k])
         /\ \A k \in Links : link'[k] = IF k = l THEN IdleLink ELSE link[k]
<1>1. IdleLink \in LinkType /\ LinkOK(IdleLink)
  BY DEF IdleLink, LinkType, LinkPCs, LinkOK
<1>2. link' = [link EXCEPT ![l] = IdleLink]
  BY DEF LeaveLink
<1>3. QED
  BY <1>1, <1>2 DEF TypeOK, HandlersOK, LinkType

\* A link request that goes on keeps its installation and its user.
LEMMA LinkGoesOn ==
  ASSUME TypeOK, HandlersOK, NEW l \in Links, link[l].pc # "idle",
         NEW pc \in LinkPCs, link' = [link EXCEPT ![l].pc = pc]
  PROVE  /\ link' \in [Links -> LinkType]
         /\ \A k \in Links : LinkOK(link'[k])
         /\ \A k \in Links : /\ link'[k].inst = link[k].inst
                             /\ link'[k].user = link[k].user
                             /\ link'[k].pc = IF k = l THEN pc ELSE link[k].pc
<1> DEFINE new == [link[l] EXCEPT !.pc = pc]
<1>1. link[l] \in LinkType
  BY DEF TypeOK, LinkType
<1>2. new \in LinkType /\ new.pc = pc /\ new.inst = link[l].inst
      /\ new.user = link[l].user
  BY <1>1 DEF LinkType
<1>3. LinkOK(new)
  BY <1>2 DEF HandlersOK, LinkOK
<1>4. link' = [link EXCEPT ![l] = new]
  OBVIOUS
<1> HIDE DEF new
<1>5. QED
  BY ZenonT(60), <1>2, <1>3, <1>4 DEF TypeOK, HandlersOK, LinkType

-----------------------------------------------------------------------------
(* Types.                                                                  *)

LEMMA InitType == Init => TypeOK /\ HandlersOK
BY LimitAssumption, SubjectAssumption
DEF Init, TypeOK, HandlersOK, ReqOK, LinkOK, IdleReq, IdleLink, ReqPCs, LinkPCs,
    Plans, Months, Subjects

\* The requests in flight stay well formed.
LEMMA RequestsOK ==
  ASSUME TypeOK, HandlersOK, [Next]_vars
  PROVE  req' \in [Requests -> ReqType] /\ \A r \in Requests : ReqOK(req'[r])
<1> DEFINE Goal == /\ req' \in [Requests -> ReqType]
                   /\ \A r \in Requests : ReqOK(req'[r])
<1>1. ASSUME UNCHANGED req PROVE Goal
  BY <1>1 DEF TypeOK, HandlersOK, ReqType
<1>2. ASSUME NEW r \in Requests, Leave(r) PROVE Goal
  BY <1>2, LeaveOK
<1>3. ASSUME NEW r \in Requests, NEW v \in ReqType, ReqOK(v),
             req' = [req EXCEPT ![r] = v]
      PROVE  Goal
  BY <1>3 DEF TypeOK, HandlersOK, ReqType
<1> HIDE DEF Goal
<1>4. ASSUME NEW r \in Requests, NEW i \in Installations, Quota(r, i) PROVE Goal
  <2> DEFINE v == [pc |-> "status", inst |-> i, user |-> None, limit |-> 0]
  <2>1. v \in ReqType /\ ReqOK(v)
    BY LimitAssumption DEF ReqType, ReqPCs, ReqOK
  <2>2. req' = [req EXCEPT ![r] = v]
    BY <1>4 DEF Quota
  <2> HIDE DEF v
  <2>3. QED
    BY <1>3, <2>1, <2>2
<1>5. ASSUME NEW r \in Requests, InstallationStatus(r) PROVE Goal
  <2> DEFINE i == req[r].inst
             v == [req[r] EXCEPT !.pc = "entitlements", !.user = owner[i]]
  <2>1. CASE Leave(r)
    BY <1>2, <2>1
  <2>2. CASE req' = [req EXCEPT ![r].pc = "entitlements", ![r].user = owner[i]]
    <3>1. req[r] \in ReqType /\ ReqOK(req[r]) /\ i \in Installations
      BY <1>5 DEF InstallationStatus, TypeOK, HandlersOK, ReqOK, ReqType
    <3>2. owner[i] \in Users \cup {None}
      BY <3>1 DEF TypeOK
    <3>3. v \in ReqType /\ ReqOK(v)
      BY <3>1, <3>2 DEF ReqType, ReqPCs, ReqOK
    <3>4. req' = [req EXCEPT ![r] = v]
      BY <2>2
    <3> HIDE DEF v
    <3>5. QED
      BY <1>3, <3>3, <3>4
  <2>3. QED
    BY <1>5, <2>1, <2>2 DEF InstallationStatus
<1>6. ASSUME NEW r \in Requests, Entitlements(r) PROVE Goal
  <2> DEFINE i == req[r].inst
             v == [req[r] EXCEPT !.pc = "quota", !.limit = Limit(PlanOf(i))]
  <2>1. CASE Leave(r)
    BY <1>2, <2>1
  <2>2. CASE req' = [req EXCEPT ![r].pc = "quota", ![r].limit = Limit(PlanOf(i))]
    <3>1. req[r] \in ReqType /\ ReqOK(req[r]) /\ i \in Installations
      BY <1>6 DEF Entitlements, TypeOK, HandlersOK, ReqOK, ReqType
    <3>2. Limit(PlanOf(i)) \in Nat /\ Limit(PlanOf(i)) <= ProLimit
      BY <3>1, PlanLimit
    <3>3. v \in ReqType /\ ReqOK(v)
      BY <3>1, <3>2 DEF ReqType, ReqPCs, ReqOK
    <3>4. req' = [req EXCEPT ![r] = v]
      BY <2>2
    <3> HIDE DEF v
    <3>5. QED
      BY <1>3, <3>3, <3>4
  <2>3. QED
    BY <1>6, <2>1, <2>2 DEF Entitlements
<1>7. ASSUME NEW r \in Requests, MonthlyQuota(r) \/ AbortRequest(r) PROVE Goal
  BY <1>2, <1>7 DEF MonthlyQuota, AbortRequest
<1>8. \/ UNCHANGED req
      \/ \E r \in Requests, i \in Installations : Quota(r, i)
      \/ \E r \in Requests : RequestStep(r) \/ AbortRequest(r)
  BY DEF Next, InstallationAction, LinkStep, vars, Register, AdminRevokeInstallation,
     RevokeInstallation, InstallationToken, SetUserPlan, LinkInstallation,
     MarkInstallationUsageLinked, MergeInstallationIntoUser, AbortLink, NextDay,
     NextMonth
<1>9. Goal
  BY <1>1, <1>4, <1>5, <1>6, <1>7, <1>8 DEF RequestStep
<1>10. QED
  BY <1>9 DEF Goal

\* So do the link requests.
LEMMA LinksOK ==
  ASSUME TypeOK, HandlersOK, [Next]_vars
  PROVE  link' \in [Links -> LinkType] /\ \A l \in Links : LinkOK(link'[l])
<1> DEFINE Goal == /\ link' \in [Links -> LinkType]
                   /\ \A l \in Links : LinkOK(link'[l])
<1>1. ASSUME UNCHANGED link PROVE Goal
  BY <1>1 DEF TypeOK, HandlersOK, LinkType
<1>2. ASSUME NEW l \in Links, LeaveLink(l) PROVE Goal
  BY <1>2, LeaveLinkOK
<1>3. ASSUME NEW l \in Links, link[l].pc # "idle", NEW pc \in LinkPCs,
             link' = [link EXCEPT ![l].pc = pc]
      PROVE  Goal
  BY <1>3, LinkGoesOn
<1>4. ASSUME NEW l \in Links, NEW i \in Installations, NEW u \in Users,
             InstallationToken(l, i, u)
      PROVE  Goal
  <2> DEFINE v == [pc |-> "link", inst |-> i, user |-> u]
  <2>1. v \in LinkType /\ LinkOK(v)
    BY DEF LinkType, LinkPCs, LinkOK
  <2>2. link' = [link EXCEPT ![l] = v]
    BY <1>4 DEF InstallationToken
  <2> HIDE DEF v
  <2>3. QED
    BY <2>1, <2>2 DEF TypeOK, HandlersOK, LinkType
<1> HIDE DEF Goal
<1>5. ASSUME NEW l \in Links, LinkStep(l) \/ AbortLink(l) PROVE Goal
  <2>1. \/ LeaveLink(l)
        \/ /\ link[l].pc # "idle"
           /\ \E pc \in LinkPCs : link' = [link EXCEPT ![l].pc = pc]
    BY <1>5 DEF LinkStep, AbortLink, LinkInstallation, MarkInstallationUsageLinked,
       MergeInstallationIntoUser, LinkPCs
  <2>2. QED
    BY <1>2, <1>3, <2>1
<1>6. \/ UNCHANGED link
      \/ \E l \in Links, i \in Installations, u \in Users : InstallationToken(l, i, u)
      \/ \E l \in Links : LinkStep(l) \/ AbortLink(l)
  BY DEF Next, InstallationAction, RequestStep, vars, Register, AdminRevokeInstallation,
     RevokeInstallation, Quota, SetUserPlan, InstallationStatus, Entitlements,
     MonthlyQuota, AbortRequest, NextDay, NextMonth
<1>7. Goal
  BY <1>1, <1>4, <1>5, <1>6
<1>8. QED
  BY <1>7 DEF Goal

\* The rows, the plans and the clock keep their types.
LEMMA RowsOK ==
  ASSUME TypeOK, HandlersOK, [Next]_vars
  PROVE  /\ status' \in [Installations -> {"absent", "active", "revoked"}]
         /\ owner' \in [Installations -> Users \cup {None}]
         /\ usageLinked' \in [Installations -> BOOLEAN]
         /\ plan' \in [Users -> Plans]
         /\ month' \in Months
         /\ daily' \in [Installations -> 0..DailyLimit]
<1> USE DEF TypeOK
<1>1. ASSUME NEW i \in Installations, InstallationAction(i)
      PROVE  /\ status' \in [Installations -> {"absent", "active", "revoked"}]
             /\ daily' \in [Installations -> 0..DailyLimit]
             /\ UNCHANGED <<owner, usageLinked, plan, month>>
  <2>1. CASE \/ Register(i)
             \/ AdminRevokeInstallation(i)
             \/ \E u \in Users : RevokeInstallation(i, u)
    BY <2>1 DEF Register, AdminRevokeInstallation, RevokeInstallation, EnsureInstallation
  <2>2. ASSUME NEW r \in Requests, Quota(r, i)
        PROVE  /\ UNCHANGED <<status, owner, usageLinked, plan, month>>
               /\ daily' \in [Installations -> 0..DailyLimit]
    BY <2>2, LimitAssumption DEF Quota, DailyFits
  <2>3. ASSUME NEW l \in Links, NEW u \in Users, InstallationToken(l, i, u)
        PROVE  /\ status' \in [Installations -> {"absent", "active", "revoked"}]
               /\ UNCHANGED <<owner, usageLinked, plan, month, daily>>
    BY <2>3 DEF InstallationToken, EnsureInstallation
  <2>4. QED
    BY <1>1, <2>1, <2>2, <2>3 DEF InstallationAction
<1>2. ASSUME NEW u \in Users, NEW p \in Plans, SetUserPlan(u, p)
      PROVE  plan' \in [Users -> Plans] /\ UNCHANGED <<status, owner, usageLinked, month, daily>>
  BY <1>2 DEF SetUserPlan
<1>3. ASSUME NEW r \in Requests, RequestStep(r) \/ AbortRequest(r)
      PROVE  /\ status' \in [Installations -> {"absent", "active", "revoked"}]
             /\ UNCHANGED <<owner, usageLinked, plan, month, daily>>
  BY <1>3 DEF RequestStep, AbortRequest, InstallationStatus, EnsureInstallation,
              Entitlements, MonthlyQuota, storeVars
<1>4. ASSUME NEW l \in Links, LinkStep(l) \/ AbortLink(l)
      PROVE  /\ owner' \in [Installations -> Users \cup {None}]
             /\ usageLinked' \in [Installations -> BOOLEAN]
             /\ UNCHANGED <<status, plan, month, daily>>
  <2>1. link[l].pc # "idle" => link[l].inst \in Installations /\ link[l].user \in Users
    BY DEF HandlersOK, LinkOK
  <2>2. QED
    BY <1>4, <2>1 DEF LinkStep, AbortLink, LinkInstallation,
       MarkInstallationUsageLinked, MergeInstallationIntoUser, storeVars
<1>5. ASSUME NextDay \/ NextMonth
      PROVE  /\ daily' \in [Installations -> 0..DailyLimit]
             /\ month' \in Months
             /\ UNCHANGED <<status, owner, usageLinked, plan>>
  BY <1>5, LimitAssumption DEF NextDay, NextMonth, Months
<1>6. CASE UNCHANGED vars
  BY <1>6 DEF vars, storeVars
<1>7. QED
  BY <1>1, <1>2, <1>3, <1>4, <1>5, <1>6 DEF Next

\* Adding to one cell of a table of counters.
LEMMA AddToCell ==
  ASSUME NEW S, NEW f \in [S -> [Months -> Nat]], NEW s \in S, NEW m \in Months,
         NEW n \in Nat
  PROVE  /\ [f EXCEPT ![s][m] = @ + n] \in [S -> [Months -> Nat]]
         /\ \A x \in S, y \in Months :
              [f EXCEPT ![s][m] = @ + n][x][y] =
                IF x = s /\ y = m THEN f[x][y] + n ELSE f[x][y]
OBVIOUS

\* The only steps that touch a counter.
LEMMA CounterSteps ==
  ASSUME [Next]_vars
  PROVE  \/ \E r \in Requests : MonthlyQuota(r)
         \/ \E l \in Links : MergeInstallationIntoUser(l)
         \/ UNCHANGED <<used, migrated, granted, mergedIn, merges>>
BY DEF Next, InstallationAction, RequestStep, LinkStep, vars, storeVars, historyVars,
   Register, AdminRevokeInstallation, RevokeInstallation, Quota, InstallationToken,
   SetUserPlan, InstallationStatus, Entitlements, AbortRequest, LinkInstallation,
   MarkInstallationUsageLinked, AbortLink, NextDay, NextMonth

\* What one metered completion does to the counters of its subject.
LEMMA MeterEffect ==
  ASSUME TypeOK, HandlersOK, NEW r \in Requests, MonthlyQuota(r)
  PROVE  LET s == SubjectOf(req[r]) IN
         /\ s \in Subjects
         /\ UNCHANGED <<month, migrated, mergedIn, merges>>
         /\ \/ UNCHANGED <<used, granted>>
            \/ /\ used[s][month] < ProLimit
               /\ used' = [used EXCEPT ![s][month] = @ + 1]
               /\ \/ granted' = [granted EXCEPT ![s][month] = @ + 1]
                  \/ UNCHANGED granted
<1>1. /\ req[r].inst \in Installations
      /\ req[r].user \in Users \cup {None}
      /\ req[r].limit \in Nat /\ req[r].limit <= ProLimit
  BY DEF TypeOK, HandlersOK, ReqOK, MonthlyQuota
<1>2. SubjectOf(req[r]) \in Subjects
  BY <1>1 DEF SubjectOf, Subjects
<1>3. used[SubjectOf(req[r])][month] \in Nat
  BY <1>2 DEF TypeOK
<1>4. Fits(SubjectOf(req[r]), req[r].limit) => used[SubjectOf(req[r])][month] < ProLimit
  BY <1>1, <1>3, LimitAssumption DEF Fits
<1>5. QED
  BY <1>2, <1>4 DEF MonthlyQuota

\* The counters keep their types.
LEMMA CountersOK ==
  ASSUME TypeOK, HandlersOK, [Next]_vars
  PROVE  /\ used' \in [Subjects -> [Months -> Nat]]
         /\ migrated' \subseteq Installations \X Users \X Months
         /\ granted' \in [Subjects -> [Months -> Nat]]
         /\ mergedIn' \in [Users -> [Months -> Nat]]
         /\ merges' \in [Installations -> Nat]
<1> USE DEF TypeOK
<1>1. ASSUME NEW r \in Requests, MonthlyQuota(r)
      PROVE  /\ used' \in [Subjects -> [Months -> Nat]]
             /\ granted' \in [Subjects -> [Months -> Nat]]
             /\ UNCHANGED <<migrated, mergedIn, merges>>
  <2> DEFINE s == SubjectOf(req[r])
  <2>1. /\ s \in Subjects
        /\ UNCHANGED <<migrated, mergedIn, merges>>
        /\ \/ UNCHANGED <<used, granted>>
           \/ /\ used' = [used EXCEPT ![s][month] = @ + 1]
              /\ \/ granted' = [granted EXCEPT ![s][month] = @ + 1]
                 \/ UNCHANGED granted
    BY <1>1, MeterEffect
  <2> HIDE DEF s
  <2>2. month \in Months /\ 1 \in Nat
    OBVIOUS
  <2>3. [used EXCEPT ![s][month] = @ + 1] \in [Subjects -> [Months -> Nat]]
    BY <2>1, <2>2, AddToCell
  <2>4. [granted EXCEPT ![s][month] = @ + 1] \in [Subjects -> [Months -> Nat]]
    BY <2>1, <2>2, AddToCell
  <2>5. QED
    BY <2>1, <2>3, <2>4
<1>2. ASSUME NEW l \in Links, MergeInstallationIntoUser(l)
      PROVE  /\ used' \in [Subjects -> [Months -> Nat]]
             /\ migrated' \subseteq Installations \X Users \X Months
             /\ mergedIn' \in [Users -> [Months -> Nat]]
             /\ merges' \in [Installations -> Nat]
             /\ UNCHANGED granted
  <2>1. link[l].inst \in Installations /\ link[l].user \in Users
    BY <1>2 DEF MergeInstallationIntoUser, HandlersOK, LinkOK
  <2>2. used[link[l].inst][month] \in Nat
    BY <2>1 DEF Subjects
  <2> DEFINE i == link[l].inst
             u == link[l].user
  <2>3. \/ UNCHANGED <<used, migrated, mergedIn, merges>>
        \/ /\ used'     = [used EXCEPT ![u][month] = @ + used[i][month]]
           /\ mergedIn' = [mergedIn EXCEPT ![u][month] = @ + used[i][month]]
           /\ merges'   = [merges EXCEPT ![i] = @ + 1]
           /\ migrated' = migrated \cup {<<i, u, month>>}
    BY <1>2 DEF MergeInstallationIntoUser
  <2>4. UNCHANGED granted
    BY <1>2 DEF MergeInstallationIntoUser
  <2> HIDE DEF i, u
  <2>5. i \in Installations /\ u \in Users /\ u \in Subjects /\ used[i][month] \in Nat
    BY <2>1, <2>2 DEF i, u, Subjects
  <2>6. [used EXCEPT ![u][month] = @ + used[i][month]] \in [Subjects -> [Months -> Nat]]
    BY <2>5, AddToCell
  <2>7. [mergedIn EXCEPT ![u][month] = @ + used[i][month]] \in [Users -> [Months -> Nat]]
    BY <2>5, AddToCell
  <2>8. [merges EXCEPT ![i] = @ + 1] \in [Installations -> Nat]
    BY <2>5
  <2>9. migrated \cup {<<i, u, month>>} \subseteq Installations \X Users \X Months
    BY <2>5
  <2>10. QED
    BY <2>3, <2>4, <2>6, <2>7, <2>8, <2>9
<1>3. QED
  BY <1>1, <1>2, CounterSteps

LEMMA NextType ==
  ASSUME TypeOK, HandlersOK, [Next]_vars
  PROVE  TypeOK' /\ HandlersOK'
BY RequestsOK, LinksOK, RowsOK, CountersOK DEF TypeOK, HandlersOK, ReqType, LinkType

\* Every reachable state is well typed: whatever the interleaving, the daily
\* counter of an installation never passes its limit.
THEOREM TypeCorrect == Spec => []TypeOK
<1>1. Init => TypeOK /\ HandlersOK
  BY InitType
<1>2. TypeOK /\ HandlersOK /\ [Next]_vars => (TypeOK /\ HandlersOK)'
  BY NextType
<1>3. QED
  BY <1>1, <1>2, PTL DEF Spec

-----------------------------------------------------------------------------
(* Ownership.                                                              *)

\* A step changes at most the owner of one unowned installation.
LEMMA OwnerStep ==
  ASSUME TypeOK, HandlersOK, [Next]_vars
  PROVE  \/ UNCHANGED owner
         \/ \E l \in Links :
              /\ LinkInstallation(l)
              /\ Unclaimed(link[l].inst, link[l].user)
              /\ owner' = [owner EXCEPT ![link[l].inst] = link[l].user]
              /\ link' = [link EXCEPT ![l].pc = "mark"]
<1>1. \/ UNCHANGED owner
      \/ \E l \in Links : LinkInstallation(l)
  BY DEF Next, InstallationAction, RequestStep, LinkStep, vars, storeVars,
     Register, AdminRevokeInstallation, RevokeInstallation, Quota, InstallationToken,
     SetUserPlan, InstallationStatus, Entitlements, MonthlyQuota, AbortRequest,
     MarkInstallationUsageLinked, MergeInstallationIntoUser, AbortLink, NextDay, NextMonth
<1>2. QED
  BY <1>1 DEF LinkInstallation

\* An installation never passes from one account to another.
LEMMA OwnerKept ==
  ASSUME TypeOK, HandlersOK, [Next]_vars, NEW i \in Installations, owner[i] # None
  PROVE  owner'[i] = owner[i]
<1>1. CASE UNCHANGED owner
  BY <1>1
<1>2. ASSUME NEW l \in Links, Unclaimed(link[l].inst, link[l].user),
             owner' = [owner EXCEPT ![link[l].inst] = link[l].user]
      PROVE  owner'[i] = owner[i]
  BY <1>2 DEF Unclaimed, TypeOK
<1>3. QED
  BY <1>1, <1>2, OwnerStep

\* A request learns an owner only from the row, and forgets it when it ends.
LEMMA RequestUser ==
  ASSUME TypeOK, HandlersOK, [Next]_vars, NEW r \in Requests, req'[r].user # None
  PROVE  /\ req'[r].inst = req[r].inst
         /\ req[r].inst \in Installations
         /\ \/ req'[r].user = req[r].user
            \/ req'[r].user = owner[req[r].inst] /\ UNCHANGED owner
<1> DEFINE Goal == /\ req'[r].inst = req[r].inst
                   /\ req[r].inst \in Installations
                   /\ \/ req'[r].user = req[r].user
                      \/ req'[r].user = owner[req[r].inst] /\ UNCHANGED owner
<1>1. ASSUME UNCHANGED req[r] PROVE Goal
  BY <1>1 DEF HandlersOK, ReqOK
<1>2. ASSUME NEW q \in Requests, Leave(q) PROVE Goal
  <2>1. req'[r] = IF r = q THEN IdleReq ELSE req[r]
    BY <1>2, LeaveOK
  <2>2. r # q
    BY <2>1 DEF IdleReq
  <2>3. QED
    BY <1>1, <2>1, <2>2
<1>3. ASSUME NEW q \in Requests, NEW i \in Installations, Quota(q, i) PROVE Goal
  <2>1. req'[q].user = None /\ \A p \in Requests : p # q => req'[p] = req[p]
    BY <1>3 DEF Quota, TypeOK
  <2>2. QED
    BY <1>1, <2>1
<1>4. ASSUME NEW q \in Requests, InstallationStatus(q) PROVE Goal
  <2>1. CASE Leave(q)
    BY <1>2, <2>1
  <2>2. CASE req' = [req EXCEPT ![q].pc = "entitlements",
                                ![q].user = owner[req[q].inst]]
    <3>1. req[q].inst \in Installations /\ UNCHANGED owner
      BY <1>4 DEF InstallationStatus, HandlersOK, ReqOK
    <3>2. /\ req'[q].inst = req[q].inst
          /\ req'[q].user = owner[req[q].inst]
          /\ \A p \in Requests : p # q => req'[p] = req[p]
      BY <2>2 DEF TypeOK
    <3>3. QED
      BY <1>1, <3>1, <3>2
  <2>3. QED
    BY <1>4, <2>1, <2>2 DEF InstallationStatus
<1>5. ASSUME NEW q \in Requests, Entitlements(q) PROVE Goal
  <2>1. CASE Leave(q)
    BY <1>2, <2>1
  <2>2. CASE req' = [req EXCEPT ![q].pc = "quota",
                                ![q].limit = Limit(PlanOf(req[q].inst))]
    <3>1. /\ req'[q].inst = req[q].inst /\ req'[q].user = req[q].user
          /\ \A p \in Requests : p # q => req'[p] = req[p]
      BY <2>2 DEF TypeOK
    <3>2. req[q].inst \in Installations
      BY <1>5 DEF Entitlements, HandlersOK, ReqOK
    <3>3. QED
      BY <1>1, <3>1, <3>2
  <2>3. QED
    BY <1>5, <2>1, <2>2 DEF Entitlements
<1>6. ASSUME NEW q \in Requests, MonthlyQuota(q) \/ AbortRequest(q) PROVE Goal
  BY <1>2, <1>6 DEF MonthlyQuota, AbortRequest
<1>7. \/ UNCHANGED req
      \/ \E q \in Requests, i \in Installations : Quota(q, i)
      \/ \E q \in Requests : RequestStep(q) \/ AbortRequest(q)
  BY DEF Next, InstallationAction, LinkStep, vars, Register, AdminRevokeInstallation,
     RevokeInstallation, InstallationToken, SetUserPlan, LinkInstallation,
     MarkInstallationUsageLinked, MergeInstallationIntoUser, AbortLink, NextDay,
     NextMonth
<1> HIDE DEF Goal
<1>8. Goal
  BY <1>1, <1>3, <1>4, <1>5, <1>6, <1>7 DEF RequestStep
<1>9. QED
  BY <1>8 DEF Goal

\* How the program counter of a link request may get past the transaction.
LEMMA LinkAdvance ==
  ASSUME TypeOK, HandlersOK, [Next]_vars, NEW l \in Links,
         link'[l].pc \in {"mark", "merge"}
  PROVE  /\ link'[l].inst = link[l].inst
         /\ link'[l].user = link[l].user
         /\ link[l].inst \in Installations
         /\ link[l].user \in Users
         /\ \/ link'[l].pc = link[l].pc
            \/ LinkInstallation(l) /\ owner'[link[l].inst] = link[l].user
               /\ link'[l].pc = "mark"
            \/ MarkInstallationUsageLinked(l) /\ link'[l].pc = "merge"
               /\ Unmarked(link[l].inst)
               /\ link[l].pc = "mark"
               /\ usageLinked' = [usageLinked EXCEPT ![link[l].inst] = TRUE]
<1> DEFINE Goal ==
      /\ link'[l].inst = link[l].inst
      /\ link'[l].user = link[l].user
      /\ link[l].inst \in Installations
      /\ link[l].user \in Users
      /\ \/ link'[l].pc = link[l].pc
         \/ LinkInstallation(l) /\ owner'[link[l].inst] = link[l].user
            /\ link'[l].pc = "mark"
         \/ MarkInstallationUsageLinked(l) /\ link'[l].pc = "merge"
            /\ Unmarked(link[l].inst)
            /\ link[l].pc = "mark"
            /\ usageLinked' = [usageLinked EXCEPT ![link[l].inst] = TRUE]
<1>1. ASSUME UNCHANGED link[l] PROVE Goal
  BY <1>1 DEF HandlersOK, LinkOK
<1>2. ASSUME NEW k \in Links, LeaveLink(k) PROVE Goal
  <2>1. link'[l] = IF l = k THEN IdleLink ELSE link[l]
    BY <1>2, LeaveLinkOK
  <2>2. l # k
    BY <2>1 DEF IdleLink
  <2>3. QED
    BY <1>1, <2>1, <2>2
<1>3. ASSUME NEW k \in Links, NEW i \in Installations, NEW u \in Users,
             InstallationToken(k, i, u)
      PROVE  Goal
  <2>1. link'[k].pc = "link" /\ \A j \in Links : j # k => link'[j] = link[j]
    BY <1>3 DEF InstallationToken, TypeOK
  <2>2. QED
    BY <1>1, <2>1
<1>4. ASSUME NEW k \in Links, LinkInstallation(k) PROVE Goal
  <2>1. CASE LeaveLink(k)
    BY <1>2, <2>1
  <2>2. CASE /\ link' = [link EXCEPT ![k].pc = "mark"]
             /\ owner' = [owner EXCEPT ![link[k].inst] = link[k].user]
    <3>1. link[k].pc # "idle" /\ link[k].inst \in Installations /\ link[k].user \in Users
      BY <1>4 DEF LinkInstallation, HandlersOK, LinkOK
    <3>2. /\ link'[l].inst = link[l].inst /\ link'[l].user = link[l].user
          /\ link'[l].pc = IF l = k THEN "mark" ELSE link[l].pc
      BY <2>2, <3>1, LinkGoesOn DEF LinkPCs
    <3>3. owner'[link[k].inst] = link[k].user
      BY <2>2, <3>1 DEF TypeOK
    <3>4. link[l].pc # "idle" => link[l].inst \in Installations /\ link[l].user \in Users
      BY DEF HandlersOK, LinkOK
    <3>5. QED
      BY <1>4, <3>1, <3>2, <3>3, <3>4
  <2>3. QED
    BY <1>4, <2>1, <2>2 DEF LinkInstallation
<1>5. ASSUME NEW k \in Links, MarkInstallationUsageLinked(k) PROVE Goal
  <2>1. CASE LeaveLink(k)
    BY <1>2, <2>1
  <2>2. CASE /\ link' = [link EXCEPT ![k].pc = "merge"]
             /\ Unmarked(link[k].inst)
             /\ usageLinked' = [usageLinked EXCEPT ![link[k].inst] = TRUE]
    <3>1. link[k].pc = "mark" /\ link[k].inst \in Installations /\ link[k].user \in Users
      BY <1>5 DEF MarkInstallationUsageLinked, HandlersOK, LinkOK
    <3>2. /\ link'[l].inst = link[l].inst /\ link'[l].user = link[l].user
          /\ link'[l].pc = IF l = k THEN "merge" ELSE link[l].pc
      BY <2>2, <3>1, LinkGoesOn DEF LinkPCs
    <3>3. link[l].pc # "idle" => link[l].inst \in Installations /\ link[l].user \in Users
      BY DEF HandlersOK, LinkOK
    <3>4. QED
      BY <1>5, <2>2, <3>1, <3>2, <3>3
  <2>3. QED
    BY <1>5, <2>1, <2>2 DEF MarkInstallationUsageLinked
<1>6. ASSUME NEW k \in Links, MergeInstallationIntoUser(k) \/ AbortLink(k) PROVE Goal
  BY <1>2, <1>6 DEF MergeInstallationIntoUser, AbortLink
<1>7. \/ UNCHANGED link
      \/ \E k \in Links, i \in Installations, u \in Users : InstallationToken(k, i, u)
      \/ \E k \in Links : LinkStep(k) \/ AbortLink(k)
  BY DEF Next, InstallationAction, RequestStep, vars, Register, AdminRevokeInstallation,
     RevokeInstallation, Quota, SetUserPlan, InstallationStatus, Entitlements,
     MonthlyQuota, AbortRequest, NextDay, NextMonth
<1> HIDE DEF Goal
<1>8. Goal
  BY <1>1, <1>3, <1>4, <1>5, <1>6, <1>7 DEF LinkStep
<1>9. QED
  BY <1>8 DEF Goal

LEMMA NextChargesOwner ==
  ASSUME TypeOK, HandlersOK, ChargesOwner, [Next]_vars
  PROVE  ChargesOwner'
<1>1. ASSUME NEW r \in Requests, req'[r].user # None
      PROVE  owner'[req'[r].inst] = req'[r].user
  <2>1. req'[r].inst = req[r].inst /\ req[r].inst \in Installations
    BY <1>1, RequestUser
  <2>2. CASE req'[r].user = req[r].user
    <3>1. owner[req[r].inst] = req[r].user
      BY <1>1, <2>2 DEF ChargesOwner
    <3>2. QED
      BY <1>1, <2>1, <2>2, <3>1, OwnerKept
  <2>3. CASE req'[r].user = owner[req[r].inst] /\ UNCHANGED owner
    BY <2>1, <2>3
  <2>4. QED
    BY <1>1, <2>2, <2>3, RequestUser
<1>2. ASSUME NEW l \in Links, link'[l].pc \in {"mark", "merge"}
      PROVE  owner'[link'[l].inst] = link'[l].user
  <2>1. /\ link'[l].inst = link[l].inst /\ link'[l].user = link[l].user
        /\ link[l].inst \in Installations /\ link[l].user \in Users
    BY <1>2, LinkAdvance
  <2>2. CASE owner'[link[l].inst] = link[l].user
    BY <2>1, <2>2
  <2>3. CASE link[l].pc \in {"mark", "merge"}
    <3>1. owner[link[l].inst] = link[l].user /\ link[l].user # None
      BY <2>1, <2>3, SubjectAssumption DEF ChargesOwner
    <3>2. QED
      BY <2>1, <3>1, OwnerKept
  <2>4. QED
    BY <1>2, <2>2, <2>3, LinkAdvance
<1>3. QED
  BY <1>1, <1>2 DEF ChargesOwner

-----------------------------------------------------------------------------
(* Merging at most once.                                                   *)

LEMMA MergesStep ==
  ASSUME TypeOK, HandlersOK, [Next]_vars
  PROVE  \/ UNCHANGED merges
         \/ \E l \in Links :
              /\ link[l].pc = "merge"
              /\ LeaveLink(l)
              /\ link[l].inst \in Installations
              /\ merges' = [merges EXCEPT ![link[l].inst] = @ + 1]
<1>1. ASSUME NEW r \in Requests, MonthlyQuota(r) PROVE UNCHANGED merges
  BY <1>1 DEF MonthlyQuota
<1>2. ASSUME NEW l \in Links, MergeInstallationIntoUser(l)
      PROVE  /\ link[l].pc = "merge" /\ LeaveLink(l)
             /\ link[l].inst \in Installations
             /\ \/ UNCHANGED merges
                \/ merges' = [merges EXCEPT ![link[l].inst] = @ + 1]
  BY <1>2 DEF MergeInstallationIntoUser, HandlersOK, LinkOK
<1>3. QED
  BY <1>1, <1>2, CounterSteps

LEMMA MarkerKept ==
  ASSUME TypeOK, HandlersOK, [Next]_vars, NEW i \in Installations, usageLinked[i]
  PROVE  usageLinked'[i]
<1>1. \/ UNCHANGED usageLinked
      \/ \E l \in Links : MarkInstallationUsageLinked(l)
  BY DEF Next, InstallationAction, RequestStep, LinkStep, vars, storeVars,
     Register, AdminRevokeInstallation, RevokeInstallation, Quota, InstallationToken,
     SetUserPlan, InstallationStatus, Entitlements, MonthlyQuota, AbortRequest,
     LinkInstallation, MergeInstallationIntoUser, AbortLink, NextDay, NextMonth
<1>2. ASSUME NEW l \in Links, MarkInstallationUsageLinked(l)
      PROVE  usageLinked'[i]
  BY <1>2 DEF MarkInstallationUsageLinked, TypeOK
<1>3. QED
  BY <1>1, <1>2

\* Only the request that found the row unmarked gets the right to merge.
LEMMA NewToken ==
  ASSUME TypeOK, HandlersOK, MergeToken, [Next]_vars,
         NEW l \in Links, link'[l].pc = "merge", link[l].pc # "merge"
  PROVE  /\ link'[l].inst = link[l].inst /\ link[l].inst \in Installations
         /\ ~usageLinked[link[l].inst] /\ usageLinked'[link[l].inst]
         /\ UNCHANGED merges
         /\ \A k \in Links : k # l => link'[k] = link[k]
<1>1. /\ link'[l].inst = link[l].inst /\ link[l].inst \in Installations
      /\ MarkInstallationUsageLinked(l)
      /\ Unmarked(link[l].inst)
      /\ usageLinked' = [usageLinked EXCEPT ![link[l].inst] = TRUE]
  BY LinkAdvance
<1>2. ~usageLinked[link[l].inst] /\ usageLinked'[link[l].inst]
  BY <1>1 DEF Unmarked, TypeOK
<1>3. UNCHANGED merges
  BY <1>1 DEF MarkInstallationUsageLinked, historyVars
<1>4. \A k \in Links : k # l => link'[k] = link[k]
  BY <1>1 DEF MarkInstallationUsageLinked, LeaveLink, TypeOK
<1>5. QED
  BY <1>1, <1>2, <1>3, <1>4

\* A link request that keeps the right keeps its installation.
LEMMA OldToken ==
  ASSUME TypeOK, HandlersOK, [Next]_vars,
         NEW l \in Links, link'[l].pc = "merge"
  PROVE  link'[l].inst = link[l].inst /\ link[l].inst \in Installations
BY LinkAdvance

LEMMA NextMergeToken ==
  ASSUME TypeOK, HandlersOK, MergeToken, [Next]_vars
  PROVE  MergeToken'
<1>1. ASSUME NEW l \in Links, link'[l].pc = "merge"
      PROVE  usageLinked'[link'[l].inst] /\ merges'[link'[l].inst] = 0
  <2>1. link'[l].inst = link[l].inst /\ link[l].inst \in Installations
    BY <1>1, OldToken
  <2>2. CASE link[l].pc = "merge"
    <3>1. usageLinked[link[l].inst] /\ merges[link[l].inst] = 0
      BY <2>2 DEF MergeToken
    <3>2. ASSUME NEW k \in Links, link[k].pc = "merge", LeaveLink(k),
                 link[k].inst \in Installations,
                 merges' = [merges EXCEPT ![link[k].inst] = @ + 1]
          PROVE  merges'[link[l].inst] = 0
      <4>1. link'[k] = IdleLink
        BY <3>2, LeaveLinkOK
      <4>2. k # l
        BY <1>1, <4>1 DEF IdleLink
      <4>3. link[k].inst # link[l].inst
        BY <2>2, <3>2, <4>2 DEF MergeToken
      <4>4. QED
        BY <2>1, <3>1, <3>2, <4>3 DEF TypeOK
    <3>3. merges'[link[l].inst] = 0
      BY <3>1, <3>2, MergesStep
    <3>4. QED
      BY <2>1, <3>1, <3>3, MarkerKept
  <2>3. CASE link[l].pc # "merge"
    <3>1. /\ ~usageLinked[link[l].inst] /\ usageLinked'[link[l].inst]
          /\ UNCHANGED merges
      BY <1>1, <2>3, NewToken
    <3>2. merges[link[l].inst] = 0
      BY <2>1, <3>1 DEF MergeToken, TypeOK
    <3>3. QED
      BY <2>1, <3>1, <3>2
  <2>4. QED
    BY <2>2, <2>3
<1>2. ASSUME NEW k \in Links, NEW l \in Links, link'[k].pc = "merge",
             link'[l].pc = "merge", link'[k].inst = link'[l].inst, k # l
      PROVE  FALSE
  <2>1. link'[k].inst = link[k].inst /\ link'[l].inst = link[l].inst
    BY <1>2, OldToken
  <2>2. CASE link[k].pc = "merge" /\ link[l].pc = "merge"
    BY <1>2, <2>1, <2>2 DEF MergeToken
  <2>3. CASE link[k].pc # "merge"
    <3>1. ~usageLinked[link[k].inst] /\ link'[l] = link[l]
      BY <1>2, <2>3, NewToken
    <3>2. usageLinked[link[l].inst]
      BY <1>2, <3>1 DEF MergeToken
    <3>3. QED
      BY <1>2, <2>1, <3>1, <3>2
  <2>4. CASE link[l].pc # "merge"
    <3>1. ~usageLinked[link[l].inst] /\ link'[k] = link[k]
      BY <1>2, <2>4, NewToken
    <3>2. usageLinked[link[k].inst]
      BY <1>2, <3>1 DEF MergeToken
    <3>3. QED
      BY <1>2, <2>1, <3>1, <3>2
  <2>5. QED
    BY <2>2, <2>3, <2>4
<1>3. ASSUME NEW i \in Installations, merges'[i] > 0
      PROVE  usageLinked'[i]
  <2>1. CASE UNCHANGED merges
    BY <1>3, <2>1, MarkerKept DEF MergeToken
  <2>2. ASSUME NEW k \in Links, link[k].pc = "merge", link[k].inst \in Installations,
               merges' = [merges EXCEPT ![link[k].inst] = @ + 1]
        PROVE  usageLinked'[i]
    <3>1. CASE i = link[k].inst
      BY <2>2, <3>1, MarkerKept DEF MergeToken
    <3>2. CASE i # link[k].inst
      <4>1. merges'[i] = merges[i]
        BY <2>2, <3>2 DEF TypeOK
      <4>2. QED
        BY <1>3, <4>1, MarkerKept DEF MergeToken
    <3>3. QED
      BY <3>1, <3>2
  <2>3. QED
    BY <2>1, <2>2, MergesStep
<1>4. QED
  BY <1>1, <1>2, <1>3 DEF MergeToken

LEMMA NextMergedAtMostOnce ==
  ASSUME TypeOK, HandlersOK, MergeToken, MergedAtMostOnce, [Next]_vars
  PROVE  MergedAtMostOnce'
<1>1. CASE UNCHANGED merges
  BY <1>1 DEF MergedAtMostOnce
<1>2. ASSUME NEW l \in Links, link[l].pc = "merge", link[l].inst \in Installations,
             merges' = [merges EXCEPT ![link[l].inst] = @ + 1]
      PROVE  MergedAtMostOnce'
  <2>1. merges[link[l].inst] = 0
    BY <1>2 DEF MergeToken
  <2>2. QED
    BY <1>2, <2>1 DEF MergedAtMostOnce, TypeOK
<1>3. QED
  BY <1>1, <1>2, MergesStep

-----------------------------------------------------------------------------
(* The balance of an account.                                              *)

LEMMA NextLedgerBalance ==
  ASSUME TypeOK, HandlersOK, LedgerBalance, [Next]_vars
  PROVE  LedgerBalance'
<1>1. CASE UNCHANGED <<used, granted, mergedIn>>
  BY <1>1 DEF LedgerBalance
<1>2. ASSUME NEW r \in Requests, MonthlyQuota(r) PROVE LedgerBalance'
  <2> DEFINE s == SubjectOf(req[r])
  <2>1. /\ s \in Subjects
        /\ UNCHANGED mergedIn
        /\ \/ UNCHANGED <<used, granted>>
           \/ /\ used[s][month] < ProLimit
              /\ used' = [used EXCEPT ![s][month] = @ + 1]
              /\ \/ granted' = [granted EXCEPT ![s][month] = @ + 1]
                 \/ UNCHANGED granted
    BY <1>2, MeterEffect
  <2> HIDE DEF s
  <2>2. CASE UNCHANGED <<used, granted>>
    BY <1>1, <2>1, <2>2
  <2>3. CASE /\ used[s][month] < ProLimit
             /\ used' = [used EXCEPT ![s][month] = @ + 1]
             /\ \/ granted' = [granted EXCEPT ![s][month] = @ + 1]
                \/ UNCHANGED granted
    <3> SUFFICES ASSUME NEW u \in Users, NEW m \in Months
                 PROVE  /\ granted'[u][m] + mergedIn'[u][m] <= used'[u][m]
                        /\ used'[u][m] <= ProLimit + mergedIn'[u][m]
      BY DEF LedgerBalance
    <3>1. /\ used[u][m] \in Nat /\ granted[u][m] \in Nat /\ mergedIn[u][m] \in Nat
          /\ ProLimit \in Nat /\ month \in Months /\ u \in Subjects
      BY LimitAssumption DEF TypeOK, Subjects
    <3>2. used'[u][m] = IF u = s /\ m = month THEN used[u][m] + 1 ELSE used[u][m]
      BY <2>1, <2>3, <3>1, AddToCell DEF TypeOK
    <3>3. \/ granted'[u][m] = granted[u][m]
          \/ granted'[u][m] = IF u = s /\ m = month THEN granted[u][m] + 1 ELSE granted[u][m]
      BY <2>1, <2>3, <3>1, AddToCell DEF TypeOK
    <3>4. /\ granted[u][m] + mergedIn[u][m] <= used[u][m]
          /\ used[u][m] <= ProLimit + mergedIn[u][m]
          /\ mergedIn'[u][m] = mergedIn[u][m]
      BY <2>1 DEF LedgerBalance
    <3>5. QED
      BY <2>3, <3>1, <3>2, <3>3, <3>4
  <2>4. QED
    BY <2>1, <2>2, <2>3
<1>3. ASSUME NEW l \in Links, MergeInstallationIntoUser(l) PROVE LedgerBalance'
  <2> DEFINE i == link[l].inst
             v == link[l].user
  <2>1. /\ UNCHANGED granted
        /\ \/ UNCHANGED <<used, mergedIn>>
           \/ /\ used'     = [used EXCEPT ![v][month] = @ + used[i][month]]
              /\ mergedIn' = [mergedIn EXCEPT ![v][month] = @ + used[i][month]]
    BY <1>3 DEF MergeInstallationIntoUser
  <2>2. i \in Subjects /\ v \in Users /\ v \in Subjects
    BY <1>3 DEF MergeInstallationIntoUser, HandlersOK, LinkOK, Subjects
  <2> HIDE DEF i, v
  <2>3. CASE UNCHANGED <<used, mergedIn>>
    BY <1>1, <2>1, <2>3
  <2>4. CASE /\ used'     = [used EXCEPT ![v][month] = @ + used[i][month]]
             /\ mergedIn' = [mergedIn EXCEPT ![v][month] = @ + used[i][month]]
    <3> SUFFICES ASSUME NEW u \in Users, NEW m \in Months
                 PROVE  /\ granted'[u][m] + mergedIn'[u][m] <= used'[u][m]
                        /\ used'[u][m] <= ProLimit + mergedIn'[u][m]
      BY DEF LedgerBalance
    <3>1. /\ used[u][m] \in Nat /\ granted[u][m] \in Nat /\ mergedIn[u][m] \in Nat
          /\ ProLimit \in Nat /\ month \in Months /\ u \in Subjects
          /\ used[i][month] \in Nat
      BY <2>2, LimitAssumption DEF TypeOK, Subjects
    <3>2. used'[u][m] =
            IF u = v /\ m = month THEN used[u][m] + used[i][month] ELSE used[u][m]
      BY <2>2, <2>4, <3>1, AddToCell DEF TypeOK
    <3>3. mergedIn'[u][m] =
            IF u = v /\ m = month THEN mergedIn[u][m] + used[i][month] ELSE mergedIn[u][m]
      BY <2>2, <2>4, <3>1, AddToCell DEF TypeOK
    <3>4. /\ granted[u][m] + mergedIn[u][m] <= used[u][m]
          /\ used[u][m] <= ProLimit + mergedIn[u][m]
          /\ granted'[u][m] = granted[u][m]
      BY <2>1 DEF LedgerBalance
    <3>5. QED
      BY <3>1, <3>2, <3>3, <3>4
  <2>5. QED
    BY <2>1, <2>3, <2>4
<1>4. QED
  BY <1>1, <1>2, <1>3, CounterSteps

-----------------------------------------------------------------------------
(* The invariant, and what follows from it.                                *)

IInv == /\ TypeOK /\ HandlersOK
        /\ ChargesOwner
        /\ MergeToken /\ MergedAtMostOnce
        /\ LedgerBalance

LEMMA InitIInv == Init => IInv
<1> SUFFICES ASSUME Init PROVE IInv
  OBVIOUS
<1>1. TypeOK /\ HandlersOK
  BY InitType
<1>2. ChargesOwner /\ MergeToken /\ MergedAtMostOnce
  BY DEF Init, ChargesOwner, MergeToken, MergedAtMostOnce, IdleReq, IdleLink
<1>3. LedgerBalance
  BY LimitAssumption DEF Init, LedgerBalance, Subjects
<1>4. QED
  BY <1>1, <1>2, <1>3 DEF IInv

LEMMA NextIInv == IInv /\ [Next]_vars => IInv'
BY NextType, NextChargesOwner, NextMergeToken, NextMergedAtMostOnce,
   NextLedgerBalance
DEF IInv

LEMMA Invariance == Spec => []IInv
BY InitIInv, NextIInv, PTL DEF Spec

\* No interleaving, failure or month change lets an account be charged for an
\* installation that is not its own, nor an installation's usage be merged
\* into a foreign account.
THEOREM ChargesOwnerHolds == Spec => []ChargesOwner
BY Invariance, PTL DEF IInv

\* The anonymous usage of an installation is added to an account at most once,
\* whatever link requests race and wherever they stop.
THEOREM MergedAtMostOnceHolds == Spec => []MergedAtMostOnce
BY Invariance, PTL DEF IInv

\* Every granted completion and every merge is in the balance, and the balance
\* exceeds the largest plan only by what was merged.
THEOREM LedgerBalanceHolds == Spec => []LedgerBalance
BY Invariance, PTL DEF IInv

-----------------------------------------------------------------------------
(* A server that requires accounts.                                        *)

\* A request past the account check has seen an owner.
Accounted ==
  AccountRequired =>
    \A r \in Requests :
      req[r].pc \in {"entitlements", "quota"} => req[r].user # None

LEMMA NextAccounted ==
  ASSUME TypeOK, HandlersOK, Accounted, [Next]_vars
  PROVE  Accounted'
<1> SUFFICES ASSUME AccountRequired, NEW r \in Requests,
                    req'[r].pc \in {"entitlements", "quota"}
             PROVE  req'[r].user # None
  BY DEF Accounted
<1> DEFINE Goal == req'[r].user # None
<1>1. ASSUME req'[r] = req[r] PROVE Goal
  BY <1>1 DEF Accounted
<1>2. ASSUME NEW q \in Requests, Leave(q) PROVE Goal
  <2>1. req'[r] = IF r = q THEN IdleReq ELSE req[r]
    BY <1>2, LeaveOK
  <2>2. QED
    BY <1>1, <2>1 DEF IdleReq
<1>3. ASSUME NEW q \in Requests, NEW i \in Installations, Quota(q, i) PROVE Goal
  <2>1. req'[q].pc = "status" /\ \A p \in Requests : p # q => req'[p] = req[p]
    BY <1>3 DEF Quota, TypeOK
  <2>2. QED
    BY <1>1, <2>1
<1>4. ASSUME NEW q \in Requests, InstallationStatus(q) PROVE Goal
  <2>1. CASE Leave(q)
    BY <1>2, <2>1
  <2>2. CASE /\ RequireLinkedAccount(req[q].inst)
             /\ req' = [req EXCEPT ![q].pc = "entitlements",
                                   ![q].user = owner[req[q].inst]]
    <3>1. /\ req'[q].user = owner[req[q].inst]
          /\ \A p \in Requests : p # q => req'[p] = req[p]
      BY <2>2 DEF TypeOK
    <3>2. owner[req[q].inst] # None
      BY <2>2 DEF RequireLinkedAccount
    <3>3. QED
      BY <1>1, <3>1, <3>2
  <2>3. QED
    BY <1>4, <2>1, <2>2 DEF InstallationStatus
<1>5. ASSUME NEW q \in Requests, Entitlements(q) PROVE Goal
  <2>1. CASE Leave(q)
    BY <1>2, <2>1
  <2>2. CASE req' = [req EXCEPT ![q].pc = "quota",
                                ![q].limit = Limit(PlanOf(req[q].inst))]
    <3>1. /\ req'[q].user = req[q].user
          /\ \A p \in Requests : p # q => req'[p] = req[p]
      BY <2>2 DEF TypeOK
    <3>2. req[q].user # None
      BY <1>5 DEF Entitlements, Accounted
    <3>3. QED
      BY <1>1, <3>1, <3>2
  <2>3. QED
    BY <1>5, <2>1, <2>2 DEF Entitlements
<1>6. ASSUME NEW q \in Requests, MonthlyQuota(q) \/ AbortRequest(q) PROVE Goal
  BY <1>2, <1>6 DEF MonthlyQuota, AbortRequest
<1>7. \/ UNCHANGED req
      \/ \E q \in Requests, i \in Installations : Quota(q, i)
      \/ \E q \in Requests : RequestStep(q) \/ AbortRequest(q)
  BY DEF Next, InstallationAction, LinkStep, vars, Register, AdminRevokeInstallation,
     RevokeInstallation, InstallationToken, SetUserPlan, LinkInstallation,
     MarkInstallationUsageLinked, MergeInstallationIntoUser, AbortLink, NextDay,
     NextMonth
<1> HIDE DEF Goal
<1>8. Goal
  BY <1>1, <1>3, <1>4, <1>5, <1>6, <1>7 DEF RequestStep
<1>9. QED
  BY <1>8 DEF Goal

LEMMA NextNoAnonymousUsage ==
  ASSUME TypeOK, HandlersOK, Accounted, NoAnonymousUsage, [Next]_vars
  PROVE  NoAnonymousUsage'
<1> SUFFICES ASSUME AccountRequired, NEW i \in Installations, NEW m \in Months
             PROVE  used'[i][m] = 0
  BY DEF NoAnonymousUsage
<1>1. used[i][m] = 0 /\ i \in Subjects /\ i \notin Users /\ month \in Months
      /\ used \in [Subjects -> [Months -> Nat]]
  BY SubjectAssumption DEF NoAnonymousUsage, Subjects, TypeOK
<1>2. ASSUME NEW r \in Requests, MonthlyQuota(r) PROVE used'[i][m] = 0
  <2> DEFINE s == SubjectOf(req[r])
  <2>1. \/ UNCHANGED used
        \/ used' = [used EXCEPT ![s][month] = @ + 1]
    BY <1>2, MeterEffect
  <2>2. req[r].user # None /\ req[r].user \in Users \cup {None}
    BY <1>2 DEF MonthlyQuota, Accounted, TypeOK
  <2>3. s \in Users /\ s \in Subjects
    BY <2>2 DEF SubjectOf, Subjects
  <2> HIDE DEF s
  <2>4. [used EXCEPT ![s][month] = @ + 1][i][m] = used[i][m]
    BY <1>1, <2>3, AddToCell
  <2>5. QED
    BY <1>1, <2>1, <2>4
<1>3. ASSUME NEW l \in Links, MergeInstallationIntoUser(l) PROVE used'[i][m] = 0
  <2> DEFINE j == link[l].inst
             u == link[l].user
  <2>1. \/ UNCHANGED used
        \/ used' = [used EXCEPT ![u][month] = @ + used[j][month]]
    BY <1>3 DEF MergeInstallationIntoUser
  <2>2. j \in Subjects /\ u \in Users /\ u \in Subjects
    BY <1>3 DEF MergeInstallationIntoUser, HandlersOK, LinkOK, Subjects
  <2> HIDE DEF j, u
  <2>3. used[j][month] \in Nat
    BY <1>1, <2>2
  <2>4. [used EXCEPT ![u][month] = @ + used[j][month]][i][m] = used[i][m]
    BY <1>1, <2>2, <2>3, AddToCell
  <2>5. QED
    BY <1>1, <2>1, <2>4
<1>4. QED
  BY <1>1, <1>2, <1>3, CounterSteps

\* When the server requires an account, nothing is ever counted against an
\* installation, even by requests that a link or a revocation overtakes.
THEOREM NoAnonymousUsageHolds == Spec => []NoAnonymousUsage
<1> DEFINE Inv == TypeOK /\ HandlersOK /\ Accounted /\ NoAnonymousUsage
<1>1. Init => Inv
  <2>1. Init => Accounted /\ NoAnonymousUsage
    BY DEF Init, IdleReq, Accounted, NoAnonymousUsage, Subjects
  <2>2. QED
    BY <2>1, InitType
<1>2. Inv /\ [Next]_vars => Inv'
  BY NextType, NextAccounted, NextNoAnonymousUsage
<1>3. QED
  BY <1>1, <1>2, PTL DEF Spec

-----------------------------------------------------------------------------
(* The ledger.                                                             *)

\* The steps that concern the ledger.
LEMMA LedgerSteps ==
  ASSUME [Next]_vars
  PROVE  \/ \E r \in Requests : MonthlyQuota(r)
         \/ \E l \in Links : MergeInstallationIntoUser(l)
         \/ \E l \in Links : LinkInstallation(l)
         \/ NextMonth
         \/ UNCHANGED <<owner, used, merges, month>>
BY DEF Next, InstallationAction, RequestStep, LinkStep, vars, storeVars, historyVars,
   Register, AdminRevokeInstallation, RevokeInstallation, Quota, InstallationToken,
   SetUserPlan, InstallationStatus, Entitlements, AbortRequest,
   MarkInstallationUsageLinked, AbortLink, NextDay

\* A metered completion is one charge to the present subject.
LEMMA MeterIsCharge ==
  ASSUME IInv, NEW r \in Requests, MonthlyQuota(r)
  PROVE  [Ledger!Next]_(Ledger!vars)
<1> DEFINE s == SubjectOf(req[r])
<1>1. s \in Subjects /\ UNCHANGED <<owner, month, merges>>
  BY MeterEffect DEF IInv, MonthlyQuota
<1>2. \/ UNCHANGED used
      \/ used[s][month] < ProLimit /\ used' = [used EXCEPT ![s][month] = @ + 1]
  BY MeterEffect DEF IInv
<1> HIDE DEF s
<1>3. CASE UNCHANGED used
  BY <1>1, <1>3 DEF Ledger!vars
<1>4. CASE used[s][month] < ProLimit /\ used' = [used EXCEPT ![s][month] = @ + 1]
  <2>1. Ledger!Charge(s)
    BY <1>1, <1>4 DEF Ledger!Charge
  <2>2. s \in Ledger!Subjects
    BY <1>1 DEF Subjects, Ledger!Subjects
  <2>3. QED
    BY <2>1, <2>2 DEF Ledger!Next
<1>5. QED
  BY <1>2, <1>3, <1>4

\* A merge credits the installation to its owner, the first time.
LEMMA MergeIsCredit ==
  ASSUME IInv, NEW l \in Links, MergeInstallationIntoUser(l)
  PROVE  [Ledger!Next]_(Ledger!vars)
<1>0. link[l].inst \in Installations /\ link[l].user \in Users /\ link[l].pc = "merge"
  BY DEF IInv, MergeInstallationIntoUser, HandlersOK, LinkOK
<1> PICK i \in Installations, u \in Users : i = link[l].inst /\ u = link[l].user
  BY <1>0
<1>1. owner[i] = u /\ u # None /\ merges[i] = 0
  BY <1>0, SubjectAssumption DEF IInv, ChargesOwner, MergeToken
<1>2. UNCHANGED <<owner, month>>
  BY DEF MergeInstallationIntoUser
<1>3. \/ UNCHANGED <<used, merges>>
      \/ /\ used' = [used EXCEPT ![u][month] = @ + used[i][month]]
         /\ merges' = [merges EXCEPT ![i] = @ + 1]
  BY DEF MergeInstallationIntoUser
<1>4. CASE UNCHANGED <<used, merges>>
  BY <1>2, <1>4 DEF Ledger!vars
<1>5. CASE /\ used' = [used EXCEPT ![u][month] = @ + used[i][month]]
           /\ merges' = [merges EXCEPT ![i] = @ + 1]
  <2> DEFINE old == {j \in Installations : merges[j] > 0}
             new == {j \in Installations : merges'[j] > 0}
  <2>1. merges \in [Installations -> Nat]
    BY DEF IInv, TypeOK
  <2>2. \A j \in Installations :
          merges'[j] = IF j = i THEN merges[j] + 1 ELSE merges[j]
    BY <1>5, <2>1
  <2>3. i \notin old
    BY <1>1
  <2>4. new = old \cup {i}
    BY <1>1, <2>1, <2>2
  <2>5. Ledger!Credit(i)
    BY <1>1, <1>2, <1>5, <2>3, <2>4 DEF Ledger!Credit
  <2>6. QED
    BY <2>5 DEF Ledger!Next
<1>6. QED
  BY <1>3, <1>4, <1>5

\* A link claims an installation without an owner; a repeated one does nothing.
LEMMA LinkIsClaim ==
  ASSUME IInv, NEW l \in Links, LinkInstallation(l)
  PROVE  [Ledger!Next]_(Ledger!vars)
<1> DEFINE i == link[l].inst
           u == link[l].user
<1>1. i \in Installations /\ u \in Users /\ owner \in [Installations -> Users \cup {None}]
  BY DEF IInv, LinkInstallation, HandlersOK, LinkOK, TypeOK
<1>2. UNCHANGED <<used, month, merges>>
  BY DEF LinkInstallation, historyVars
<1>3. \/ UNCHANGED owner
      \/ Unclaimed(i, u) /\ owner' = [owner EXCEPT ![i] = u]
  BY DEF LinkInstallation
<1> HIDE DEF i, u
<1>4. CASE UNCHANGED owner
  BY <1>2, <1>4 DEF Ledger!vars
<1>5. CASE owner[i] = u /\ owner' = [owner EXCEPT ![i] = u]
  <2>1. owner' = owner
    BY <1>1, <1>5
  <2>2. QED
    BY <1>4, <2>1
<1>6. CASE owner[i] = None /\ owner' = [owner EXCEPT ![i] = u]
  <2>1. Ledger!Claim(i, u)
    BY <1>2, <1>6 DEF Ledger!Claim
  <2>2. QED
    BY <1>1, <2>1 DEF Ledger!Next
<1>7. QED
  BY <1>3, <1>4, <1>5, <1>6 DEF Unclaimed

LEMMA NextLedger ==
  ASSUME IInv, [Next]_vars
  PROVE  [Ledger!Next]_(Ledger!vars)
<1>1. CASE NextMonth
  <2>1. Ledger!NextMonth
    BY <1>1 DEF NextMonth, historyVars, Ledger!NextMonth
  <2>2. QED
    BY <2>1 DEF Ledger!Next
<1>2. CASE UNCHANGED <<owner, used, merges, month>>
  BY <1>2 DEF Ledger!vars
<1>3. QED
  BY <1>1, <1>2, LedgerSteps, MeterIsCharge, MergeIsCredit, LinkIsClaim

LEMMA InitLedger == Init => Ledger!Init
BY DEF Init, Ledger!Init, Subjects, Months, Ledger!Subjects, Ledger!Months

\* The handlers, stores and failures of the account service implement the
\* ledger: every step is a claim, a charge, a credit, a new month, or nothing
\* as far as ownership, balances and credits are concerned.
THEOREM Refinement == Spec => ImplementsLedger
<1>1. IInv /\ [Next]_vars => [Ledger!Next]_(Ledger!vars)
  BY NextLedger
<1>2. QED
  BY <1>1, InitLedger, Invariance, PTL DEF Spec, ImplementsLedger, Ledger!Spec

=============================================================================
