---------------------------- MODULE ApiServerProofs ----------------------------
(***************************************************************************)
(* Machine-checked proofs about ApiServer, for every configuration that    *)
(* Load accepts, any routes, clients and number of requests, and whatever  *)
(* fails, recovers or is shut down under them.                             *)
(***************************************************************************)
EXTENDS ApiServer, TLAPS

-----------------------------------------------------------------------------
(* What the stages of a chain grant and check.                             *)

Stages == {"PublicRateLimit", "Auth", "UserAuth", "AdminAuth", "InstallationToken", "RateLimit",
           "Quota", "InstallationStatus", "RequireLinkedAccount", "Entitlements", "MonthlyQuota",
           "CheckRedis"}

\* The token without which a request does not pass the stage.
Grants(stage) ==
    CASE stage \in {"Auth", "InstallationToken"} -> {"installation"}
      [] stage = "UserAuth" -> {"user"}
      [] stage = "AdminAuth" -> {"admin"}
      [] OTHER -> {}

\* The store without which a request does not pass the stage.
Checks(stage) ==
    CASE stage \in {"RateLimit", "Quota", "MonthlyQuota"} -> settings \cap {"redis"}
      [] stage \in {"InstallationStatus", "Entitlements"} -> {"database"}
      [] stage = "CheckRedis" -> {"redis"}
      [] OTHER -> {}

Configured == settings \in Settings

-----------------------------------------------------------------------------
(* The chains.                                                             *)

LEMMA IfSeq ==
  ASSUME NEW flag, NEW stages \in Seq(Stages)
  PROVE  If(flag, stages) \in Seq(Stages)
BY DEF If

LEMMA AdmissionSeq == Admission \in Seq(Stages)
<1>1. /\ <<"Auth">> \in Seq(Stages) /\ <<"RateLimit">> \in Seq(Stages) /\ <<"Quota">> \in Seq(Stages)
      /\ <<"InstallationStatus", "RequireLinkedAccount", "Entitlements", "MonthlyQuota">> \in Seq(Stages)
  BY DEF Stages
<1>2. /\ If("limit", <<"RateLimit">>) \in Seq(Stages) /\ If("quota", <<"Quota">>) \in Seq(Stages)
      /\ If("database", <<"InstallationStatus", "RequireLinkedAccount", "Entitlements", "MonthlyQuota">>)
           \in Seq(Stages)
  BY <1>1, IfSeq
<1>3. QED
  BY <1>1, <1>2 DEF Admission

\* The order of the middlewares, and which of them a configuration has.
LEMMA AdmissionOrder ==
  /\ Len(Admission) >= 1 /\ Admission[1] = "Auth"
  /\ \A j \in 1..Len(Admission) :
       /\ Admission[j] \in {"Auth", "RateLimit", "Quota", "InstallationStatus",
                            "RequireLinkedAccount", "Entitlements", "MonthlyQuota"}
       /\ Admission[j] \in {"InstallationStatus", "Entitlements"} => On("database")
  /\ On("limit") => \E j \in 1..Len(Admission) : Admission[j] = "RateLimit"
  /\ On("quota") => \E j \in 1..Len(Admission) : Admission[j] = "Quota"
  /\ On("database") => /\ \E j \in 1..Len(Admission) : Admission[j] = "InstallationStatus"
                       /\ \E j \in 1..Len(Admission) : Admission[j] = "MonthlyQuota"
<1>1. Len(Admission) >= 1 /\ Admission[1] = "Auth"
  BY DEF Admission, If
<1>2. \A j \in 1..Len(Admission) :
        Admission[j] \in {"Auth", "RateLimit", "Quota", "InstallationStatus",
                          "RequireLinkedAccount", "Entitlements", "MonthlyQuota"}
  BY DEF Admission, If
<1>3. \A j \in 1..Len(Admission) :
        Admission[j] \in {"InstallationStatus", "Entitlements"} => On("database")
  BY DEF Admission, If
<1>4. On("limit") => Len(Admission) >= 2 /\ Admission[2] = "RateLimit"
  BY DEF Admission, If
<1>5. On("quota") => \/ Len(Admission) >= 2 /\ Admission[2] = "Quota"
                     \/ Len(Admission) >= 3 /\ Admission[3] = "Quota"
  BY DEF Admission, If
<1>6. On("database") => /\ Len(Admission) >= 5 /\ Admission[Len(Admission)] = "MonthlyQuota"
                        /\ Admission[Len(Admission) - 3] = "InstallationStatus"
  BY DEF Admission, If
<1>7. Len(Admission) \in Nat
  BY AdmissionSeq
<1>8. QED
  BY <1>1, <1>2, <1>3, <1>4, <1>5, <1>6, <1>7

\* What newRouter puts around a handler: no stage asks for more than the route demands
\* or the configuration has, no demand and no needed store is forgotten, and what needs
\* an identity comes after Auth.
ChainOK(route) ==
    /\ Chain(route) \in Seq(Stages)
    /\ \A j \in 1..Len(Chain(route)) :
         /\ Grants(Chain(route)[j]) \subseteq Demanded(route)
         /\ Checks(Chain(route)[j]) \subseteq settings
         /\ Chain(route)[j] \in {"RateLimit", "InstallationStatus"} =>
              \E i \in 1..(j - 1) : Chain(route)[i] = "Auth"
    /\ Mounted(route) => \A token \in Demanded(route) :
         \E j \in 1..Len(Chain(route)) : token \in Grants(Chain(route)[j])
    /\ Mounted(route) /\ route \in Metered => \A dep \in Needed :
         \E j \in 1..Len(Chain(route)) : dep \in Checks(Chain(route)[j])
    /\ route = "ready" /\ On("redis") =>
         \E j \in 1..Len(Chain(route)) : "redis" \in Checks(Chain(route)[j])

\* The kinds of routes have nothing in common.
Apart(route) ==
    /\ route \in AuthRoutes => route \notin UserRoutes \cup AdminRoutes \cup Metered \cup {"quality", "ready"}
    /\ route \in UserRoutes => route \notin AdminRoutes \cup Metered \cup {"quality", "ready"}
    /\ route \in AdminRoutes => route \notin Metered \cup {"quality", "ready"}
    /\ route \in Metered => route \notin {"quality", "ready"}

LEMMA ChainShape ==
  ASSUME NEW route
  PROVE  \/ /\ Chain(route) = <<>>
            /\ ~Mounted(route) \/ Demanded(route) = {}
            /\ route \in Metered => ~Mounted(route) \/ ~On("auth")
            /\ route = "ready" => ~On("redis")
         \/ /\ Chain(route) = <<"PublicRateLimit">>
            /\ ~Mounted(route) \/ route \in AuthRoutes
         \/ Chain(route) = <<"UserAuth">> /\ route \in UserRoutes \ {"link"}
         \/ Chain(route) = <<"UserAuth", "InstallationToken">> /\ route = "link"
         \/ Chain(route) = <<"AdminAuth">> /\ route \in AdminRoutes
         \/ /\ Chain(route) = <<"PublicRateLimit", "Auth", "InstallationStatus">>
            /\ route = "quality" /\ Mounted(route)
         \/ Chain(route) = Admission /\ route \in Metered /\ Mounted(route) /\ On("auth")
         \/ Chain(route) = <<"CheckRedis">> /\ route = "ready" /\ On("redis")
<1>1. Apart(route)
  BY DEF Apart, AuthRoutes, UserRoutes, AdminRoutes, Metered
<1>2. Mounted("ready") /\ "ready" \notin Metered
  BY DEF Mounted, AuthRoutes, UserRoutes, AdminRoutes, Metered
<1>3. CASE ~Mounted(route) \/ route \in AuthRoutes
  <2>1. Chain(route) = If("database", <<"PublicRateLimit">>)
    BY <1>1, <1>3 DEF Chain, Apart
  <2>2. route \in AuthRoutes => Demanded(route) = {}
    BY <1>1 DEF Demanded, Apart
  <2>3. QED
    BY <1>1, <1>2, <1>3, <2>1, <2>2 DEF If, Apart
<1>4. CASE Mounted(route) /\ route \in UserRoutes
  BY <1>1, <1>4 DEF Chain, Apart
<1>5. CASE Mounted(route) /\ route \in AdminRoutes
  BY <1>1, <1>5 DEF Chain, Apart
<1>6. CASE Mounted(route) /\ route = "quality"
  BY <1>1, <1>6 DEF Chain, Apart
<1>7. CASE Mounted(route) /\ route \in Metered
  <2>1. Chain(route) = If("auth", Admission)
    BY <1>1, <1>7 DEF Chain, Apart
  <2>2. ~On("auth") => Demanded(route) = {}
    BY <1>1, <1>7 DEF Demanded, Apart
  <2>3. QED
    BY <1>1, <1>7, <2>1, <2>2 DEF If, Apart
<1>8. CASE Mounted(route) /\ route = "ready"
  <2>1. Chain(route) = If("redis", <<"CheckRedis">>)
    BY <1>1, <1>8 DEF Chain, Apart
  <2>2. Demanded(route) = {}
    BY <1>1, <1>8 DEF Demanded, Apart
  <2>3. QED
    BY <1>2, <1>8, <2>1, <2>2 DEF If
<1>9. CASE /\ Mounted(route) /\ route \notin {"quality", "ready"}
           /\ route \notin AuthRoutes \cup UserRoutes \cup AdminRoutes \cup Metered
  BY <1>9 DEF Chain, Demanded
<1>10. QED
  BY <1>3, <1>4, <1>5, <1>6, <1>7, <1>8, <1>9

LEMMA ChainFacts ==
  ASSUME Configured, NEW route
  PROVE  ChainOK(route)
<1> USE SettingsAssumption DEF Configured
<1> DEFINE chain == Chain(route)
<1>1. CASE chain = Admission /\ route \in Metered /\ Mounted(route) /\ On("auth")
  <2>1. chain \in Seq(Stages)
    BY <1>1, AdmissionSeq
  <2>2. Demanded(route) = {"installation"}
    BY <1>1 DEF Demanded, Metered, UserRoutes, AdminRoutes
  <2>3. \A j \in 1..Len(chain) :
          /\ Grants(chain[j]) \subseteq Demanded(route)
          /\ Checks(chain[j]) \subseteq settings
    BY <1>1, <2>2, AdmissionOrder DEF Grants, Checks, On
  <2>4. \A j \in 1..Len(chain) : chain[j] \in {"RateLimit", "InstallationStatus"} =>
          \E i \in 1..(j - 1) : chain[i] = "Auth"
    <3> SUFFICES ASSUME NEW j \in 1..Len(chain), chain[j] \in {"RateLimit", "InstallationStatus"}
                 PROVE  \E i \in 1..(j - 1) : chain[i] = "Auth"
      OBVIOUS
    <3>1. j # 1 /\ Len(chain) \in Nat
      BY <1>1, <2>1, AdmissionOrder
    <3>2. 1 \in 1..(j - 1) /\ chain[1] = "Auth"
      BY <1>1, <3>1, AdmissionOrder
    <3>3. QED
      BY <3>2
  <2>5. \A token \in Demanded(route) : \E j \in 1..Len(chain) : token \in Grants(chain[j])
    <3>1. 1 \in 1..Len(chain) /\ chain[1] = "Auth"
      BY <1>1, <2>1, AdmissionOrder
    <3>2. QED
      BY <2>2, <3>1 DEF Grants
  <2>6. \A dep \in Needed : \E j \in 1..Len(chain) : dep \in Checks(chain[j])
    <3> SUFFICES ASSUME NEW dep \in Needed
                 PROVE  \E j \in 1..Len(chain) : dep \in Checks(chain[j])
      OBVIOUS
    <3>1. CASE dep = "database" /\ On("database")
      BY <1>1, <3>1, AdmissionOrder DEF Checks
    <3>2. CASE dep = "redis" /\ On("redis") /\ (On("limit") \/ On("quota") \/ On("database"))
      <4>1. \E j \in 1..Len(chain) : chain[j] \in {"RateLimit", "Quota", "MonthlyQuota"}
        BY <1>1, <3>2, AdmissionOrder
      <4>2. QED
        BY <3>2, <4>1 DEF Checks, On
    <3>3. QED
      BY <1>1, <3>1, <3>2 DEF Needed, On
  <2>7. route # "ready"
    BY <1>1 DEF Metered
  <2>8. QED
    BY <2>1, <2>3, <2>4, <2>5, <2>6, <2>7 DEF ChainOK
<1>2. CASE /\ chain = <<"PublicRateLimit", "Auth", "InstallationStatus">>
           /\ route = "quality" /\ Mounted(route)
  <2>1. chain \in Seq(Stages) /\ Len(chain) = 3
    BY <1>2 DEF Stages
  <2>2. chain[1] = "PublicRateLimit" /\ chain[2] = "Auth" /\ chain[3] = "InstallationStatus"
    BY <1>2
  <2>3. Demanded(route) = {"installation"} /\ On("database") /\ route \notin Metered
    BY <1>2 DEF Demanded, Mounted, Metered, UserRoutes, AdminRoutes, AuthRoutes, On
  <2>4. \A j \in 1..Len(chain) :
          /\ Grants(chain[j]) \subseteq Demanded(route)
          /\ Checks(chain[j]) \subseteq settings
          /\ chain[j] \in {"RateLimit", "InstallationStatus"} => \E i \in 1..(j - 1) : chain[i] = "Auth"
    BY <2>1, <2>2, <2>3 DEF Grants, Checks, On
  <2>5. \A token \in Demanded(route) : \E j \in 1..Len(chain) : token \in Grants(chain[j])
    BY <2>1, <2>2, <2>3 DEF Grants
  <2>6. QED
    BY <1>2, <2>1, <2>3, <2>4, <2>5 DEF ChainOK
<1>3. CASE \/ /\ chain = <<>>
              /\ ~Mounted(route) \/ Demanded(route) = {}
              /\ route \in Metered => ~Mounted(route) \/ ~On("auth")
              /\ route = "ready" => ~On("redis")
           \/ /\ chain = <<"PublicRateLimit">>
              /\ ~Mounted(route) \/ route \in AuthRoutes
  <2>1. chain \in Seq(Stages) /\ \A j \in 1..Len(chain) : chain[j] = "PublicRateLimit"
    <3>1. CASE chain = <<>>
      BY <3>1
    <3>2. CASE chain = <<"PublicRateLimit">>
      BY <3>2 DEF Stages
    <3>3. QED
      BY <1>3, <3>1, <3>2
  <2>2. ~Mounted(route) \/ Demanded(route) = {}
    BY <1>3 DEF Demanded, AuthRoutes, UserRoutes, AdminRoutes, Metered
  <2>3. Mounted(route) /\ route \in Metered => Needed = {}
    BY <1>3 DEF Needed, AuthRoutes, Metered
  <2>4. route = "ready" => ~On("redis")
    BY <1>3 DEF Mounted, AuthRoutes, UserRoutes, AdminRoutes
  <2>5. QED
    BY <2>1, <2>2, <2>3, <2>4 DEF ChainOK, Grants, Checks
<1>4. CASE \/ chain = <<"UserAuth">> /\ route \in UserRoutes \ {"link"}
           \/ chain = <<"UserAuth", "InstallationToken">> /\ route = "link"
  <2>1. /\ chain \in Seq(Stages) /\ 1 \in 1..Len(chain) /\ chain[1] = "UserAuth"
        /\ \A j \in 1..Len(chain) : chain[j] \in {"UserAuth", "InstallationToken"}
    <3>1. CASE chain = <<"UserAuth">>
      BY <3>1 DEF Stages
    <3>2. CASE chain = <<"UserAuth", "InstallationToken">>
      BY <3>2 DEF Stages
    <3>3. QED
      BY <1>4, <3>1, <3>2
  <2>2. /\ Demanded(route) = IF route = "link" THEN {"user", "installation"} ELSE {"user"}
        /\ route \notin Metered /\ route # "ready"
    BY <1>4 DEF Demanded, UserRoutes, AdminRoutes, Metered
  <2>3. \A j \in 1..Len(chain) : route # "link" => chain[j] = "UserAuth"
    BY <1>4
  <2>4. route = "link" => 2 \in 1..Len(chain) /\ chain[2] = "InstallationToken"
    BY <1>4
  <2>5. \A token \in Demanded(route) : \E j \in 1..Len(chain) : token \in Grants(chain[j])
    BY <2>1, <2>2, <2>4 DEF Grants
  <2>6. QED
    BY <2>1, <2>2, <2>3, <2>5 DEF ChainOK, Grants, Checks
<1>5. CASE chain = <<"AdminAuth">> /\ route \in AdminRoutes
  <2>1. /\ chain \in Seq(Stages) /\ 1 \in 1..Len(chain)
        /\ \A j \in 1..Len(chain) : chain[j] = "AdminAuth"
    BY <1>5 DEF Stages
  <2>2. Demanded(route) = {"admin"} /\ route \notin Metered /\ route # "ready"
    BY <1>5 DEF Demanded, AdminRoutes, UserRoutes, Metered
  <2>3. QED
    BY <2>1, <2>2 DEF ChainOK, Grants, Checks
<1>6. CASE chain = <<"CheckRedis">> /\ route = "ready" /\ On("redis")
  <2>1. /\ chain \in Seq(Stages) /\ 1 \in 1..Len(chain)
        /\ \A j \in 1..Len(chain) : chain[j] = "CheckRedis"
    BY <1>6 DEF Stages
  <2>2. Demanded(route) = {} /\ route \notin Metered
    BY <1>6 DEF Demanded, AdminRoutes, UserRoutes, Metered
  <2>3. QED
    BY <1>6, <2>1, <2>2 DEF ChainOK, Grants, Checks, On
<1>7. QED
  BY <1>1, <1>2, <1>3, <1>4, <1>5, <1>6, ChainShape

\* The check of an installation's token belongs to the link, which needs a database.
TokenCheck(route) == route = "link" /\ "database" \in settings

LEMMA TokenChain ==
  ASSUME NEW route, NEW j \in 1..Len(Chain(route)), Chain(route)[j] = "InstallationToken"
  PROVE  TokenCheck(route)
<1>1. route = "link"
  <2>1. CASE Chain(route) = Admission
    BY <2>1, AdmissionOrder
  <2>2. CASE \/ Chain(route) = <<>> \/ Chain(route) = <<"PublicRateLimit">>
             \/ Chain(route) = <<"UserAuth">> \/ Chain(route) = <<"AdminAuth">>
             \/ Chain(route) = <<"PublicRateLimit", "Auth", "InstallationStatus">>
             \/ Chain(route) = <<"CheckRedis">>
    BY <2>2
  <2>3. QED
    BY <2>1, <2>2, ChainShape
<1>2. Mounted("link") <=> On("database")
  BY DEF Mounted, AuthRoutes, UserRoutes, AdminRoutes
<1>3. ~Mounted("link") => Chain("link") = If("database", <<"PublicRateLimit">>)
  BY DEF Chain
<1>4. On("database")
  <2> SUFFICES ASSUME ~On("database")
               PROVE  FALSE
    OBVIOUS
  <2>1. Chain("link") = <<>>
    BY <1>2, <1>3 DEF If
  <2>2. QED
    BY <1>1, <2>1
<1>5. QED
  BY <1>1, <1>4 DEF TokenCheck, On

-----------------------------------------------------------------------------
(* The inductive invariant.                                                *)

Phases == {"redis", "database", "cleanup", "serving", "draining", "late", "stopped", "failed"}

Stores == {"redis", "database"}

\* The answers of the API.
Answers == {"OK", "INVALID_REQUEST", "UNAUTHORIZED", "NOT_FOUND", "RATE_LIMITED", "QUOTA_EXCEEDED",
            "PLAN_QUOTA_EXCEEDED", "SERVICE_UNAVAILABLE", "INSTALLATION_REVOKED",
            "ACCOUNT_REQUIRED", "INVALID_CREDENTIALS", "LINK_FAILED", "INTERNAL_ERROR",
            "PROVIDER_TIMEOUT", "PROVIDER_RATE_LIMITED", "PROVIDER_UNAVAILABLE",
            "FEATURE_NOT_AVAILABLE"}

RequestType ==
    [at : {"idle", "running", "streaming", "done"}, route : Routes \cup {"none"},
     shown : SUBSET (Tokens \cup {"revoked", "linked"}), left : Seq(Stages), code : Answers \cup {"none"},
     down : SUBSET Deps, saw : SUBSET (Deps \cup {"deadline"}), buffered : Nat]

TypeOK ==
    /\ Configured /\ phase \in Phases
    /\ open \subseteq Stores /\ up \subseteq Deps
    /\ req \in [Slots -> RequestType]

\* The process holds the stores it was configured with from the moment it opened them
\* until it stops.
StoresOK ==
    /\ phase = "redis" => open = {}
    /\ phase = "database" => open = settings \cap {"redis"}
    /\ phase \in {"cleanup", "serving", "draining"} => open = settings \cap Stores
    /\ NothingIsLeftOpen

Active(q) == q.at \in {"running", "streaming"}

\* A request has been seen through the stages before those it has left.
OnItsWay(q) ==
    LET chain == Chain(q.route)
        passed == Len(chain) - Len(q.left)
    IN  /\ passed \in Nat
        /\ \A i \in 1..Len(q.left) : q.left[i] = chain[passed + i]
        /\ \A j \in 1..passed : Grants(chain[j]) \subseteq q.shown /\ Checks(chain[j]) \cap q.down = {}

\* What a request remembers of the outages it lived through.
Outages(q) ==
    /\ phase \in {"serving", "draining", "late"}
    /\ q.down \cap up = {} /\ Deps \ up \subseteq q.saw
    /\ phase = "late" => "deadline" \in q.saw

\* The code does not wrong the request it answers.
Fairly(q, code) ==
    /\ code \in {"UNAUTHORIZED", "INVALID_CREDENTIALS"} =>
          \/ ~(Credentials(q.route) \subseteq q.shown)
          \/ q.route \in {"auth.verify", "auth.refresh"} /\ DatabaseLost(q)
    /\ code = "INSTALLATION_REVOKED" =>
          "revoked" \in q.shown \/ (q.route = "link" /\ DatabaseLost(q))

\* What an answer says is so.
AnswerTrue(q) ==
    /\ Fairly(q, q.code)
    /\ q.route = "ready" /\ q.code = "OK" => q.down \cap settings = {}
    /\ q.code = "SERVICE_UNAVAILABLE" => q.saw # {}

RequestOK(q) ==
    /\ Active(q) => Outages(q)
    /\ q.at = "running" => OnItsWay(q)
    /\ q.at = "streaming" => q.route = "stream" /\ Demanded(q.route) \subseteq q.shown
    /\ AnswerTrue(q)

\* What holds of whatever request a slot has.
RequestsOK == \A r \in Slots, q \in RequestType : req[r] = q => RequestOK(q)

IInv == TypeOK /\ StoresOK /\ RequestsOK

-----------------------------------------------------------------------------
(* One step of one request.                                                *)

\* What is said of a request depends on the configuration, the phase and the
\* dependencies only.
LEMMA SameWorld ==
  ASSUME NEW q, RequestOK(q), UNCHANGED <<settings, phase, up>>
  PROVE  RequestOK(q)'
<1>1. /\ Chain(q.route)' = Chain(q.route) /\ Demanded(q.route)' = Demanded(q.route)
      /\ \A stage : Checks(stage)' = Checks(stage)
  BY DEF Chain, Mounted, If, On, Admission, Demanded, Checks
<1>f. Fairly(q, q.code)' = Fairly(q, q.code)
  BY <1>1 DEF Fairly, Credentials, DatabaseLost
<1>2. AnswerTrue(q)'
  BY <1>1, <1>f DEF RequestOK, AnswerTrue
<1>3. q.at = "running" => OnItsWay(q)'
  BY <1>1 DEF RequestOK, OnItsWay
<1>4. QED
  BY <1>1, <1>2, <1>3 DEF RequestOK, Outages, Active

LEMMA SetStep ==
  ASSUME IInv, NEW r \in Slots, NEW new \in RequestType, RequestOK(new), Set(r, new)
  PROVE  IInv'
<1>1. req' = [req EXCEPT ![r] = new] /\ UNCHANGED <<settings, phase, open, up>>
  BY DEF Set
<1>2. req' \in [Slots -> RequestType]
      /\ \A s \in Slots : req'[s] = IF s = r THEN new ELSE req[s]
  BY <1>1 DEF IInv, TypeOK
<1>3. TypeOK' /\ StoresOK'
  BY <1>1, <1>2 DEF IInv, TypeOK, StoresOK, NothingIsLeftOpen, Configured
<1>4. RequestsOK'
  <2> SUFFICES ASSUME NEW s \in Slots, NEW q \in RequestType, req'[s] = q
               PROVE  RequestOK(q)'
    BY DEF RequestsOK
  <2>1. RequestOK(q)
    BY <1>2 DEF IInv, RequestsOK
  <2>2. QED
    BY <1>1, <2>1, SameWorld
<1>5. QED
  BY <1>3, <1>4 DEF IInv

LEMMA Holds ==
  ASSUME IInv, NEW r \in Slots
  PROVE  req[r] \in RequestType /\ RequestOK(req[r])
BY DEF IInv, TypeOK, RequestsOK

\* The stage a request is at belongs to its chain, and comes in its place.
LEMMA HeadStage ==
  ASSUME IInv, NEW r \in Slots, NEW stage, At(r, stage)
  PROVE  /\ Active(req[r]) /\ OnItsWay(req[r])
         /\ Grants(stage) \subseteq Demanded(req[r].route)
         /\ Checks(stage) \subseteq settings
         /\ stage \in {"RateLimit", "InstallationStatus"} => Identified(r)
<1> DEFINE q == req[r]
           chain == Chain(q.route)
           passed == Len(chain) - Len(q.left)
<1>1. q \in RequestType /\ RequestOK(q)
  BY Holds
<1>2. /\ q.at = "running" /\ q.left # <<>> /\ q.left[1] = stage
      /\ q.left \in Seq(Stages) /\ Len(q.left) \in Nat \ {0}
  BY <1>1 DEF At, RequestType
<1>3. Active(q) /\ OnItsWay(q)
  BY <1>1, <1>2 DEF Active, RequestOK
<1>4. ChainOK(q.route)
  BY ChainFacts DEF IInv, TypeOK
<1>5. passed \in Nat /\ Len(chain) \in Nat /\ chain[passed + 1] = stage /\ passed + 1 \in 1..Len(chain)
  <2>1. passed \in Nat /\ \A i \in 1..Len(q.left) : q.left[i] = chain[passed + i]
    BY <1>3 DEF OnItsWay
  <2>2. Len(chain) \in Nat
    BY <1>4 DEF ChainOK
  <2> HIDE DEF chain, q
  <2>3. passed + 1 \in 1..Len(chain) /\ 1 \in 1..Len(q.left)
    BY <1>2, <2>1, <2>2
  <2>4. chain[passed + 1] = stage
    BY <1>2, <2>1, <2>3
  <2>5. QED
    BY <2>1, <2>2, <2>3, <2>4
<1> HIDE DEF passed, chain, q
<1>6. \A i \in 1..(passed + 1 - 1) : i \in 1..passed
  BY <1>5
<1>7. stage \in {"RateLimit", "InstallationStatus"} => \E i \in 1..passed : chain[i] = "Auth"
  BY <1>4, <1>5, <1>6 DEF ChainOK, chain
<1>8. stage \in {"RateLimit", "InstallationStatus"} => Identified(r)
  BY <1>7 DEF Identified, passed, chain, q
<1>9. /\ Grants(stage) \subseteq Demanded(q.route)
      /\ Checks(stage) \subseteq settings
  BY <1>4, <1>5 DEF ChainOK, chain
<1>10. QED
  BY <1>3, <1>8, <1>9 DEF q

\* A request goes past a stage that granted and checked what it should.
LEMMA PassStep ==
  ASSUME IInv, NEW r \in Slots, NEW stage, At(r, stage), Pass(r),
         Grants(stage) \subseteq req[r].shown, Checks(stage) \cap req[r].down = {}
  PROVE  IInv'
<1> DEFINE q == req[r]
           chain == Chain(q.route)
           passed == Len(chain) - Len(q.left)
<1>1. /\ q \in RequestType /\ RequestOK(q) /\ OnItsWay(q) /\ Chain(q.route) \in Seq(Stages)
  BY Holds, HeadStage, ChainFacts DEF IInv, TypeOK, ChainOK
<1>2. /\ q.at = "running" /\ q.left # <<>> /\ q.left[1] = stage
      /\ q.left \in Seq(Stages) /\ Len(q.left) \in Nat \ {0}
  BY <1>1 DEF At, RequestType
<1>0. Tail(q.left) \in Seq(Stages)
  BY <1>2
<1> PICK new \in RequestType : new = [q EXCEPT !.left = Tail(@)]
  BY <1>0, <1>1 DEF RequestType
<1>3. /\ new.left = Tail(q.left) /\ new.at = "running" /\ new.route = q.route /\ new.code = q.code
      /\ new.shown = q.shown /\ new.down = q.down /\ new.saw = q.saw
  BY <1>1, <1>2 DEF RequestType
<1>4. /\ Len(new.left) = Len(q.left) - 1 /\ Len(new.left) \in Nat
      /\ \A i \in 1..Len(new.left) : new.left[i] = q.left[i + 1]
  BY <1>0, <1>2, <1>3
<1>5. OnItsWay(new)
  <2>1. /\ passed \in Nat
        /\ \A i \in 1..Len(q.left) : q.left[i] = chain[passed + i]
        /\ \A j \in 1..passed : Grants(chain[j]) \subseteq q.shown /\ Checks(chain[j]) \cap q.down = {}
    BY <1>1 DEF OnItsWay
  <2>2. Len(chain) \in Nat
    BY <1>1
  <2>3. Chain(new.route) = chain
    BY <1>3
  <2> HIDE DEF chain, q
  <2>4. Len(chain) - Len(new.left) = passed + 1
    <3> DEFINE n == Len(chain)
               m == Len(q.left)
    <3>1. n \in Nat /\ m \in Nat /\ Len(new.left) = m - 1
      BY <1>2, <1>4, <2>2
    <3> HIDE DEF n, m
    <3>2. n - (m - 1) = (n - m) + 1
      BY <3>1
    <3>3. QED
      BY <3>1, <3>2 DEF n, m
  <2> HIDE DEF passed
  <2>5. \A i \in 1..Len(new.left) :
          i + 1 \in 1..Len(q.left) /\ passed + (i + 1) = passed + 1 + i
    BY <1>2, <1>4, <2>1
  <2>6. \A i \in 1..Len(new.left) : new.left[i] = chain[passed + 1 + i]
    BY <1>4, <2>1, <2>5
  <2>7. 1 \in 1..Len(q.left) /\ chain[passed + 1] = stage
    BY <1>2, <2>1
  <2>8. \A j \in 1..(passed + 1) : j \in 1..passed \/ j = passed + 1
    BY <2>1
  <2>9. \A j \in 1..(passed + 1) :
          Grants(chain[j]) \subseteq new.shown /\ Checks(chain[j]) \cap new.down = {}
    BY <1>3, <2>1, <2>7, <2>8 DEF q
  <2>10. passed + 1 \in Nat
    BY <2>1
  <2>11. QED
    BY <2>3, <2>4, <2>6, <2>9, <2>10 DEF OnItsWay
<1>6. RequestOK(new)
  BY <1>1, <1>2, <1>3, <1>5 DEF RequestOK, Outages, AnswerTrue, Fairly, DatabaseLost, Active
<1>7. Set(r, new)
  BY DEF Pass
<1>8. QED
  BY <1>6, <1>7, SetStep

\* A request is answered truly.
LEMMA AnswerStep ==
  ASSUME IInv, NEW r \in Slots, Active(req[r]), NEW code \in Answers, Answer(r, code),
         Fairly(req[r], code),
         req[r].route = "ready" /\ code = "OK" => req[r].down \cap settings = {},
         code = "SERVICE_UNAVAILABLE" => req[r].saw # {}
  PROVE  IInv'
<1> DEFINE q == req[r]
<1>1. q \in RequestType
  BY Holds
<1> PICK new \in RequestType : new = [q EXCEPT !.at = "done", !.code = code]
  BY <1>1 DEF RequestType
<1>2. /\ new.at = "done" /\ new.code = code /\ new.route = q.route
      /\ new.shown = q.shown /\ new.down = q.down /\ new.saw = q.saw
  BY <1>1 DEF RequestType
<1>3. RequestOK(new)
  BY <1>2 DEF RequestOK, AnswerTrue, Fairly, DatabaseLost, Active
<1>4. Set(r, new)
  BY DEF Answer
<1>5. QED
  BY <1>3, <1>4, SetStep

-----------------------------------------------------------------------------
(* Stages and handlers.                                                    *)

\* A request whose database cannot be reached has lost it.
LEMMA Lost ==
  ASSUME IInv, NEW r \in Slots, Active(req[r]), "database" \in settings, ~Reach("database")
  PROVE  DatabaseLost(req[r])
<1>1. Outages(req[r])
  BY Holds DEF RequestOK
<1>2. CASE "database" \notin up
  BY <1>1, <1>2 DEF Outages, Deps, DatabaseLost
<1>3. CASE "database" \in up
  <2>1. "database" \notin open
    BY <1>3 DEF Reach
  <2>2. phase = "late"
    BY <1>1, <2>1 DEF Outages, IInv, StoresOK, Stores
  <2>3. QED
    BY <1>1, <2>2 DEF Outages, DatabaseLost
<1>4. QED
  BY <1>2, <1>3

\* Only the route of the link has the check of an installation's token.
LEMMA TokenStage ==
  ASSUME IInv, NEW r \in Slots, At(r, "InstallationToken")
  PROVE  req[r].route = "link" /\ "database" \in settings
<1> DEFINE q == req[r]
           chain == Chain(q.route)
           passed == Len(chain) - Len(q.left)
<1>1. q \in RequestType /\ OnItsWay(q) /\ ChainOK(q.route)
  BY Holds, HeadStage, ChainFacts DEF IInv, TypeOK
<1>2. /\ q.left # <<>> /\ q.left[1] = "InstallationToken"
      /\ q.left \in Seq(Stages) /\ Len(q.left) \in Nat \ {0}
  BY <1>1 DEF At, RequestType
<1>3. Len(chain) \in Nat
  BY <1>1 DEF ChainOK
<1>4. \E j \in 1..Len(chain) : chain[j] = "InstallationToken"
  <2>1. passed \in Nat /\ \A i \in 1..Len(q.left) : q.left[i] = chain[passed + i]
    BY <1>1 DEF OnItsWay
  <2> HIDE DEF chain, q
  <2>2. passed + 1 \in 1..Len(chain) /\ 1 \in 1..Len(q.left)
    BY <1>2, <1>3, <2>1
  <2>3. QED
    BY <1>2, <2>1, <2>2
<1>5. TokenCheck(q.route)
  BY <1>4, TokenChain
<1>6. QED
  BY <1>5 DEF TokenCheck, q

\* A stage that asks for a token is passed by nobody who lacks it, on a route that demands it.
LEMMA TurnedAway ==
  ASSUME IInv, NEW r \in Slots, NEW stage, At(r, stage), NEW token \in Grants(stage),
         token \notin req[r].shown
  PROVE  Fairly(req[r], "UNAUTHORIZED")
<1>1. token \in Demanded(req[r].route)
  BY HeadStage
<1>2. Demanded("auth.verify") = {} /\ Demanded("auth.refresh") = {}
  BY DEF Demanded, UserRoutes, AdminRoutes, Metered
<1>3. Credentials(req[r].route) = Demanded(req[r].route)
  BY <1>1, <1>2 DEF Credentials
<1>4. QED
  BY <1>1, <1>3 DEF Fairly

\* A store that cannot be reached is down, or was closed under the request.
LEMMA Unreached ==
  ASSUME IInv, NEW r \in Slots, Active(req[r]), NEW dep, ~Reach(dep),
         dep = "mail" \/ dep \in settings \cap Stores
  PROVE  req[r].saw # {}
<1>1. Outages(req[r])
  BY Holds DEF RequestOK
<1>2. CASE dep \notin up
  BY <1>1, <1>2 DEF Outages, Deps, Stores
<1>3. CASE dep \in up
  <2>1. dep # "mail" /\ dep \notin open
    BY <1>3 DEF Reach
  <2>2. phase = "late"
    BY <1>1, <2>1 DEF Outages, IInv, StoresOK
  <2>3. QED
    BY <1>1, <2>2 DEF Outages
<1>4. QED
  BY <1>2, <1>3

\* A dependency that answers has not been down since the request came.
LEMMA Reached ==
  ASSUME IInv, NEW r \in Slots, Active(req[r]), NEW dep \in up
  PROVE  dep \notin req[r].down
BY Holds DEF RequestOK, Outages

LEMMA UncountedSaw ==
  ASSUME IInv, NEW r \in Slots, Active(req[r]), ~Counters
  PROVE  req[r].saw # {}
BY Unreached DEF Counters, On, Stores

LEMMA CountedUp ==
  ASSUME IInv, NEW r \in Slots, Active(req[r]), Counters
  PROVE  (settings \cap {"redis"}) \cap req[r].down = {}
BY Reached DEF Counters, On, Reach

LEMMA StageStep ==
  ASSUME IInv, NEW r \in Slots, Stage(r)
  PROVE  IInv'
<1> DEFINE q == req[r]
<1>1. CASE PublicRateLimit(r)
  <2>1. At(r, "PublicRateLimit") /\ Grants("PublicRateLimit") = {} /\ Checks("PublicRateLimit") = {}
    BY <1>1 DEF PublicRateLimit, Grants, Checks
  <2>2. CASE Pass(r)
    BY <2>1, <2>2, PassStep
  <2>3. CASE Answer(r, "RATE_LIMITED")
    BY <2>1, <2>3, HeadStage, AnswerStep DEF Answers, Fairly
  <2>4. QED
    BY <1>1, <2>2, <2>3 DEF PublicRateLimit
<1>2. CASE Auth(r)
  <2>1. At(r, "Auth") /\ Grants("Auth") = {"installation"} /\ Checks("Auth") = {}
    BY <1>2 DEF Auth, Grants, Checks
  <2>2. CASE Shows(r, "installation") /\ Pass(r)
    BY <2>1, <2>2, PassStep DEF Shows
  <2>3. CASE ~Shows(r, "installation") /\ Answer(r, "UNAUTHORIZED")
    BY <2>1, <2>3, TurnedAway, HeadStage, AnswerStep DEF Answers, Shows
  <2>4. QED
    BY <1>2, <2>2, <2>3 DEF Auth
<1>3. CASE UserAuth(r)
  <2>1. At(r, "UserAuth") /\ Grants("UserAuth") = {"user"} /\ Checks("UserAuth") = {}
    BY <1>3 DEF UserAuth, Grants, Checks
  <2>2. CASE Shows(r, "user") /\ Pass(r)
    BY <2>1, <2>2, PassStep DEF Shows
  <2>3. CASE ~Shows(r, "user") /\ Answer(r, "UNAUTHORIZED")
    BY <2>1, <2>3, TurnedAway, HeadStage, AnswerStep DEF Answers, Shows
  <2>4. QED
    BY <1>3, <2>2, <2>3 DEF UserAuth
<1>4. CASE AdminAuth(r)
  <2>1. At(r, "AdminAuth") /\ Grants("AdminAuth") = {"admin"} /\ Checks("AdminAuth") = {}
    BY <1>4 DEF AdminAuth, Grants, Checks
  <2>2. CASE Shows(r, "admin") /\ Pass(r)
    BY <2>1, <2>2, PassStep DEF Shows
  <2>3. CASE ~Shows(r, "admin") /\ Answer(r, "UNAUTHORIZED")
    BY <2>1, <2>3, TurnedAway, HeadStage, AnswerStep DEF Answers, Shows
  <2>4. QED
    BY <1>4, <2>2, <2>3 DEF AdminAuth
<1>5. CASE InstallationToken(r)
  <2>1. /\ At(r, "InstallationToken")
        /\ Grants("InstallationToken") = {"installation"} /\ Checks("InstallationToken") = {}
    BY <1>5 DEF InstallationToken, Grants, Checks
  <2>2. CASE Shows(r, "installation") /\ Pass(r)
    BY <2>1, <2>2, PassStep DEF Shows
  <2>3. CASE ~Shows(r, "installation") /\ Answer(r, "UNAUTHORIZED")
    BY <2>1, <2>3, TurnedAway, HeadStage, AnswerStep DEF Answers, Shows
  <2>4. CASE (~Reach("database") \/ Shows(r, "revoked")) /\ Answer(r, "INSTALLATION_REVOKED")
    <3>1. req[r].route = "link" /\ "database" \in settings
      BY <2>1, TokenStage
    <3>2. Fairly(req[r], "INSTALLATION_REVOKED")
      BY <2>1, <2>4, <3>1, HeadStage, Lost DEF Fairly, Shows
    <3>3. QED
      BY <2>1, <2>4, <3>2, HeadStage, AnswerStep DEF Answers
  <2>5. QED
    BY <1>5, <2>2, <2>3, <2>4 DEF InstallationToken
<1>6. CASE RateLimit(r)
  <2>1. /\ At(r, "RateLimit") /\ Identified(r) /\ Active(q)
        /\ Grants("RateLimit") = {} /\ Checks("RateLimit") = settings \cap {"redis"}
    BY <1>6, HeadStage DEF RateLimit, Grants, Checks
  <2>2. CASE Counters /\ Pass(r)
    BY <2>1, <2>2, CountedUp, PassStep
  <2>3. CASE Answer(r, "RATE_LIMITED")
    BY <2>1, <2>3, AnswerStep DEF Answers, Fairly
  <2>4. CASE ~Counters /\ Answer(r, "SERVICE_UNAVAILABLE")
    BY <2>1, <2>4, UncountedSaw, AnswerStep DEF Answers, Fairly
  <2>5. QED
    BY <1>6, <2>1, <2>2, <2>3, <2>4 DEF RateLimit
<1>7. CASE Quota(r)
  <2>1. /\ At(r, "Quota") /\ Active(q)
        /\ Grants("Quota") = {} /\ Checks("Quota") = settings \cap {"redis"}
    BY <1>7, HeadStage DEF Quota, Grants, Checks
  <2>2. CASE Counters /\ Pass(r)
    BY <2>1, <2>2, CountedUp, PassStep
  <2>3. CASE Answer(r, "QUOTA_EXCEEDED")
    BY <2>1, <2>3, AnswerStep DEF Answers, Fairly
  <2>4. CASE ~Counters /\ Answer(r, "SERVICE_UNAVAILABLE")
    BY <2>1, <2>4, UncountedSaw, AnswerStep DEF Answers, Fairly
  <2>5. QED
    BY <1>7, <2>2, <2>3, <2>4 DEF Quota
<1>8. CASE InstallationStatus(r)
  <2>1. /\ At(r, "InstallationStatus") /\ Identified(r) /\ Active(q) /\ "database" \in settings
        /\ Grants("InstallationStatus") = {} /\ Checks("InstallationStatus") = {"database"}
    BY <1>8, HeadStage DEF InstallationStatus, Grants, Checks
  <2>2. CASE Reach("database") /\ Pass(r)
    BY <2>1, <2>2, Reached, PassStep DEF Reach
  <2>3. CASE Shows(r, "revoked") /\ Answer(r, "INSTALLATION_REVOKED")
    BY <2>1, <2>3, AnswerStep DEF Answers, Fairly, Shows
  <2>4. CASE ~Reach("database") /\ Answer(r, "SERVICE_UNAVAILABLE")
    BY <2>1, <2>4, Unreached, AnswerStep DEF Answers, Fairly, Stores
  <2>5. QED
    BY <1>8, <2>1, <2>2, <2>3, <2>4 DEF InstallationStatus
<1>9. CASE RequireLinkedAccount(r)
  <2>1. /\ At(r, "RequireLinkedAccount") /\ Active(q)
        /\ Grants("RequireLinkedAccount") = {} /\ Checks("RequireLinkedAccount") = {}
    BY <1>9, HeadStage DEF RequireLinkedAccount, Grants, Checks
  <2>2. CASE Pass(r)
    BY <2>1, <2>2, PassStep
  <2>3. CASE Answer(r, "ACCOUNT_REQUIRED")
    BY <2>1, <2>3, AnswerStep DEF Answers, Fairly
  <2>4. QED
    BY <1>9, <2>2, <2>3 DEF RequireLinkedAccount
<1>10. CASE Entitlements(r)
  <2>1. /\ At(r, "Entitlements") /\ Active(q) /\ "database" \in settings
        /\ Grants("Entitlements") = {} /\ Checks("Entitlements") = {"database"}
    BY <1>10, HeadStage DEF Entitlements, Grants, Checks
  <2>2. CASE Reach("database") /\ Pass(r)
    BY <2>1, <2>2, Reached, PassStep DEF Reach
  <2>3. CASE ~Reach("database") /\ Answer(r, "SERVICE_UNAVAILABLE")
    BY <2>1, <2>3, Unreached, AnswerStep DEF Answers, Fairly, Stores
  <2>4. QED
    BY <1>10, <2>2, <2>3 DEF Entitlements
<1>11. CASE MonthlyQuota(r)
  <2>1. /\ At(r, "MonthlyQuota") /\ Active(q)
        /\ Grants("MonthlyQuota") = {} /\ Checks("MonthlyQuota") = settings \cap {"redis"}
    BY <1>11, HeadStage DEF MonthlyQuota, Grants, Checks
  <2>2. CASE Counters /\ Pass(r)
    BY <2>1, <2>2, CountedUp, PassStep
  <2>3. CASE Answer(r, "PLAN_QUOTA_EXCEEDED")
    BY <2>1, <2>3, AnswerStep DEF Answers, Fairly
  <2>4. CASE ~Counters /\ Answer(r, "SERVICE_UNAVAILABLE")
    BY <2>1, <2>4, UncountedSaw, AnswerStep DEF Answers, Fairly
  <2>5. QED
    BY <1>11, <2>2, <2>3, <2>4 DEF MonthlyQuota
<1>12. CASE CheckRedis(r)
  <2>1. /\ At(r, "CheckRedis") /\ Active(q) /\ "redis" \in settings
        /\ Grants("CheckRedis") = {} /\ Checks("CheckRedis") = {"redis"}
    BY <1>12, HeadStage DEF CheckRedis, Grants, Checks
  <2>2. CASE Reach("redis") /\ Pass(r)
    BY <2>1, <2>2, Reached, PassStep DEF Reach
  <2>3. CASE ~Reach("redis") /\ Answer(r, "SERVICE_UNAVAILABLE")
    BY <2>1, <2>3, Unreached, AnswerStep DEF Answers, Fairly, Stores
  <2>4. QED
    BY <1>12, <2>2, <2>3 DEF CheckRedis
<1>13. QED
  BY <1>1, <1>2, <1>3, <1>4, <1>5, <1>6, <1>7, <1>8, <1>9, <1>10, <1>11, <1>12 DEF Stage

\* What a request went through before its handler runs.
LEMMA Admitted ==
  ASSUME IInv, NEW r \in Slots, InHandler(r)
  PROVE  /\ Active(req[r])
         /\ Mounted(req[r].route) => Demanded(req[r].route) \subseteq req[r].shown
         /\ Mounted(req[r].route) /\ req[r].route \in Metered => req[r].down \cap Needed = {}
         /\ req[r].route = "ready" /\ On("redis") => "redis" \notin req[r].down
<1> DEFINE q == req[r]
           chain == Chain(q.route)
<1>1. q.at = "running" /\ q.left = <<>> /\ RequestOK(q) /\ ChainOK(q.route)
  BY Holds, ChainFacts DEF InHandler, IInv, TypeOK
<1>2. OnItsWay(q) /\ Active(q)
  BY <1>1 DEF RequestOK, Active
<1>3. Len(chain) \in Nat /\ Len(q.left) = 0
  BY <1>1 DEF ChainOK
<1>4. Len(chain) - Len(q.left) = Len(chain)
  BY <1>3
<1>5. \A j \in 1..Len(chain) : Grants(chain[j]) \subseteq q.shown /\ Checks(chain[j]) \cap q.down = {}
  BY <1>2, <1>4 DEF OnItsWay
<1> HIDE DEF chain, q
<1>6. Mounted(q.route) => Demanded(q.route) \subseteq q.shown
  BY <1>1, <1>5 DEF ChainOK, chain
<1>7. Mounted(q.route) /\ q.route \in Metered => q.down \cap Needed = {}
  BY <1>1, <1>5 DEF ChainOK, chain
<1>8. q.route = "ready" /\ On("redis") => "redis" \notin q.down
  BY <1>1, <1>5 DEF ChainOK, chain
<1>9. QED
  BY <1>2, <1>6, <1>7, <1>8 DEF q

\* Some dependency a handler may count on cannot be reached.
Outage == ~Counters \/ ~Reach("mail") \/ (On("database") /\ ~Reach("database"))

LosesDatabase == On("database") /\ ~Reach("database")

LEMMA NeedingTwo ==
  ASSUME NEW one \in BOOLEAN, NEW two \in BOOLEAN, NEW codes, NEW code \in Needing(one /\ two, codes)
  PROVE  code \in codes \/ (code = "SERVICE_UNAVAILABLE" /\ (~one \/ ~two))
BY DEF Needing

LEMMA UsageNeeds ==
  ASSUME NEW code \in Needing(Reach("database") /\ Counters, {"OK"})
  PROVE  code = "OK" \/ (code = "SERVICE_UNAVAILABLE" /\ (~Reach("database") \/ ~Counters))
<1>1. Reach("database") \in BOOLEAN /\ Counters \in BOOLEAN
  BY DEF Reach, Counters
<1>2. QED
  BY <1>1, NeedingTwo

\* A handler turns away only whoever lacks what it asks for, unless its database is lost.
HonestAt(r, code) ==
    /\ code \in {"UNAUTHORIZED", "INVALID_CREDENTIALS"} =>
          \/ req[r].route = "auth.verify" /\ (~Shows(r, "code") \/ LosesDatabase)
          \/ req[r].route = "auth.refresh" /\ (~Shows(r, "session") \/ LosesDatabase)
    /\ code = "INSTALLATION_REVOKED" => Shows(r, "revoked")

LEMMA OutcomesTrue ==
  ASSUME Configured, NEW r \in Slots, NEW code \in Outcomes(r)
  PROVE  /\ code \in Answers
         /\ HonestAt(r, code)
         /\ code = "OK" /\ req[r].route = "ready" => On("database") /\ Reach("database")
         /\ code = "SERVICE_UNAVAILABLE" => Outage
<1> USE SettingsAssumption DEF Configured, Answers, Outage, Needing, HonestAt
<1> DEFINE route == req[r].route
<1>1. CASE ~Mounted(route)
  <2>1. route # "ready"
    BY <1>1 DEF Mounted, AuthRoutes, UserRoutes, AdminRoutes
  <2>2. Outcomes(r) = {"NOT_FOUND"}
    BY <1>1 DEF Outcomes
  <2>3. QED
    BY <2>1, <2>2
<1> SUFFICES ASSUME Mounted(route)
             PROVE  /\ code \in Answers
                    /\ HonestAt(r, code)
                    /\ code = "OK" /\ route = "ready" => On("database") /\ Reach("database")
                    /\ code = "SERVICE_UNAVAILABLE" => Outage
  BY <1>1
<1>2. route \in AuthRoutes \cup UserRoutes \cup AdminRoutes \cup {"quality"} => On("database")
  BY DEF Mounted, AuthRoutes, UserRoutes, AdminRoutes, On
<1> USE DEF AuthRoutes, UserRoutes, AdminRoutes
<1>3. CASE route \in {"root", "health", "requirement", "admin.page"}
  BY <1>2, <1>3 DEF Outcomes
<1>4. CASE route = "ready"
  BY <1>2, <1>4 DEF Outcomes, Ready
<1>5. CASE route = "register"
  BY <1>2, <1>5 DEF Outcomes, RegisterInstallations
<1>6. CASE route = "auth.request"
  <2>1. code = "INVALID_REQUEST" \/ code \in Needing(Reach("database") /\ Reach("mail"), {"OK"})
    BY <1>6 DEF Outcomes, MagicRequest
  <2>2. code = "SERVICE_UNAVAILABLE" => ~Reach("database") \/ ~Reach("mail")
    BY <2>1, NeedingTwo DEF Reach
  <2>3. QED
    BY <1>2, <1>6, <2>1, <2>2, NeedingTwo DEF Reach
<1>7. CASE route = "auth.verify"
  BY <1>2, <1>7 DEF Outcomes, MagicVerify, LosesDatabase
<1>8. CASE route = "auth.refresh"
  BY <1>2, <1>8 DEF Outcomes, Refresh, LosesDatabase
<1>9. CASE route = "auth.logout"
  BY <1>2, <1>9 DEF Outcomes, Logout
<1>10. CASE route = "account"
  BY <1>2, <1>10 DEF Outcomes, Account
<1>11. CASE route = "entitlements"
  BY <1>2, <1>11, UsageNeeds DEF Outcomes, AccountEntitlements
<1>12. CASE route = "installations"
  BY <1>2, <1>12 DEF Outcomes, Installations
<1>13. CASE route = "link"
  BY <1>2, <1>13 DEF Outcomes, Link
<1>14. CASE route = "revoke"
  BY <1>2, <1>14 DEF Outcomes, Revoke
<1>15. CASE route = "admin.overview"
  BY <1>2, <1>15 DEF Outcomes, Overview
<1>16. CASE route = "admin.users"
  BY <1>2, <1>16, UsageNeeds DEF Outcomes, Users
<1>17. CASE route = "admin.installations"
  BY <1>2, <1>17 DEF Outcomes, AdminInstallations
<1>18. CASE route = "admin.invites"
  BY <1>2, <1>18 DEF Outcomes, Invites
<1>19. CASE route = "admin.quality"
  BY <1>2, <1>19 DEF Outcomes, AdminQuality
<1>20. CASE route = "admin.invite"
  BY <1>2, <1>20 DEF Outcomes, CreateInvite
<1>21. CASE route = "admin.plan"
  BY <1>2, <1>21 DEF Outcomes, SetPlan
<1>22. CASE route = "admin.revoke"
  BY <1>2, <1>22 DEF Outcomes, RevokeInstallation
<1>23. CASE route = "quality"
  BY <1>2, <1>23 DEF Outcomes, RecordQuality
<1>24. CASE route = "completions"
  BY <1>2, <1>24 DEF Outcomes, Complete
<1>25. CASE route = "stream"
  BY <1>2, <1>25 DEF Outcomes
<1>26. QED
  BY <1>3, <1>4, <1>5, <1>6, <1>7, <1>8, <1>9, <1>10, <1>11, <1>12, <1>13, <1>14, <1>15, <1>16, <1>17, <1>18, <1>19, <1>20, <1>21, <1>22, <1>23, <1>24, <1>25
     DEF Mounted, AuthRoutes, UserRoutes, AdminRoutes

LEMMA HandleStep ==
  ASSUME IInv, NEW r \in Slots, Handle(r)
  PROVE  IInv'
<1> PICK code \in Outcomes(r) : Answer(r, code)
  BY DEF Handle
<1>1. InHandler(r) /\ Configured
  BY DEF Handle, IInv, TypeOK
<1>2. /\ code \in Answers
      /\ HonestAt(r, code)
      /\ code = "OK" /\ req[r].route = "ready" => On("database") /\ Reach("database")
      /\ code = "SERVICE_UNAVAILABLE" => Outage
  BY <1>1, OutcomesTrue
<1>3. Active(req[r])
  BY <1>1, Admitted
<1>4. req[r].route = "ready" /\ code = "OK" => req[r].down \cap settings = {}
  <2> SUFFICES ASSUME req[r].route = "ready", code = "OK", NEW dep \in req[r].down, dep \in settings
               PROVE  FALSE
    OBVIOUS
  <2>1. dep # "redis"
    BY <1>1, Admitted DEF On
  <2>2. dep # "database"
    BY <1>2, <1>3, Reached DEF Reach
  <2>3. dep # "mail"
    BY <1>1, SettingsAssumption DEF Configured, Flags
  <2>4. dep \in Deps
    BY Holds DEF RequestType
  <2>5. QED
    BY <2>1, <2>2, <2>3, <2>4 DEF Deps
<1>5. code = "SERVICE_UNAVAILABLE" => req[r].saw # {}
  BY <1>2, <1>3, UncountedSaw, Unreached DEF Outage, On, Stores
<1>6. Fairly(req[r], code)
  <2>1. LosesDatabase => DatabaseLost(req[r])
    BY <1>3, Lost DEF LosesDatabase, On
  <2>2. QED
    BY <1>2, <2>1 DEF Fairly, HonestAt, Shows, Credentials
<1>7. QED
  BY <1>2, <1>3, <1>4, <1>5, <1>6, AnswerStep

LEMMA BeginStreamStep ==
  ASSUME IInv, NEW r \in Slots, BeginStream(r)
  PROVE  IInv'
<1> DEFINE q == req[r]
<1>1. /\ q \in RequestType /\ RequestOK(q) /\ Active(q)
      /\ q.route = "stream" /\ Demanded(q.route) \subseteq q.shown
  BY Holds, Admitted DEF BeginStream
<1> PICK new \in RequestType : new = [q EXCEPT !.at = "streaming"]
  BY <1>1 DEF RequestType
<1>2. /\ new.at = "streaming" /\ new.code = q.code /\ new.route = q.route
      /\ new.shown = q.shown /\ new.down = q.down /\ new.saw = q.saw
  BY <1>1 DEF RequestType
<1>3. RequestOK(new)
  BY <1>1, <1>2 DEF RequestOK, AnswerTrue, Fairly, DatabaseLost, Active, Outages
<1>4. QED
  BY <1>3, SetStep DEF BeginStream

\* Events and the buffer they wait in.
LEMMA StreamStep ==
  ASSUME IInv, NEW r \in Slots, WriteEvent(r) \/ Spill(r)
  PROVE  IInv'
<1> DEFINE q == req[r]
<1>1. q \in RequestType /\ RequestOK(q)
  BY Holds
<1>2. \E n \in Nat : Set(r, [q EXCEPT !.buffered = n])
  <2>1. q.buffered \in Nat
    BY <1>1 DEF RequestType
  <2>2. CASE Set(r, [q EXCEPT !.buffered = q.buffered + 1])
    <3> DEFINE m == q.buffered + 1
    <3>1. m \in Nat /\ Set(r, [q EXCEPT !.buffered = m])
      BY <2>1, <2>2
    <3> HIDE DEF m
    <3>2. QED
      BY <3>1
  <2>3. CASE Set(r, [q EXCEPT !.buffered = 0])
    BY <2>3
  <2>4. QED
    BY <2>2, <2>3 DEF WriteEvent, Spill
<1> PICK n \in Nat : Set(r, [q EXCEPT !.buffered = n])
  BY <1>2
<1> PICK new \in RequestType : new = [q EXCEPT !.buffered = n]
  BY <1>1 DEF RequestType
<1>3. /\ new.at = q.at /\ new.code = q.code /\ new.route = q.route /\ new.left = q.left
      /\ new.shown = q.shown /\ new.down = q.down /\ new.saw = q.saw
  BY <1>1 DEF RequestType
<1>4. RequestOK(new)
  BY <1>1, <1>3 DEF RequestOK, AnswerTrue, Fairly, DatabaseLost, Active, Outages, OnItsWay
<1>5. QED
  BY <1>4, SetStep

LEMMA EndStreamStep ==
  ASSUME IInv, NEW r \in Slots, EndStream(r)
  PROVE  IInv'
<1> DEFINE q == req[r]
<1>1. q \in RequestType /\ RequestOK(q) /\ q.at = "streaming"
  BY Holds DEF EndStream
<1> PICK new \in RequestType : new = [q EXCEPT !.at = "done", !.code = "OK", !.buffered = 0]
  BY <1>1 DEF RequestType, Answers
<1>2. new.at = "done" /\ new.code = "OK" /\ new.route = q.route
  BY <1>1 DEF RequestType
<1>3. new.route # "ready"
  BY <1>1, <1>2 DEF RequestOK
<1>4. RequestOK(new)
  BY <1>2, <1>3 DEF RequestOK, AnswerTrue, Fairly, Active
<1>5. QED
  BY <1>4, SetStep DEF EndStream

LEMMA IdleOK == Idle \in RequestType /\ RequestOK(Idle)
<1>1. Idle \in RequestType
  BY DEF Idle, RequestType
<1>2. RequestOK(Idle)
  BY DEF Idle, RequestOK, AnswerTrue, Fairly, Active
<1>3. QED
  BY <1>1, <1>2

\* A revocation that overtakes the request takes no token from it.
LEMMA RevokedStep ==
  ASSUME IInv, NEW r \in Slots, RevokedMeanwhile(r)
  PROVE  IInv'
<1> DEFINE q == req[r]
<1>1. q \in RequestType /\ RequestOK(q)
  BY Holds
<1> PICK new \in RequestType : new = [q EXCEPT !.shown = @ \cup {"revoked"}]
  BY <1>1 DEF RequestType
<1>2. /\ new.at = q.at /\ new.code = q.code /\ new.route = q.route /\ new.left = q.left
      /\ new.shown = q.shown \cup {"revoked"} /\ new.down = q.down /\ new.saw = q.saw
  BY <1>1 DEF RequestType
<1>3. Fairly(new, new.code)
  <2>1. "revoked" \notin Credentials(q.route)
    BY DEF Credentials, Demanded
  <2>2. QED
    BY <1>1, <1>2, <2>1 DEF RequestOK, AnswerTrue, Fairly, DatabaseLost
<1>4. OnItsWay(q) => OnItsWay(new)
  BY <1>2 DEF OnItsWay
<1>5. RequestOK(new)
  BY <1>1, <1>2, <1>3, <1>4 DEF RequestOK, AnswerTrue, Active, Outages
<1>6. QED
  BY <1>5, SetStep DEF RevokedMeanwhile

LEMMA LeaveStep ==
  ASSUME IInv, NEW r \in Slots, Leave(r)
  PROVE  IInv'
<1> PICK new \in RequestType : new = Idle
  BY IdleOK
<1>1. QED
  BY IdleOK, SetStep DEF Leave

LEMMA ArriveStep ==
  ASSUME IInv, NEW r \in Slots, NEW route \in Routes, NEW client \in Clients, Arrive(r, route, client)
  PROVE  IInv'
<1> DEFINE v == [Idle EXCEPT !.at = "running", !.route = route, !.shown = client,
                             !.left = Chain(route), !.down = Deps \ up, !.saw = Deps \ up]
<1>1. Chain(route) \in Seq(Stages)
  BY ChainFacts DEF IInv, TypeOK, ChainOK
<1>2. /\ v.at = "running" /\ v.route = route /\ v.shown = client /\ v.left = Chain(route)
      /\ v.code = "none" /\ v.down = Deps \ up /\ v.saw = Deps \ up
  BY DEF Idle
<1>3. v \in RequestType
  BY <1>1, IdleOK, ClientsAssumption DEF RequestType
<1> HIDE DEF v
<1> PICK new \in RequestType : new = v
  BY <1>3
<1>4. Len(Chain(new.route)) - Len(new.left) = 0 /\ Len(new.left) \in Nat
  BY <1>1, <1>2
<1>5. OnItsWay(new)
  BY <1>2, <1>4 DEF OnItsWay
<1>6. phase = "serving" /\ Set(r, new)
  BY DEF Arrive, Set, v
<1>7. RequestOK(new)
  BY <1>2, <1>5, <1>6 DEF RequestOK, Active, Outages, AnswerTrue, Fairly
<1>8. QED
  BY <1>6, <1>7, SetStep

-----------------------------------------------------------------------------
(* Start-up, failures and the shutdown.                                    *)

LEMMA StartStep ==
  ASSUME IInv, OpenRedis \/ OpenDatabase \/ Cleanup
  PROVE  IInv'
<1>1. phase \in {"redis", "database", "cleanup"} /\ UNCHANGED <<settings, up, req>>
  BY DEF OpenRedis, OpenDatabase, Cleanup
<1>2. TypeOK' /\ StoresOK'
  <2>1. CASE OpenRedis
    BY <2>1 DEF IInv, TypeOK, StoresOK, NothingIsLeftOpen, OpenRedis, Configured, Phases, Stores, On
  <2>2. CASE OpenDatabase
    BY <2>2 DEF IInv, TypeOK, StoresOK, NothingIsLeftOpen, OpenDatabase, Configured, Phases, Stores, On
  <2>3. CASE Cleanup
    BY <2>3 DEF IInv, TypeOK, StoresOK, NothingIsLeftOpen, Cleanup, Abandoned, Configured, Phases,
                Stores, On
  <2>4. QED
    BY <2>1, <2>2, <2>3
<1>3. RequestsOK'
  <2> SUFFICES ASSUME NEW r \in Slots, NEW q \in RequestType, req'[r] = q
               PROVE  RequestOK(q)'
    BY DEF RequestsOK
  <2>1. RequestOK(q)
    BY <1>1 DEF IInv, RequestsOK
  <2>2. ~Active(q) /\ AnswerTrue(q)
    BY <1>1, <2>1 DEF RequestOK, Outages
  <2>3. AnswerTrue(q)'
    <3>1. Demanded(q.route)' = Demanded(q.route)
      BY <1>1 DEF Demanded, On
    <3>2. Fairly(q, q.code)' = Fairly(q, q.code)
      BY <3>1 DEF Fairly, Credentials, DatabaseLost
    <3>3. QED
      BY <1>1, <2>2, <3>2 DEF AnswerTrue
  <2>4. QED
    BY <2>2, <2>3 DEF RequestOK, Active
<1>4. QED
  BY <1>2, <1>3 DEF IInv

\* What becomes of the requests when the world around them changes: each keeps its
\* place, forgets no outage it has seen and remembers none that has not lasted.
LEMMA WorldStep ==
  ASSUME IInv, UNCHANGED settings, req' \in [Slots -> RequestType],
         \A r \in Slots :
           \/ /\ req'[r].at = req[r].at /\ req'[r].route = req[r].route /\ req'[r].left = req[r].left
              /\ req'[r].shown = req[r].shown /\ req'[r].code = req[r].code
              /\ req'[r].down \subseteq req[r].down /\ req[r].saw \subseteq req'[r].saw
              /\ Active(req[r]) =>
                   /\ phase' \in {"serving", "draining", "late"}
                   /\ req'[r].down \cap up' = {} /\ Deps \ up' \subseteq req'[r].saw
                   /\ phase' = "late" => "deadline" \in req'[r].saw
           \/ req'[r] = Idle
  PROVE  RequestsOK'
<1> SUFFICES ASSUME NEW r \in Slots, NEW q \in RequestType, req'[r] = q
             PROVE  RequestOK(q)'
  BY DEF RequestsOK
<1>1. CASE q = Idle
  BY <1>1 DEF Idle, RequestOK, AnswerTrue, Fairly, Active
<1>2. CASE q # Idle
  <2> DEFINE p == req[r]
  <2>1. /\ q.at = p.at /\ q.route = p.route /\ q.left = p.left /\ q.shown = p.shown /\ q.code = p.code
        /\ q.down \subseteq p.down /\ p.saw \subseteq q.saw
        /\ Active(p) =>
             /\ phase' \in {"serving", "draining", "late"}
             /\ q.down \cap up' = {} /\ Deps \ up' \subseteq q.saw
             /\ phase' = "late" => "deadline" \in q.saw
    BY <1>2
  <2>2. RequestOK(p)
    BY Holds
  <2> HIDE DEF p
  <2>3. /\ Chain(q.route)' = Chain(q.route) /\ Demanded(q.route)' = Demanded(q.route)
        /\ \A stage : Checks(stage)' = Checks(stage)
    BY DEF Chain, Mounted, If, On, Admission, Demanded, Checks
  <2>f. Fairly(p, p.code) => Fairly(q, q.code)'
    BY <2>1, <2>3 DEF Fairly, Credentials, DatabaseLost
  <2>4. AnswerTrue(q)'
    BY <2>1, <2>2, <2>3, <2>f DEF RequestOK, AnswerTrue
  <2>5. q.at = "running" => OnItsWay(q)'
    BY ZenonT(60), <2>1, <2>2, <2>3 DEF RequestOK, OnItsWay
  <2>6. QED
    BY <2>1, <2>2, <2>3, <2>4, <2>5 DEF RequestOK, Outages, Active
<1>3. QED
  BY <1>1, <1>2

LEMMA DependencyStep ==
  ASSUME IInv, NEW dep \in Deps, Fail(dep) \/ Recover(dep)
  PROVE  IInv'
<1>1. UNCHANGED <<settings, phase, open>> /\ up' \subseteq Deps
  BY DEF Fail, Recover, IInv, TypeOK
<1>2. req' \in [Slots -> RequestType]
  <2>1. \A r \in Slots : /\ req[r] \in RequestType
                         /\ [req[r] EXCEPT !.saw = @ \cup {dep}] \in RequestType
                         /\ [req[r] EXCEPT !.down = @ \ {dep}] \in RequestType
    BY ZenonT(60) DEF IInv, TypeOK, RequestType
  <2>2. QED
    BY <2>1 DEF Fail, Recover
<1>3. RequestsOK'
  <2> SUFFICES ASSUME NEW r \in Slots
               PROVE  /\ req'[r].at = req[r].at /\ req'[r].route = req[r].route
                      /\ req'[r].left = req[r].left
                      /\ req'[r].shown = req[r].shown /\ req'[r].code = req[r].code
                      /\ req'[r].down \subseteq req[r].down /\ req[r].saw \subseteq req'[r].saw
                      /\ Active(req[r]) => /\ phase' \in {"serving", "draining", "late"}
                                           /\ req'[r].down \cap up' = {}
                                           /\ Deps \ up' \subseteq req'[r].saw
                                           /\ phase' = "late" => "deadline" \in req'[r].saw
    BY <1>1, <1>2, WorldStep
  <2>1. req[r] \in RequestType /\ (Active(req[r]) => Outages(req[r]))
    BY Holds DEF RequestOK
  <2>2. CASE Fail(dep)
    BY <1>1, <2>1, <2>2 DEF Fail, Active, Outages, RequestType
  <2>3. CASE Recover(dep)
    BY <1>1, <2>1, <2>3 DEF Recover, Active, Outages, RequestType
  <2>4. QED
    BY <2>2, <2>3
<1>4. QED
  BY <1>1, <1>2, <1>3 DEF IInv, TypeOK, StoresOK, NothingIsLeftOpen, Configured

LEMMA ShutdownStep ==
  ASSUME IInv, Signal \/ Shutdown \/ Deadline \/ Exit
  PROVE  IInv'
<1>1. UNCHANGED <<settings, up>>
  BY DEF Signal, Shutdown, Deadline, Exit
<1>2. \A r \in Slots : /\ req[r] \in RequestType
                       /\ [req[r] EXCEPT !.saw = @ \cup {"deadline"}] \in RequestType
                       /\ Active(req[r]) => Outages(req[r])
                       /\ r \in InFlight <=> Active(req[r])
  BY Holds DEF RequestType, RequestOK, InFlight, Active
<1>3. req' \in [Slots -> RequestType]
  BY <1>2, IdleOK DEF Signal, Shutdown, Deadline, Exit, IInv, TypeOK
<1>4. TypeOK' /\ StoresOK'
  <2>1. phase \in {"serving", "draining", "late"} /\ phase' \in {"draining", "stopped", "late"}
    BY DEF Signal, Shutdown, Deadline, Exit
  <2>2. CASE Signal
    BY <1>1, <1>3, <2>2 DEF Signal, IInv, TypeOK, StoresOK, NothingIsLeftOpen, Phases, Configured
  <2>3. CASE Shutdown \/ Deadline \/ Exit
    <3>1. open' = {}
      BY <2>3 DEF Shutdown, Deadline, Exit, IInv, StoresOK, NothingIsLeftOpen
    <3>2. phase' \in {"stopped", "late"}
      BY <2>3 DEF Shutdown, Deadline, Exit
    <3>3. QED
      BY <1>1, <1>3, <3>1, <3>2 DEF IInv, TypeOK, StoresOK, NothingIsLeftOpen, Phases, Configured
  <2>4. QED
    BY <2>2, <2>3
<1>5. RequestsOK'
  <2>1. CASE Signal \/ Shutdown
    <3>1. UNCHANGED req /\ \A r \in Slots : Active(req[r]) => phase' = "draining"
      BY <1>2, <2>1 DEF Signal, Shutdown, Drained
    <3>2. QED
      BY <1>1, <1>2, <1>3, <3>1, WorldStep DEF Outages
  <2>2. CASE Deadline
    <3>1. phase' = "late"
      BY <2>2 DEF Deadline
    <3>2. \A r \in Slots :
            /\ req'[r].at = req[r].at /\ req'[r].route = req[r].route /\ req'[r].left = req[r].left
            /\ req'[r].shown = req[r].shown /\ req'[r].code = req[r].code
            /\ req'[r].down = req[r].down /\ req[r].saw \subseteq req'[r].saw
            /\ Active(req[r]) => "deadline" \in req'[r].saw
      BY <1>2, <2>2 DEF Deadline, RequestType
    <3>3. QED
      BY <1>1, <1>2, <1>3, <3>1, <3>2, WorldStep DEF Outages
  <2>3. CASE Exit
    <3>1. \A r \in Slots : req'[r] = Idle \/ (req'[r] = req[r] /\ ~Active(req[r]))
      BY <1>2, <2>3 DEF Exit
    <3>2. QED
      BY <1>1, <1>3, <3>1, WorldStep
  <2>4. QED
    BY <2>1, <2>2, <2>3
<1>6. QED
  BY <1>4, <1>5 DEF IInv

-----------------------------------------------------------------------------
(* The invariant holds, and the properties with it.                        *)

LEMMA InitIInv == Init => IInv
<1> SUFFICES ASSUME Init
             PROVE  IInv
  OBVIOUS
<1>1. TypeOK
  BY IdleOK DEF Init, TypeOK, Configured, Phases, Stores, Deps
<1>2. StoresOK
  BY DEF Init, StoresOK, NothingIsLeftOpen
<1>3. RequestsOK
  BY IdleOK DEF Init, RequestsOK
<1>4. QED
  BY <1>1, <1>2, <1>3 DEF IInv

LEMMA NextIInv ==
  ASSUME IInv, [Next]_vars
  PROVE  IInv'
<1>1. CASE UNCHANGED vars
  <2>1. TypeOK' /\ StoresOK'
    BY <1>1 DEF vars, IInv, TypeOK, StoresOK, NothingIsLeftOpen, Configured
  <2>2. RequestsOK'
    BY <1>1, SameWorld DEF vars, IInv, RequestsOK
  <2>3. QED
    BY <2>1, <2>2 DEF IInv
<1>2. ASSUME NEW r \in Slots,
             \/ Stage(r) \/ Handle(r) \/ BeginStream(r) \/ WriteEvent(r) \/ Spill(r)
             \/ EndStream(r) \/ RevokedMeanwhile(r) \/ Leave(r)
      PROVE  IInv'
  BY <1>2, StageStep, HandleStep, BeginStreamStep, StreamStep, EndStreamStep,
     RevokedStep, LeaveStep
<1>3. QED
  BY <1>1, <1>2, StartStep, ArriveStep, DependencyStep, ShutdownStep DEF Next

LEMMA Invariance == Spec => []IInv
<1>1. IInv /\ [Next]_vars => IInv'
  BY NextIInv
<1>2. QED
  BY <1>1, InitIInv, PTL DEF Spec

\* Every variable keeps its type: a request has the middlewares of its chain ahead of
\* it, and gets one of the API's answers.
THEOREM TypeCorrect == Spec => []TypeOK
<1>1. IInv => TypeOK
  BY DEF IInv
<1>2. QED
  BY <1>1, Invariance, PTL

\* A process that could not start, or has stopped, holds no connection, whichever step
\* of the start-up failed and however the shutdown ended.
THEOREM NothingIsLeftOpenHolds == Spec => []NothingIsLeftOpen
<1>1. IInv => NothingIsLeftOpen
  BY DEF IInv, StoresOK
<1>2. QED
  BY <1>1, Invariance, PTL

\* In every configuration no handler behind a token runs without it, and nobody is told
\* to authenticate, or that the installation is revoked, who has the credentials and an
\* installation in good standing, unless verify, refresh or link lost the database.
THEOREM TokensDecideHolds == Spec => []TokensDecide
<1>1. IInv => TokensDecide
  <2> SUFFICES ASSUME IInv, NEW r \in Slots
               PROVE  /\ (InHandler(r) \/ req[r].at = "streaming") /\ Mounted(req[r].route) =>
                           Demanded(req[r].route) \subseteq req[r].shown
                      /\ Fairly(req[r], req[r].code)
    BY DEF TokensDecide, Fairly, IInv, TypeOK
  <2>1. QED
    BY Holds, Admitted DEF RequestOK, AnswerTrue
<1>2. QED
  BY <1>1, Invariance, PTL

\* In every configuration no completion passes while a store that its admission needs
\* has been down since it came, and nobody is told "ready" while a configured store has.
THEOREM FailsClosedHolds == Spec => []FailsClosed
<1>1. IInv => FailsClosed
  BY Holds, Admitted DEF FailsClosed, RequestOK, AnswerTrue, IInv, TypeOK
<1>2. QED
  BY <1>1, Invariance, PTL

\* A request is refused for an unavailable service only if a dependency was down while
\* it ran or the deadline of the shutdown passed: the stores outlive the requests.
THEOREM OutagesAreRealHolds == Spec => []OutagesAreReal
<1>1. IInv => OutagesAreReal
  BY Holds DEF OutagesAreReal, RequestOK, AnswerTrue, IInv, TypeOK
<1>2. QED
  BY <1>1, Invariance, PTL

================================================================================
