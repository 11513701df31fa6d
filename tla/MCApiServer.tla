----------------------------- MODULE MCApiServer -----------------------------
(* Instances of ApiServer for TLC: concurrent requests to a production     *)
(* server that is shut down under them, and in the other scenario single   *)
(* requests to every route of differently configured servers.              *)
EXTENDS ApiServer

VARIABLE scenario

\* Configurations from nothing to production, and the two a check would miss.
Deployments ==
    {{}, {"auth", "redis", "limit", "streaming"}, {"database", "admin"},
     {"auth", "redis", "database", "quality", "admin", "limit", "quota", "streaming", "required"}}

Production == {{"auth", "redis", "database", "quality", "limit", "quota", "streaming"}}

Visitors == {{}, {"installation"}, {"installation", "user", "session", "code", "linked"}, {"user"}, {"admin"},
             {"installation", "user", "revoked"}}

Members == {{"installation", "user", "session", "linked"}}

AllRoutes == AuthRoutes \cup UserRoutes \cup AdminRoutes \cup Metered \cup
             {"root", "health", "ready", "register", "requirement", "admin.page", "quality", "unknown"}

Single == INSTANCE ApiServer
    WITH Slots <- {1}, Settings <- Deployments, Routes <- AllRoutes, Clients <- Visitors,
         MayFail <- {"redis", "database", "mail"}

MCInit ==
    \/ scenario = "busy" /\ Init
    \/ scenario = "single" /\ Single!Init

MCNext ==
    /\ UNCHANGED scenario
    /\ \/ scenario = "busy" /\ Next
       \/ scenario = "single" /\ Single!Next

MCSpec == MCInit /\ [][MCNext]_<<vars, scenario>>
=============================================================================
