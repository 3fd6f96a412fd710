----------------------------- MODULE MCPortal -----------------------------
(* Instances of Portal for TLC: two requests, two users. *)
EXTENDS Portal

MCEnv(bypass, remote, allowed, local) ==
  [bypass |-> bypass, remote |-> remote, allowed |-> allowed, local |-> local]

MCConfigs ==
  {MCEnv(FALSE, TRUE, FALSE, TRUE),     \* deployed, profiles in PostgreSQL
   MCEnv(FALSE, TRUE, FALSE, FALSE),    \* deployed, profiles in Supabase
   MCEnv(TRUE, FALSE, FALSE, TRUE),     \* on a developer's machine
   MCEnv(TRUE, TRUE, FALSE, TRUE)}      \* deployed with the bypass: refuses to boot

MCProfiles(first, second) == [u \in Users |-> IF u = "u1" THEN first ELSE second]

\* Routes that share state are called together; who may sign in for the first
\* time, and how, matters to the guard alone.
MCTraffics ==
  {{"verify"}, {"reviewTicket", "createTicket"}, {"explain", "chat"},
   {"alert", "tile"}, {"exportCsv"}, {"geojson"}, {"items"}, {"readiness"},
   {"refresh", "uploadCsv", "dbConfig"}}

Deployed == MCEnv(FALSE, TRUE, FALSE, TRUE)

MCStrangers ==
  {[traffic |-> {"dbConfig", "me"}, env |-> Deployed, profiles |-> MCProfiles(role, NoRole)] :
     role \in {NoRole, "admin"}}

MCOfficers(traffics) ==
  {[traffic |-> t, env |-> Deployed, profiles |-> MCProfiles("admin", "official")] : t \in traffics}

\* Routes that leave a job behind: both requests are the administrator's.
MCErrands ==
  {[traffic |-> t, env |-> Deployed, profiles |-> MCProfiles("admin", "citizen")] :
     t \in {{"gpkg"}, {"runChanges", "verifyChange"}}}

MCStarts ==
  MCStrangers \cup MCOfficers(MCTraffics) \cup MCErrands \cup
  {[traffic |-> {"dbConfig", "login"}, env |-> e, profiles |-> MCProfiles("admin", NoRole)] :
     e \in MCConfigs}

MCRolesOf == PortalRoles
MCRoutes == DOMAIN PortalRoles
MCRows == <<2, 3>>
MCSizes == {0, 1, 1999, 2000}
MCLimits == {-1, 0, 2}
=============================================================================
