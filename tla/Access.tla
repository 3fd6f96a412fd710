------------------------------- MODULE Access -------------------------------
(***************************************************************************)
(* How a request reaches a handler of the API: the boot check on the       *)
(* configuration, the global AuthGuard with its self-provisioned profiles, *)
(* the roles a route asks for, and the status the exception filter gives   *)
(* to an error.  The handlers are abstract here: a request that is in its  *)
(* handler may end with any status.  Portal fills them in and is checked   *)
(* against this specification.                                             *)
(*                                                                         *)
(* PostgreSQL runs each statement of the guard at once, and nothing holds  *)
(* a lock between two of them: requests interleave at every statement.     *)
(***************************************************************************)
EXTENDS Naturals, FiniteSets

CONSTANTS
  Requests,   \* the requests that may be sent, each at most once
  Users,      \* the accounts that Supabase knows
  NoUser,     \* the sender of a request with no token, or an invalid one
  DevUser,    \* the user of every request when authentication is off
  NoRole,     \* a user without a row in profiles
  Starts,     \* the environments the API may be started in, with the contents of profiles
  Routes,     \* the routes of the API
  RolesOf,    \* the roles @Roles names for a route, none for a route open to all
  Public      \* the routes marked @Public

Roles == {"admin", "official", "analyst", "citizen"}

\* The frontend is not local, the operator accepts it, profiles are in PostgreSQL.
Environments == [bypass : BOOLEAN, remote : BOOLEAN, allowed : BOOLEAN, local : BOOLEAN]

ASSUME AccessAssumption ==
  /\ NoUser \notin Users /\ DevUser \notin Users /\ NoUser # DevUser
  /\ NoRole \notin Roles
  /\ Starts \subseteq [traffic : SUBSET Routes, env : Environments,
                      profiles : [Users -> Roles \cup {NoRole}]]
  /\ Routes # {}
  /\ RolesOf \in [Routes -> SUBSET Roles]
  /\ Public \subseteq Routes

VARIABLES
  traffic,    \* the routes that clients call
  env,        \* the environment variables the API was started with
  up,         \* the API has booted
  profiles,   \* the role in the profiles row of each user
  call        \* where each request is, and what the guard knows of it

accessVars == <<traffic, env, up, profiles, call>>

Stages == {"unsent", "token", "lookup", "provision", "roles", "handler", "done"}
Statuses == {"none", "ok", "400", "401", "403", "404", "500", "503"}

\* adminThen and stranger are history: an admin existed when the request
\* came, and the guard made the profile of its user.
Call == [at : Stages, user : Users \cup {NoUser, DevUser}, route : Routes,
         role : Roles \cup {NoRole}, sawAdmin : BOOLEAN, status : Statuses,
         adminThen : BOOLEAN, stranger : BOOLEAN]

AdminExists == \E u \in Users : profiles[u] = "admin"

-----------------------------------------------------------------------------
(* Boot. *)

\* Authentication may only be off when every frontend origin is local, or
\* when the operator says that the deployment is deliberately open.
SafeAuthConfig(c) == c.bypass /\ c.remote => c.allowed

AccessInit ==
  /\ \E s \in Starts : traffic = s.traffic /\ env = s.env /\ profiles = s.profiles
  /\ up = FALSE
  /\ call = [r \in Requests |->
       [at |-> "unsent", user |-> NoUser, route |-> CHOOSE x \in Routes : TRUE, role |-> NoRole,
        sawAdmin |-> FALSE, status |-> "none", adminThen |-> FALSE, stranger |-> FALSE]]

Boot ==
  /\ ~up /\ SafeAuthConfig(env)
  /\ up' = TRUE
  /\ UNCHANGED <<traffic, env, profiles, call>>

-----------------------------------------------------------------------------
(* The exception filter: the status of an error that leaves the guard or a *)
(* handler.  Errors that carry a driver's code are never taken for a 404   *)
(* or a 400, whatever their text says.                                     *)

Errors == {"badRequest", "unauthorized", "notFound", "typeError", "connection", "sql"}

StatusOf(err) ==
  CASE err = "badRequest" -> "400"
    [] err = "unauthorized" -> "401"
    [] err = "notFound" -> "404"
    [] err = "connection" -> "503"
    [] OTHER -> "500"

-----------------------------------------------------------------------------
(* AuthGuard.canActivate, one step per statement. *)

Goto(r, stage) == call' = [call EXCEPT ![r].at = stage]

Arrive(r, u, route) ==
  /\ up /\ call[r].at = "unsent" /\ route \in traffic
  /\ call' = [call EXCEPT ![r].at = "token", ![r].user = u, ![r].route = route,
                          ![r].adminThen = AdminExists]
  /\ UNCHANGED <<traffic, env, up, profiles>>

PassPublic(r) ==
  /\ call[r].at = "token" /\ call[r].route \in Public
  /\ Goto(r, "handler")
  /\ UNCHANGED <<traffic, env, up, profiles>>

\* With the bypass the x-dev-role header names the role, admin by default.
PassOpen(r) ==
  /\ call[r].at = "token" /\ call[r].route \notin Public /\ env.bypass
  /\ \E role \in Roles :
       call' = [call EXCEPT ![r].at = "roles", ![r].user = DevUser, ![r].role = role]
  /\ UNCHANGED <<traffic, env, up, profiles>>

RejectToken(r) ==
  /\ call[r].at = "token" /\ call[r].route \notin Public /\ ~env.bypass
  /\ call[r].user = NoUser
  /\ call' = [call EXCEPT ![r].at = "done", ![r].status = "401"]
  /\ UNCHANGED <<traffic, env, up, profiles>>

HasToken(r) ==
  /\ call[r].at = "token" /\ call[r].route \notin Public /\ ~env.bypass
  /\ call[r].user \in Users

\* roleFromSupabase: the hosted table may say anything, or have no row.
RoleFromSupabase(r) ==
  /\ HasToken(r) /\ ~env.local
  /\ \E role \in Roles : call' = [call EXCEPT ![r].at = "roles", ![r].role = role]
  /\ UNCHANGED <<traffic, env, up, profiles>>

\* roleFromLocal: the INSERT into auth.users changes nothing that is read here.
RememberUser(r) ==
  /\ HasToken(r) /\ env.local
  /\ Goto(r, "lookup")
  /\ UNCHANGED <<traffic, env, up, profiles>>

LookForAdmin(r) ==
  /\ call[r].at = "lookup"
  /\ call' = [call EXCEPT ![r].at = "provision", ![r].sawAdmin = AdminExists]
  /\ UNCHANGED <<traffic, env, up, profiles>>

(* Mutant: the look for an admin is forgotten. *)
DefaultRoleUnchecked(r) == "admin"

DefaultRole(r) == IF call[r].sawAdmin THEN "citizen" ELSE "admin"

(* Mutant: DO NOTHING, and the role is the default whatever the row says. *)
ProvisionDoingNothing(r) ==
  LET u == call[r].user
      role == DefaultRole(r)
  IN  /\ call[r].at = "provision"
      /\ profiles' = [profiles EXCEPT ![u] = IF @ = NoRole THEN role ELSE @]
      /\ call' = [call EXCEPT ![r].at = "roles", ![r].role = role,
                              ![r].stranger = (profiles[u] = NoRole)]
      /\ UNCHANGED <<traffic, env, up>>

\* INSERT ... ON CONFLICT (id) DO UPDATE SET email RETURNING role
Provision(r) ==
  LET u == call[r].user
      role == IF profiles[u] = NoRole THEN DefaultRole(r) ELSE profiles[u]
  IN  /\ call[r].at = "provision"
      /\ profiles' = [profiles EXCEPT ![u] = role]
      /\ call' = [call EXCEPT ![r].at = "roles", ![r].role = role,
                              ![r].stranger = (profiles[u] = NoRole)]
      /\ UNCHANGED <<traffic, env, up>>

Permitted(r) ==
  LET wanted == RolesOf[call[r].route] IN wanted = {} \/ call[r].role \in wanted

Admit(r) ==
  /\ call[r].at = "roles" /\ Permitted(r)
  /\ Goto(r, "handler")
  /\ UNCHANGED <<traffic, env, up, profiles>>

Forbid(r) ==
  /\ call[r].at = "roles" /\ ~Permitted(r)
  /\ call' = [call EXCEPT ![r].at = "done", ![r].status = "403"]
  /\ UNCHANGED <<traffic, env, up, profiles>>

Answered(r, status) ==
  /\ call[r].at = "handler"
  /\ call' = [call EXCEPT ![r].at = "done", ![r].status = status]

\* A handler returns, or throws: its error leaves through the filter.
Return(r) == Answered(r, "ok") /\ UNCHANGED <<traffic, env, up, profiles>>
Throw(r, err) == Answered(r, StatusOf(err)) /\ UNCHANGED <<traffic, env, up, profiles>>

\* A statement of the guard fails: nothing after it is done.
GuardFails(r) ==
  /\ call[r].at \in {"lookup", "provision"}
  /\ call' = [call EXCEPT ![r].at = "done", ![r].status = StatusOf("connection")]
  /\ UNCHANGED <<traffic, env, up, profiles>>

Guard(r) ==
  \/ PassPublic(r) \/ PassOpen(r) \/ RejectToken(r)
  \/ RoleFromSupabase(r) \/ RememberUser(r) \/ LookForAdmin(r) \/ Provision(r)
  \/ Admit(r) \/ Forbid(r)

Handler(r) == Return(r) \/ \E err \in Errors : Throw(r, err)

AccessNext ==
  \/ Boot
  \/ \E r \in Requests :
       \/ \E u \in Users \cup {NoUser}, route \in Routes : Arrive(r, u, route)
       \/ Guard(r) \/ GuardFails(r) \/ Handler(r)

AccessSpec == AccessInit /\ [][AccessNext]_accessVars

-----------------------------------------------------------------------------
(* Type correctness: see the comments of the variables. *)
AccessTypeOK ==
  /\ traffic \in SUBSET Routes /\ env \in Environments
  /\ up \in BOOLEAN
  /\ profiles \in [Users -> Roles \cup {NoRole}]
  /\ call \in [Requests -> Call]

\* Who signs in for the first time when an admin exists already becomes a
\* citizen, however its request interleaves with those of other strangers
\* (roleFromLocal looks for an admin in one statement and inserts the row in
\* another).
StrangersBecomeCitizens ==
  \A r \in Requests : call[r].stranger /\ call[r].adminThen => call[r].role = "citizen"

\* A request with profiles in the local table that is in its handler has the
\* role of its user's row, and one the route asks for: the row another request
\* of the same user has inserted meanwhile wins over the default.
HandlersAreEntitled ==
  \A r \in Requests :
    /\ call[r].at = "handler" /\ call[r].route \notin Public /\ ~env.bypass /\ env.local
    => /\ call[r].role = profiles[call[r].user]
       /\ Permitted(r)
=============================================================================
