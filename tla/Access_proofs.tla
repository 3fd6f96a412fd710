---------------------------- MODULE Access_proofs ----------------------------
(***************************************************************************)
(* Proofs about the guard, for every set of requests, users and routes,    *)
(* every environment and every contents of profiles at the start.          *)
(***************************************************************************)
EXTENDS Access, TLAPS

USE AccessAssumption

\* Every request of a deployed API with profiles in the local table.
Checked(r) == call[r].route \notin Public /\ ~env.bypass /\ env.local

\* What the guard knows at each stage, and how far it can still be trusted:
\* a profile, once there, is never taken away, so an admin seen stays one.
StageOK(r) ==
  /\ call[r].at \in {"lookup", "provision"} => Checked(r) /\ call[r].user \in Users
  /\ call[r].at \in {"roles", "handler"} /\ Checked(r) =>
       /\ call[r].user \in Users
       /\ call[r].role \in Roles
       /\ call[r].role = profiles[call[r].user]
  /\ call[r].at = "handler" /\ call[r].route \notin Public => Permitted(r)

StrangerOK(r) ==
  /\ call[r].adminThen => AdminExists
  /\ call[r].at \in {"unsent", "token", "lookup", "provision"} => ~call[r].stranger
  /\ call[r].at = "provision" /\ call[r].adminThen => call[r].sawAdmin
  /\ call[r].stranger /\ call[r].adminThen => call[r].role = "citizen"

AccessInv == AccessTypeOK /\ \A r \in Requests : StageOK(r) /\ StrangerOK(r)

-----------------------------------------------------------------------------
(* A step that moves one request and leaves the profiles keeps the          *)
(* invariant if what it writes into the request is right.                   *)
LEMMA OneRequestMoves ==
  ASSUME AccessInv, NEW r \in Requests, NEW c \in Call,
         call' = [call EXCEPT ![r] = c],
         UNCHANGED <<traffic, env, up, profiles>>,
         StageOK(r)', StrangerOK(r)'
  PROVE  AccessInv'
<1>1. AccessTypeOK'
  BY DEF AccessInv, AccessTypeOK
<1>2. ASSUME NEW s \in Requests
      PROVE  StageOK(s)' /\ StrangerOK(s)'
  <2>1. CASE s = r
    BY <2>1
  <2>2. CASE s # r
    <3>1. call'[s] = call[s]
      BY <2>2 DEF AccessInv, AccessTypeOK
    <3> QED BY <3>1 DEF AccessInv, StageOK, StrangerOK, Checked, Permitted, AdminExists
  <2> QED BY <2>1, <2>2
<1> QED BY <1>1, <1>2 DEF AccessInv

LEMMA InitInv == AccessInit => AccessInv
<1> SUFFICES ASSUME AccessInit PROVE AccessInv
  OBVIOUS
<1>1. (CHOOSE x \in Routes : TRUE) \in Routes
  OBVIOUS
<1>2. AccessTypeOK
  BY <1>1 DEF AccessInit, AccessTypeOK, Call, Stages, Statuses
<1>3. \A r \in Requests : StageOK(r) /\ StrangerOK(r)
  BY DEF AccessInit, StageOK, StrangerOK
<1> QED BY <1>2, <1>3 DEF AccessInv

(* The call of r, as a record. *)
LEMMA CallIsTyped ==
  ASSUME AccessInv, NEW r \in Requests
  PROVE  /\ call[r] \in Call
         /\ call \in [Requests -> Call]
  BY DEF AccessInv, AccessTypeOK

LEMMA ArriveKeeps ==
  ASSUME AccessInv, NEW r \in Requests, NEW u \in Users \cup {NoUser}, NEW route \in Routes,
         Arrive(r, u, route)
  PROVE  AccessInv'
<1> DEFINE c == [call[r] EXCEPT !.at = "token", !.user = u, !.route = route, !.adminThen = AdminExists]
<1>1. call[r] \in Call
  BY CallIsTyped
<1>2. c \in Call
  BY <1>1 DEF Call, Stages, AdminExists
<1>3. call' = [call EXCEPT ![r] = c] /\ UNCHANGED <<traffic, env, up, profiles>> /\ call[r].at = "unsent"
  BY DEF Arrive
<1>4. call'[r] = c
  BY <1>3, CallIsTyped
<1>5. StageOK(r)'
  BY <1>1, <1>4 DEF StageOK, Call
<1>6. AdminExists' = AdminExists
  BY <1>3 DEF AdminExists
<1>7. StrangerOK(r)'
  BY <1>1, <1>3, <1>4, <1>6 DEF StrangerOK, Call, AccessInv
<1> QED BY <1>2, <1>3, <1>5, <1>7, OneRequestMoves

(* A request that goes to its handler, to the look for an admin or to its   *)
(* end keeps what the guard knows of it.                                    *)
LEMMA StageMoves ==
  ASSUME AccessInv, NEW r \in Requests, NEW c,
         NEW at \in {"lookup", "handler", "done"}, NEW status \in Statuses,
         c = [call[r] EXCEPT !.at = at, !.status = status],
         call' = [call EXCEPT ![r] = c],
         UNCHANGED <<traffic, env, up, profiles>>,
         at = "lookup" => call[r].at = "token" /\ Checked(r) /\ call[r].user \in Users,
         at = "handler" => \/ call[r].route \in Public
                           \/ call[r].at = "roles" /\ Permitted(r)
  PROVE  AccessInv'
<1>1. call[r] \in Call
  BY CallIsTyped
<1>2. c \in Call
  BY <1>1 DEF Call, Stages
<1>3. call'[r] = c
  BY CallIsTyped
<1>4. /\ c.at = at /\ c.user = call[r].user /\ c.route = call[r].route /\ c.role = call[r].role
      /\ c.adminThen = call[r].adminThen /\ c.stranger = call[r].stranger
  BY <1>1 DEF Call
<1>5. StageOK(r) /\ StrangerOK(r)
  BY DEF AccessInv
<1>6. StageOK(r)'
  BY <1>3, <1>4, <1>5 DEF StageOK, Checked, Permitted
<1>7. StrangerOK(r)'
  <2>1. AdminExists' = AdminExists
    BY DEF AdminExists
  <2> QED BY <1>3, <1>4, <1>5, <2>1 DEF StrangerOK
<1> QED BY <1>2, <1>6, <1>7, OneRequestMoves

(* A request whose role is found outside the local table. *)
LEMMA RoleMoves ==
  ASSUME AccessInv, NEW r \in Requests, NEW role \in Roles, NEW u \in Users \cup {DevUser}, NEW c,
         call[r].at = "token", ~Checked(r), call[r].route \notin Public,
         c = [call[r] EXCEPT !.at = "roles", !.user = u, !.role = role],
         call' = [call EXCEPT ![r] = c],
         UNCHANGED <<traffic, env, up, profiles>>
  PROVE  AccessInv'
<1>1. call[r] \in Call
  BY CallIsTyped
<1>2. c \in Call
  BY <1>1 DEF Call, Stages
<1>3. call'[r] = c
  BY CallIsTyped
<1>4. /\ c.at = "roles" /\ c.route = call[r].route
      /\ c.adminThen = call[r].adminThen /\ c.stranger = call[r].stranger
  BY <1>1 DEF Call
<1>5. StrangerOK(r)
  BY DEF AccessInv
<1>6. StageOK(r)'
  BY <1>3, <1>4 DEF StageOK, Checked
<1>7. StrangerOK(r)'
  <2>1. AdminExists' = AdminExists
    BY DEF AdminExists
  <2> QED BY <1>3, <1>4, <1>5, <2>1 DEF StrangerOK
<1> QED BY <1>2, <1>6, <1>7, OneRequestMoves

LEMMA LookForAdminKeeps ==
  ASSUME AccessInv, NEW r \in Requests, LookForAdmin(r)
  PROVE  AccessInv'
<1> DEFINE c == [call[r] EXCEPT !.at = "provision", !.sawAdmin = AdminExists]
<1>1. call[r] \in Call
  BY CallIsTyped
<1>2. c \in Call
  BY <1>1 DEF Call, Stages, AdminExists
<1>3. call' = [call EXCEPT ![r] = c] /\ UNCHANGED <<traffic, env, up, profiles>> /\ call[r].at = "lookup"
  BY DEF LookForAdmin
<1>4. call'[r] = c
  BY <1>3, CallIsTyped
<1>5. /\ c.at = "provision" /\ c.route = call[r].route /\ c.user = call[r].user
      /\ c.adminThen = call[r].adminThen /\ c.stranger = call[r].stranger
      /\ c.sawAdmin = AdminExists
  BY <1>1 DEF Call
<1> HIDE DEF c
<1>6. StageOK(r) /\ StrangerOK(r)
  BY DEF AccessInv
<1>7. StageOK(r)'
  BY <1>3, <1>4, <1>5, <1>6 DEF StageOK, Checked
<1>8. StrangerOK(r)'
  <2>1. AdminExists' = AdminExists
    BY <1>3 DEF AdminExists
  <2> QED BY <1>3, <1>4, <1>5, <1>6, <2>1 DEF StrangerOK
<1> QED BY <1>2, <1>3, <1>7, <1>8, OneRequestMoves

(* The statement that makes a profile, or finds it: the one step that       *)
(* writes what other requests rely on.  A profile that is there stays as    *)
(* it is, so their roles and the admin they saw are still right.            *)
LEMMA ProvisionKeeps ==
  ASSUME AccessInv, NEW r \in Requests, Provision(r)
  PROVE  AccessInv'
<1> DEFINE u == call[r].user
           role == IF profiles[u] = NoRole THEN DefaultRole(r) ELSE profiles[u]
           c == [call[r] EXCEPT !.at = "roles", !.role = role, !.stranger = (profiles[u] = NoRole)]
<1>1. call[r] \in Call /\ profiles \in [Users -> Roles \cup {NoRole}]
  BY CallIsTyped DEF AccessInv, AccessTypeOK
<1>2. StageOK(r) /\ StrangerOK(r) /\ call[r].at = "provision"
  BY DEF AccessInv, Provision
<1>3. u \in Users /\ Checked(r)
  BY <1>2 DEF StageOK
<1>4. role \in Roles /\ (profiles[u] # NoRole => role = profiles[u])
  BY <1>1, <1>3 DEF DefaultRole, Roles
<1>5. /\ profiles' = [profiles EXCEPT ![u] = role]
      /\ call' = [call EXCEPT ![r] = c]
      /\ UNCHANGED <<traffic, env, up>>
  BY DEF Provision
<1>6. c \in Call
  BY <1>1, <1>4 DEF Call, Stages
<1>7. /\ c.at = "roles" /\ c.route = call[r].route /\ c.user = u /\ c.role = role
      /\ c.adminThen = call[r].adminThen /\ c.stranger = (profiles[u] = NoRole)
  BY <1>1 DEF Call
<1>8. profiles[u] = NoRole => role = DefaultRole(r)
  OBVIOUS
<1> HIDE DEF c, role
<1>9. AccessTypeOK'
  BY <1>1, <1>3, <1>4, <1>5, <1>6 DEF AccessInv, AccessTypeOK
<1>10. \A v \in Users : profiles[v] # NoRole => profiles'[v] = profiles[v]
  BY <1>1, <1>3, <1>4, <1>5
<1>11. AdminExists => AdminExists'
  BY <1>10 DEF AdminExists, Roles
<1>12. ASSUME NEW s \in Requests
       PROVE  StageOK(s)' /\ StrangerOK(s)'
  <2>1. CASE s = r
    <3>1. call'[s] = c /\ profiles'[u] = role
      BY <1>1, <1>3, <1>5, <2>1, CallIsTyped
    <3>2. StageOK(s)'
      BY <1>3, <1>4, <1>5, <1>7, <3>1 DEF StageOK, Checked
    <3>3. c.stranger /\ c.adminThen => c.role = "citizen"
      BY <1>2, <1>7, <1>8 DEF StrangerOK, DefaultRole
    <3>4. StrangerOK(s)'
      BY <1>2, <1>7, <1>11, <3>1, <3>3 DEF StrangerOK
    <3> QED BY <3>2, <3>4
  <2>2. CASE s # r
    <3>1. call'[s] = call[s] /\ StageOK(s) /\ StrangerOK(s)
      BY <1>5, <2>2, CallIsTyped DEF AccessInv
    <3>2. StageOK(s)'
      BY <1>5, <1>10, <3>1 DEF StageOK, Checked, Permitted
    <3>3. StrangerOK(s)'
      BY <1>11, <3>1 DEF StrangerOK
    <3> QED BY <3>2, <3>3
  <2> QED BY <2>1, <2>2
<1> QED BY <1>9, <1>12 DEF AccessInv

LEMMA StatusIsTyped ==
  ASSUME NEW err
  PROVE  StatusOf(err) \in Statuses
  BY DEF StatusOf, Statuses

(* A move that writes the stage alone, and one that answers the request. *)
LEMMA GotoKeeps ==
  ASSUME AccessInv, NEW r \in Requests, NEW at \in {"lookup", "handler"},
         Goto(r, at), UNCHANGED <<traffic, env, up, profiles>>,
         at = "lookup" => call[r].at = "token" /\ Checked(r) /\ call[r].user \in Users,
         at = "handler" => \/ call[r].route \in Public
                           \/ call[r].at = "roles" /\ Permitted(r)
  PROVE  AccessInv'
<1> DEFINE c == [call[r] EXCEPT !.at = at, !.status = call[r].status]
<1>1. call[r] \in Call
  BY CallIsTyped
<1>2. call[r].status \in Statuses
  BY <1>1 DEF Call
<1>3. call' = [call EXCEPT ![r] = c]
  BY <1>1 DEF Goto, Call
<1> HIDE DEF c
<1> QED BY <1>2, <1>3, StageMoves DEF c

LEMMA AnswerKeeps ==
  ASSUME AccessInv, NEW r \in Requests, NEW status \in Statuses,
         call' = [call EXCEPT ![r].at = "done", ![r].status = status],
         UNCHANGED <<traffic, env, up, profiles>>
  PROVE  AccessInv'
<1> DEFINE c == [call[r] EXCEPT !.at = "done", !.status = status]
<1>1. call' = [call EXCEPT ![r] = c]
  OBVIOUS
<1> HIDE DEF c
<1> QED BY <1>1, StageMoves DEF c

LEMMA GuardKeeps ==
  ASSUME AccessInv, NEW r \in Requests, Guard(r)
  PROVE  AccessInv'
<1>1. CASE PassPublic(r)
  BY <1>1, GotoKeeps DEF PassPublic
<1>2. CASE PassOpen(r)
  <2>1. PICK role \in Roles :
          call' = [call EXCEPT ![r].at = "roles", ![r].user = DevUser, ![r].role = role]
    BY <1>2 DEF PassOpen
  <2> DEFINE c == [call[r] EXCEPT !.at = "roles", !.user = DevUser, !.role = role]
  <2>2. call' = [call EXCEPT ![r] = c]
    BY <2>1
  <2>3. call[r].at = "token" /\ ~Checked(r) /\ call[r].route \notin Public
        /\ UNCHANGED <<traffic, env, up, profiles>>
    BY <1>2 DEF PassOpen, Checked
  <2> HIDE DEF c
  <2> QED BY <2>2, <2>3, RoleMoves DEF c
<1>3. CASE RejectToken(r)
  BY <1>3, AnswerKeeps DEF RejectToken, Statuses
<1>4. CASE RoleFromSupabase(r)
  <2>1. PICK role \in Roles : call' = [call EXCEPT ![r].at = "roles", ![r].role = role]
    BY <1>4 DEF RoleFromSupabase
  <2> DEFINE u == call[r].user
             c == [call[r] EXCEPT !.at = "roles", !.user = u, !.role = role]
  <2>2. call[r] \in Call
    BY CallIsTyped
  <2>3. call' = [call EXCEPT ![r] = c]
    BY <2>1, <2>2 DEF Call
  <2>4. call[r].at = "token" /\ ~Checked(r) /\ call[r].route \notin Public /\ u \in Users
        /\ UNCHANGED <<traffic, env, up, profiles>>
    BY <1>4 DEF RoleFromSupabase, HasToken, Checked
  <2> HIDE DEF c, u
  <2> QED BY <2>3, <2>4, RoleMoves DEF c
<1>5. CASE RememberUser(r)
  BY <1>5, GotoKeeps DEF RememberUser, HasToken, Checked
<1>6. CASE LookForAdmin(r)
  BY <1>6, LookForAdminKeeps
<1>7. CASE Provision(r)
  BY <1>7, ProvisionKeeps
<1>8. CASE Admit(r)
  BY <1>8, GotoKeeps DEF Admit
<1>9. CASE Forbid(r)
  BY <1>9, AnswerKeeps DEF Forbid, Statuses
<1> QED BY <1>1, <1>2, <1>3, <1>4, <1>5, <1>6, <1>7, <1>8, <1>9 DEF Guard

LEMMA StepInv == AccessInv /\ [AccessNext]_accessVars => AccessInv'
<1> SUFFICES ASSUME AccessInv, [AccessNext]_accessVars PROVE AccessInv'
  OBVIOUS
<1>1. CASE Boot
  BY <1>1 DEF Boot, AccessInv, AccessTypeOK, StageOK, StrangerOK, Checked, Permitted, AdminExists
<1>2. CASE UNCHANGED accessVars
  BY <1>2 DEF accessVars, AccessInv, AccessTypeOK, StageOK, StrangerOK, Checked, Permitted, AdminExists
<1>3. ASSUME NEW r \in Requests, NEW u \in Users \cup {NoUser}, NEW route \in Routes, Arrive(r, u, route)
      PROVE  AccessInv'
  BY <1>3, ArriveKeeps
<1>4. ASSUME NEW r \in Requests, Guard(r)
      PROVE  AccessInv'
  BY <1>4, GuardKeeps
<1>5. ASSUME NEW r \in Requests, GuardFails(r)
      PROVE  AccessInv'
  BY <1>5, AnswerKeeps, StatusIsTyped DEF GuardFails
<1>6. ASSUME NEW r \in Requests, Handler(r)
      PROVE  AccessInv'
  <2>1. CASE Return(r)
    BY <2>1, AnswerKeeps DEF Return, Answered, Statuses
  <2>2. ASSUME NEW err \in Errors, Throw(r, err)
        PROVE  AccessInv'
    BY <2>2, AnswerKeeps, StatusIsTyped DEF Throw, Answered
  <2> QED BY <1>6, <2>1, <2>2 DEF Handler
<1> QED BY <1>1, <1>2, <1>3, <1>4, <1>5, <1>6 DEF AccessNext

-----------------------------------------------------------------------------
(* The guard keeps AccessInv whatever the handlers answer. *)
THEOREM GuardInvariant == AccessSpec => []AccessInv
  BY InitInv, StepInv, PTL DEF AccessSpec

(* Every variable of the guard keeps its type (auth.guard.ts). *)
THEOREM TypeCorrect == AccessSpec => []AccessTypeOK
<1>1. AccessInv => AccessTypeOK
  BY DEF AccessInv
<1> QED BY <1>1, GuardInvariant, PTL

(* Who signs in for the first time when there is an admin becomes a         *)
(* citizen (roleFromLocal), however many requests come at once.             *)
THEOREM Strangers == AccessSpec => []StrangersBecomeCitizens
<1>1. AccessInv => StrangersBecomeCitizens
  BY DEF AccessInv, StrangerOK, StrangersBecomeCitizens
<1> QED BY <1>1, GuardInvariant, PTL

(* A request in its handler has the role of its user's row, and one that    *)
(* its route asks for (canActivate).                                        *)
THEOREM Entitled == AccessSpec => []HandlersAreEntitled
<1>1. AccessInv => HandlersAreEntitled
  BY DEF AccessInv, StageOK, HandlersAreEntitled, Checked
<1> QED BY <1>1, GuardInvariant, PTL
=============================================================================
