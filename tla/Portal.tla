------------------------------- MODULE Portal -------------------------------
(***************************************************************************)
(* The API as a whole: requests pass the guard of Access, run the handlers *)
(* of Field, Release and Changes, and share one database, one queue and    *)
(* one worker.  Access!Spec, in which a handler is any answer, is its      *)
(* abstract specification.                                                 *)
(***************************************************************************)
EXTENDS Changes, TLC

portalVars == <<accessVars, work, jobs, faults, fieldVars, releaseVars, changeVars>>

\* Routes that any signed-in user may call, and those that need no token.
OpenRoles == [login |-> {}, me |-> {}]

PortalRoles == FieldRoles @@ ReleaseRoles @@ ChangeRoles @@ OpenRoles

ASSUME PortalAssumption == RolesOf = PortalRoles /\ Public = {"login"}

\* Supabase signs in, or refuses; me echoes what the guard found.
Login(r) ==
  /\ At(r, "login", "start")
  /\ \/ Done(r, [Idle EXCEPT !.step = "signedIn"])
     \/ Fails(r, "unauthorized")
  /\ UNCHANGED <<jobs, faults, fieldVars, releaseVars, changeVars>>

Me(r) ==
  /\ At(r, "me", "start")
  /\ Done(r, [Idle EXCEPT !.step = "echoed"])
  /\ UNCHANGED <<jobs, faults, fieldVars, releaseVars, changeVars>>

PortalInit == AccessInit /\ FieldInit /\ ReleaseInit /\ ChangesInit

Guarded(r) ==
  /\ \/ \E u \in Users \cup {NoUser}, route \in Routes : Arrive(r, u, route)
     \/ Guard(r)
  /\ UNCHANGED <<work, jobs, faults, fieldVars, releaseVars, changeVars>>

GuardStops(r) ==
  /\ faults < MaxFaults /\ faults' = faults + 1
  /\ GuardFails(r)
  /\ UNCHANGED <<work, jobs, fieldVars, releaseVars, changeVars>>

Handle(r) ==
  \/ FieldStep(r) /\ UNCHANGED <<releaseVars, changeVars>>
  \/ ReleaseStep(r) /\ UNCHANGED changeVars
  \/ ChangesStep(r)
  \/ Login(r) \/ Me(r)

Serve(r) == Guarded(r) \/ Handle(r)

Worker ==
  \E j \in jobs :
    \/ ExportJob(j) /\ UNCHANGED changeVars
    \/ DetectionJob(j)

Repeat == \E j \in jobs : Redeliver(j)

PortalNext ==
  \/ Boot /\ UNCHANGED <<work, jobs, faults, fieldVars, releaseVars, changeVars>>
  \/ \E r \in Requests :
       \/ Serve(r) \/ GuardStops(r)
       \/ HandlerFails(r) /\ UNCHANGED <<releaseVars, changeVars>>
  \/ Worker
  \/ (Environment \/ Crawl \/ Repeat) /\ UNCHANGED changeVars

\* The API goes on with a request it has begun, the worker with a job, and the
\* client of the OGC API with its crawl.
PortalSpec ==
  /\ PortalInit /\ [][PortalNext]_portalVars
  /\ \A r \in Requests : WF_portalVars(Handle(r))
  /\ WF_portalVars(Worker)
  /\ WF_portalVars(Crawl /\ UNCHANGED changeVars)

-----------------------------------------------------------------------------
\* A handler is before its first statement, or after the one that is named.
Steps ==
  {"start", "updated", "recorded", "explained", "replied", "asking", "stored", "created",
   "reviewed", "mailed", "registered", "queued", "built", "put", "linked", "inline", "inserted",
   "classified", "running", "opened", "verified", "audited", "signedIn", "echoed"}

(* Type correctness. *)
PortalTypeOK ==
  /\ AccessTypeOK
  /\ \A r \in Requests : work[r].step \in Steps /\ work[r].alone \in BOOLEAN
  /\ \A j \in jobs : j.at \in {"queued", "read", "uploaded", "finished"}
  /\ faults \in 0..MaxFaults
  /\ property \in [status : Verdicts, verdict : Verdicts]
  /\ DOMAIN tickets \subseteq Requests \cup {FirstTicket}
  /\ DOMAIN tiles \subseteq Requests
  /\ records \in [Wards -> 1..LastVersion]
  /\ minute \in 0..MaxMinute
  /\ DOMAIN exports \subseteq Requests
  /\ \A r \in DOMAIN exports :
       exports[r] \in [ward : Wards, status : {"processing", "ready", "failed"},
                       key : {<<>>} \cup DOMAIN shelf, count : Nat]
  /\ runs \in [DOMAIN runs -> {"queued", "running", "done", "failed"}]
  /\ \A d \in detections : d.run \in DOMAIN runs
  /\ crawl.offset \in Nat
  /\ repeats \in 0..MaxRepeats /\ overlapped \subseteq repeated /\ repeated \subseteq Requests

\* What was begun for a request that was answered comes to its end: an export
\* leaves processing, a change run is done or failed, and the client that
\* follows the pages of a collection reaches the last, through one failed
\* attempt and one repeated delivery.  (The rows are inserted before the push:
\* only a request that was refused strands one.)
ErrandsEnd == ExportsEnd /\ RunsSettle /\ CrawlsEnd
=============================================================================
