------------------------------ MODULE Changes ------------------------------
(***************************************************************************)
(* Change detection between two structure layers: a run is requested, the  *)
(* worker replaces the detections of the run, officers verify them.        *)
(***************************************************************************)
EXTENDS Release

VARIABLES
  runs,         \* change_runs: the status of each
  detections    \* change_detections: the run they are of, and the officers' verdict

changeVars == <<runs, detections>>

ChangeRoles ==
  [runChanges |-> {"admin", "analyst"}, verifyChange |-> {"official", "admin", "analyst"}]

\* A run of last month, with one structure found and not yet verified.
OldRun == "old"

ASSUME ChangesAssumption == OldRun \notin Requests

ChangesInit ==
  /\ runs = [x \in {OldRun} |-> "done"]
  /\ detections = {[run |-> OldRun, verdict |-> "pending"]}

-----------------------------------------------------------------------------
(* ChangesController.run. *)

RunChanges(r) ==
  /\ At(r, "runChanges", "start")
  /\ \/ /\ \/ Fails(r, "badRequest")   \* the same source twice, or not a polygon layer
           \/ Fails(r, "notFound")     \* an unknown source
        /\ UNCHANGED runs
     \/ /\ runs' = [x \in DOMAIN runs \cup {r} |-> IF x = r THEN "queued" ELSE runs[x]]
        /\ Move(r, [Idle EXCEPT !.step = "inserted"])
  /\ UNCHANGED <<jobs, faults, fieldVars, releaseVars, detections>>

QueueChanges(r) ==
  /\ At(r, "runChanges", "inserted")
  /\ Push("DETECT_CHANGES", r)
  /\ Move(r, [work[r] EXCEPT !.step = "queued"])
  /\ UNCHANGED <<faults, fieldVars, releaseVars, changeVars>>

AuditRun(r) ==
  /\ At(r, "runChanges", "queued")
  /\ Done(r, [work[r] EXCEPT !.step = "audited"])
  /\ UNCHANGED <<jobs, faults, fieldVars, releaseVars, changeVars>>

-----------------------------------------------------------------------------
(* ChangesController.verify: by the id of the detection. *)

VerifyChange(r) ==
  /\ At(r, "verifyChange", "start")
  /\ \/ \E d \in detections, s \in {"pending", "confirmed", "false_positive"} :
          /\ detections' = (detections \ {d}) \cup {[d EXCEPT !.verdict = s]}
          /\ Move(r, [Idle EXCEPT !.step = "verified", !.on = d.run, !.say = s])
     \/ Fails(r, "notFound") /\ UNCHANGED detections
  /\ UNCHANGED <<jobs, faults, fieldVars, releaseVars, runs>>

AuditVerdict(r) ==
  /\ At(r, "verifyChange", "verified")
  /\ Done(r, [work[r] EXCEPT !.step = "audited"])
  /\ UNCHANGED <<jobs, faults, fieldVars, releaseVars, changeVars>>

-----------------------------------------------------------------------------
(* DETECT_CHANGES: the run and its sources are read and marked in one      *)
(* transaction, the detections replaced in another.                        *)

BeginDetection(j) ==
  /\ j.at = "queued"
  /\ runs' = [runs EXCEPT ![j.owner] = "running"]
  /\ Advance(j, "read", 0)
  /\ UNCHANGED <<faults, detections>>

(* Mutant: the detections of every run are deleted. *)
ReplaceAll(j) ==
  /\ j.at = "read"
  /\ detections' = {[run |-> j.owner, verdict |-> "pending"]}
  /\ runs' = [runs EXCEPT ![j.owner] = "done"]
  /\ Advance(j, "finished", 0)
  /\ UNCHANGED faults

Replace(j) ==
  /\ j.at = "read"
  /\ detections' = {d \in detections : d.run # j.owner} \cup {[run |-> j.owner, verdict |-> "pending"]}
  /\ runs' = [runs EXCEPT ![j.owner] = "done"]
  /\ Advance(j, "finished", 0)
  /\ UNCHANGED faults

DetectionFails(j) ==
  /\ j.at = "read" /\ faults < MaxFaults
  /\ faults' = faults + 1
  /\ runs' = [runs EXCEPT ![j.owner] = "failed"]
  /\ Advance(j, "queued", 0)
  /\ UNCHANGED detections

DetectionJob(j) ==
  /\ j.type = "DETECT_CHANGES"
  /\ BeginDetection(j) \/ Replace(j) \/ DetectionFails(j)
  /\ UNCHANGED <<accessVars, work, fieldVars, releaseVars>>

ChangesStep(r) ==
  RunChanges(r) \/ QueueChanges(r) \/ AuditRun(r) \/ VerifyChange(r) \/ AuditVerdict(r)

-----------------------------------------------------------------------------
\* What an officer has said of a detection stays until another verdict, or
\* until the job of its own run is delivered again: a repeated DETECT_CHANGES
\* deletes the detections with their verdicts (change/epochs.py), another run
\* of the ward or a failed attempt does not.
Said(run) ==
  {work[r].say : r \in {s \in Requests : call[s].route = "verifyChange" /\ work[s].on = run}}
VerdictsSurvive ==
  \A r \in Requests :
    /\ call[r].route = "verifyChange" /\ call[r].status = "ok" /\ work[r].on \notin repeated
    => \E d \in detections : d.run = work[r].on /\ d.verdict \in Said(d.run)

\* A run whose request was answered leaves the queue and comes to its end.
RunsSettle ==
  \A r \in Requests :
    (r \in DOMAIN runs /\ call[r].status = "ok") ~> (r \in DOMAIN runs /\ runs[r] \in {"done", "failed"})
=============================================================================
