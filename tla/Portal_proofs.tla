---------------------------- MODULE Portal_proofs ----------------------------
(***************************************************************************)
(* Proofs about the API as a whole, for every number of requests, wards,   *)
(* versions, minutes and faults.                                           *)
(*                                                                         *)
(* It implements Access: no handler, no job and nothing around them        *)
(* touches what the guard decides on, and a request leaves its handler     *)
(* only through the filter.  What is proved of the guard therefore holds   *)
(* of the whole API.                                                       *)
(*                                                                         *)
(* What the handlers keep in the database, the queue and storage: the      *)
(* papers of the field work agree, verdicts on changes survive, links and  *)
(* rows lead to what they name, crawls are complete.                       *)
(***************************************************************************)
EXTENDS Portal, Access_proofs, SequenceTheorems

\* What a handler may do to the variables of the guard: nothing, or answer.
Quiet(r) == UNCHANGED accessVars \/ Handler(r)

LEMMA DoneIsQuiet ==
  ASSUME NEW r, NEW w, Done(r, w)
  PROVE  Quiet(r)
  BY DEF Done, Quiet, Handler

LEMMA FailureIsQuiet ==
  ASSUME NEW r, NEW err \in Errors, Fails(r, err)
  PROVE  Quiet(r)
  BY DEF Fails, Quiet, Handler

LEMMA MoveIsQuiet ==
  ASSUME NEW r, NEW w, Move(r, w)
  PROVE  Quiet(r)
  BY DEF Move, Quiet

LEMMA FieldIsQuiet ==
  ASSUME NEW r \in Requests, FieldStep(r)
  PROVE  Quiet(r)
<1> USE DoneIsQuiet, FailureIsQuiet, MoveIsQuiet DEF Errors
<1>1. CASE Verify(r)
  BY <1>1 DEF Verify, Quiet
<1>2. CASE RecordVerdict(r)
  BY <1>2 DEF RecordVerdict
<1>3. CASE Explain(r)
  BY <1>3 DEF Explain
<1>4. CASE ChatReply(r)
  BY <1>4 DEF ChatReply
<1>5. CASE ReadWardData(r)
  BY <1>5 DEF ReadWardData
<1>6. CASE StoreAlert(r)
  BY <1>6 DEF StoreAlert
<1>7. CASE CreateTicket(r)
  BY <1>7 DEF CreateTicket
<1>8. CASE Review(r)
  BY <1>8 DEF Review, Quiet
<1>9. CASE MailAuthor(r)
  BY <1>9 DEF MailAuthor
<1>10. CASE RegisterTile(r)
  BY <1>10 DEF RegisterTile
<1>11. CASE StoreTile(r)
  BY <1>11 DEF StoreTile
<1>12. CASE QueueTile(r)
  BY <1>12 DEF QueueTile
<1> QED
  BY <1>1, <1>2, <1>3, <1>4, <1>5, <1>6, <1>7, <1>8, <1>9, <1>10, <1>11, <1>12 DEF FieldStep

LEMMA ReleaseIsQuiet ==
  ASSUME NEW r \in Requests, ReleaseStep(r)
  PROVE  Quiet(r)
<1> USE DoneIsQuiet, FailureIsQuiet, MoveIsQuiet DEF Errors
<1>1. CASE Csv(r)
  BY <1>1 DEF Csv
<1>2. CASE PutCsv(r)
  BY <1>2 DEF PutCsv
<1>3. CASE Geojson(r)
  BY <1>3 DEF Geojson
<1>4. CASE PutGeojson(r)
  BY <1>4 DEF PutGeojson
<1>5. CASE RecordGeojson(r)
  BY <1>5 DEF RecordGeojson
<1>6. CASE Inline(r, "built") \/ Inline(r, "put")
  BY <1>6 DEF Inline
<1>7. CASE Gpkg(r)
  BY <1>7 DEF Gpkg
<1>8. CASE QueueGpkg(r)
  BY <1>8 DEF QueueGpkg
<1>9. CASE Items(r)
  BY <1>9 DEF Items, OpenCollection
<1>10. CASE Readiness(r)
  BY <1>10 DEF Readiness
<1>11. CASE UploadCsv(r)
  BY <1>11 DEF UploadCsv
<1>12. CASE DbConfig(r)
  BY <1>12 DEF DbConfig
<1>13. CASE SetRunning(r)
  BY <1>13 DEF SetRunning
<1>14. CASE \E w \in Wards : QueueWard(r, w)
  BY <1>14 DEF QueueWard, Quiet, accessVars
<1> QED
  BY <1>1, <1>2, <1>3, <1>4, <1>5, <1>6, <1>7, <1>8, <1>9, <1>10, <1>11, <1>12, <1>13, <1>14
  DEF ReleaseStep

LEMMA ChangesAreQuiet ==
  ASSUME NEW r \in Requests, ChangesStep(r)
  PROVE  Quiet(r)
<1> USE DoneIsQuiet, FailureIsQuiet, MoveIsQuiet DEF Errors
<1>1. CASE RunChanges(r)
  BY <1>1 DEF RunChanges
<1>2. CASE QueueChanges(r)
  BY <1>2 DEF QueueChanges
<1>3. CASE AuditRun(r)
  BY <1>3 DEF AuditRun
<1>4. CASE VerifyChange(r)
  BY <1>4 DEF VerifyChange
<1>5. CASE AuditVerdict(r)
  BY <1>5 DEF AuditVerdict
<1> QED BY <1>1, <1>2, <1>3, <1>4, <1>5 DEF ChangesStep

LEMMA StepRefines == [PortalNext]_portalVars => [AccessNext]_accessVars
<1> SUFFICES ASSUME [PortalNext]_portalVars PROVE [AccessNext]_accessVars
  OBVIOUS
<1>1. CASE UNCHANGED portalVars
  BY <1>1 DEF portalVars
<1>2. CASE Boot /\ UNCHANGED <<work, jobs, faults, fieldVars, releaseVars, changeVars>>
  BY <1>2 DEF AccessNext
<1>3. ASSUME NEW r \in Requests, Guarded(r)
      PROVE  AccessNext
  BY <1>3 DEF Guarded, AccessNext
<1>4. ASSUME NEW r \in Requests, Quiet(r)
      PROVE  [AccessNext]_accessVars
  BY <1>4 DEF Quiet, AccessNext
<1>5. ASSUME NEW r \in Requests, Handle(r)
      PROVE  [AccessNext]_accessVars
  <2>1. Login(r) \/ Me(r) => Quiet(r)
    BY DoneIsQuiet, FailureIsQuiet DEF Login, Me, Errors
  <2> QED BY <1>4, <1>5, <2>1, FieldIsQuiet, ReleaseIsQuiet, ChangesAreQuiet DEF Handle
<1>6. ASSUME NEW r \in Requests, GuardStops(r) \/ HandlerFails(r)
      PROVE  AccessNext
  BY <1>6 DEF GuardStops, HandlerFails, AccessNext, Handler, Errors
<1>7. CASE Worker
  BY <1>7 DEF Worker, ExportJob, DetectionJob
<1>8. CASE Environment \/ Crawl \/ Repeat
  BY <1>8 DEF Environment, Crawl, Repeat, Redeliver
<1> QED BY <1>1, <1>2, <1>3, <1>5, <1>6, <1>7, <1>8 DEF PortalNext, Serve

-----------------------------------------------------------------------------
(* The API with all its handlers implements the guard with handlers that    *)
(* answer anything: every initial state, and every step of a request, a     *)
(* job, the clock or a client, is one of Access or leaves it alone.         *)
THEOREM ApiImplementsAccess == PortalSpec => AccessSpec
<1>1. PortalInit => AccessInit
  BY DEF PortalInit
<1> QED BY <1>1, StepRefines, PTL DEF PortalSpec, AccessSpec

(* In the whole API: strangers become citizens once there is an admin       *)
(* (roleFromLocal), whatever the handlers do meanwhile.                     *)
THEOREM ApiStrangers == PortalSpec => []StrangersBecomeCitizens
  BY ApiImplementsAccess, Strangers, PTL

(* In the whole API: a request that is served has the role of its user's    *)
(* row and one its route asks for (canActivate).                            *)
THEOREM ApiEntitled == PortalSpec => []HandlersAreEntitled
  BY ApiImplementsAccess, Entitled, PTL

-----------------------------------------------------------------------------
USE FieldAssumption, ReleaseAssumption, ChangesAssumption

-----------------------------------------------------------------------------
(* The parts of the inductive invariant.                                    *)

\* A request that has not reached its handler, or has not begun it, has done
\* nothing; only one that is answered has a status.
Shape(w) ==
  /\ DOMAIN w = {"step", "on", "say", "saw", "alone"}
  /\ w.step \in Steps /\ w.alone \in BOOLEAN

Journey(r) ==
  /\ Shape(work[r])
  /\ call[r].at \notin {"handler", "done"} => work[r] = Idle
  /\ call[r].at = "handler" /\ work[r].step = "start" => work[r] = Idle
  /\ call[r].status = "ok" => call[r].at = "done"

Base ==
  /\ work = [r \in Requests |-> work[r]]
  /\ \A r \in Requests : Journey(r)

Overlapped(route) == \E r \in Requests : call[r].route = route /\ ~work[r].alone

\* As long as no two verifications overlap and none fails half-way, one that is
\* between its statements has written the status last.
VerifyingOK ==
  /\ property \in [status : Verdicts, verdict : Verdicts]
  /\ \A r \in Requests : At(r, "verify", "updated") => work[r].say \in Verdicts
  /\ ~Overlapped("verify") =>
       /\ \A r \in Requests : At(r, "verify", "updated") => property.status = work[r].say
       /\ property.status # property.verdict => \E r \in Requests : At(r, "verify", "updated")

\* The same for a ticket; and a ticket that its author was not told of has its
\* reviewer about to write.
TicketsOK ==
  /\ tickets = [t \in DOMAIN tickets |-> tickets[t]]
  /\ \A t \in DOMAIN tickets : tickets[t] = [status |-> tickets[t].status, mailed |-> tickets[t].mailed]
  /\ \A t \in DOMAIN tickets :
       t = FirstTicket \/ (t \in Requests /\ call[t].route = "createTicket" /\ work[t].step = "created")
  /\ \A r \in Requests : At(r, "reviewTicket", "reviewed") => work[r].on \in DOMAIN tickets
  /\ ~Overlapped("reviewTicket") =>
       /\ \A r \in Requests :
            At(r, "reviewTicket", "reviewed") => tickets[work[r].on].status = work[r].say
       /\ \A t \in DOMAIN tickets : tickets[t].status # tickets[t].mailed =>
            \E r \in Requests : At(r, "reviewTicket", "reviewed") /\ work[r].on = t

JobTypes == {"NORMALIZE_SOURCE", "EXPORT_HARMONIZED", "DETECT_CHANGES"} \cup Wards
Job == [type : JobTypes, owner : Requests, copy : Nat,
        at : {"queued", "read", "uploaded", "finished"}, saw : Nat]

Ordered(r) == call[r].route = "runChanges" /\ work[r].step \in {"queued", "audited"}

\* The job of a change run has its row; until it is delivered again it is the
\* only one, and what is detected of the run is the last that it does.
RunsOK ==
  /\ runs \in [DOMAIN runs -> {"queued", "running", "done", "failed"}]
  /\ \A d \in detections : d = [run |-> d.run, verdict |-> d.verdict] /\ d.run \in DOMAIN runs
  /\ \A r \in Requests : call[r].route = "runChanges" /\ work[r].step # "start" => r \in DOMAIN runs
  /\ \A d \in detections : d.run # OldRun => d.run \in Requests /\ Ordered(d.run)
  /\ \A j \in jobs : j.type = "DETECT_CHANGES" =>
       /\ Ordered(j.owner)
       /\ j.owner \notin repeated =>
            /\ \A k \in jobs : k.type = "DETECT_CHANGES" /\ k.owner = j.owner => k = j
            /\ (\E d \in detections : d.run = j.owner) => j.at = "finished"

Voted(r) == call[r].route = "verifyChange" /\ work[r].step \in {"verified", "audited"}

\* Each verdict given is on a detection of that run, or a later one is, until
\* the job of the run is delivered again.
VotesOK ==
  /\ \A r \in Requests : call[r].route = "verifyChange" /\ call[r].status = "ok" => Voted(r)
  /\ \A r \in Requests : Voted(r) /\ work[r].on \notin repeated =>
       \E d \in detections, s \in Requests :
         d.run = work[r].on /\ Voted(s) /\ work[s].on = d.run /\ work[s].say = d.verdict

-----------------------------------------------------------------------------
(* Exports. *)

CsvBuilt(r) ==
  call[r].route = "exportCsv" /\ work[r].step # "start" =>
    \E m \in Nat : work[r].saw = <<<<"csv", m>>, 1>>

GeojsonBuilt(r) ==
  call[r].route = "geojson" /\ work[r].step # "start" =>
    /\ work[r].on \in Wards
    /\ \E m \in Nat, v \in 1..LastVersion : work[r].saw = <<<<"geojson", work[r].on, m>>, v>>

Stored(r) == Built(r) /\ work[r].step \in {"put", "linked"}

BuildsOK ==
  /\ records \in [Wards -> 1..LastVersion]
  /\ minute \in 0..MaxMinute
  /\ \A r \in Requests : CsvBuilt(r) /\ GeojsonBuilt(r)

\* What a request has put is there, unless one of the same minute has put it since.
ShelfOK ==
  /\ shelf = [k \in DOMAIN shelf |-> shelf[k]]
  /\ \A k \in DOMAIN shelf : k[1] \in {"geojson", "gpkg"} => shelf[k].ward = k[2]
  /\ \A r \in Requests : Stored(r) =>
       /\ work[r].saw[1] \in DOMAIN shelf
       /\ \/ shelf[work[r].saw[1]] = [ward |-> work[r].on, version |-> work[r].saw[2]]
          \/ \E s \in Requests : Built(s) /\ SameMinute(r, s)

Export == [ward : Wards, status : {"processing", "ready", "failed"},
           key : {<<>>} \cup DOMAIN shelf, count : Nat]

Exporting(r) == call[r].route = "gpkg" /\ work[r].step \in {"inserted", "queued"}

\* A GeoPackage under its own key, of its ward and version.
Packed(r, v) ==
  /\ <<"gpkg", exports[r].ward, r>> \in DOMAIN shelf
  /\ shelf[<<"gpkg", exports[r].ward, r>>] = [ward |-> exports[r].ward, version |-> v]

\* A row of a GeoJSON says what its request has read; that of a GeoPackage is
\* ready only when a delivery has put it and finished.  It counts what was put
\* last but while a repeat is under way, and after two deliveries overlapped.
RecordedRow(r) ==
  /\ call[r].route = "geojson" /\ work[r].step = "linked"
  /\ exports[r] = [ward |-> work[r].on, status |-> "ready", key |-> work[r].saw[1],
                   count |-> Rows[work[r].saw[2]]]

PackedRow(r) ==
  /\ Exporting(r)
  /\ exports[r].status = "ready" =>
       /\ work[r].step = "queued"
       /\ exports[r].key = <<"gpkg", exports[r].ward, r>>
       /\ \E v \in 1..LastVersion :
            /\ Packed(r, v)
            /\ \/ exports[r].count = Rows[v]
               \/ r \in repeated /\ Outstanding(r)
               \/ r \in overlapped

\* A job that was not delivered beside itself is the only one of its export.
PackingOK(j) ==
  /\ call[j.owner].route = "gpkg" /\ work[j.owner].step = "queued"
  /\ j.at \in {"read", "uploaded"} => j.saw \in 1..LastVersion
  /\ j.at = "uploaded" => \E v \in 1..LastVersion : Packed(j.owner, v)
  /\ j.owner \notin repeated /\ exports[j.owner].status = "ready" => j.at = "finished"
  /\ j.owner \notin overlapped =>
       /\ j.at = "uploaded" => Packed(j.owner, j.saw)
       /\ \A k \in jobs : k.type = "EXPORT_HARMONIZED" /\ k.owner = j.owner => k = j

ExportsOK ==
  /\ exports = [r \in DOMAIN exports |-> exports[r]]
  /\ \A r \in DOMAIN exports : r \in Requests /\ exports[r] \in Export
  /\ \A r \in DOMAIN exports : RecordedRow(r) \/ PackedRow(r)
  /\ \A r \in Requests : Exporting(r) => r \in DOMAIN exports
  /\ \A j \in jobs : j.type = "EXPORT_HARMONIZED" => PackingOK(j)

\* The types of the queue and of what is remembered of its repeats.
JobsOK ==
  /\ \A j \in jobs : j \in Job
  /\ repeats \in 0..MaxRepeats /\ overlapped \subseteq repeated /\ repeated \subseteq Requests
  /\ faults \in 0..MaxFaults
  /\ DOMAIN tiles \subseteq Requests

-----------------------------------------------------------------------------
(* The crawl. *)

CrawlTyped ==
  /\ crawl = [at |-> crawl.at, ward |-> crawl.ward, limit |-> crawl.limit, offset |-> crawl.offset,
              matched |-> crawl.matched, got |-> crawl.got, steady |-> crawl.steady]
  /\ crawl.steady \in BOOLEAN /\ crawl.offset \in Nat
  /\ crawl.at \in {"idle", "count", "rows", "complete"}
  /\ crawl.at = "idle" => crawl.offset = 0 /\ crawl.got = <<>>
  /\ crawl.at # "idle" => crawl.ward \in Wards /\ crawl.limit \in Nat \ {0}
  /\ crawl.at = "rows" => crawl.matched \in Nat

\* While the records stay as they were when it began, the client has the rows
\* before its offset, and counts as many as there are.
Following ==
  crawl.at # "idle" /\ crawl.steady =>
    LET rows == Table(crawl.ward) IN
    /\ crawl.at \in {"count", "rows"} => /\ crawl.offset <= Len(rows)
                                         /\ crawl.got = SubSeq(rows, 1, crawl.offset)
    /\ crawl.at = "rows" => crawl.matched = Len(rows)
    /\ crawl.at = "complete" => crawl.got = rows

CrawlOK == CrawlTyped /\ Following

IInv ==
  /\ Base /\ JobsOK /\ VerifyingOK /\ TicketsOK /\ RunsOK /\ VotesOK
  /\ BuildsOK /\ ShelfOK /\ ExportsOK /\ CrawlOK

-----------------------------------------------------------------------------
(* What a step leaves as it was.                                            *)

\* s has not moved, as far as the handlers of these routes are concerned; it
\* may have been answered with an error half-way, or found itself not alone.
Kept(s, routes) ==
  /\ (call[s].route \in routes /\ work[s].step # "start")
     \/ (call'[s].route \in routes /\ work'[s].step # "start") =>
       /\ call'[s].route = call[s].route
       /\ work'[s].step = work[s].step /\ work'[s].on = work[s].on
       /\ work'[s].say = work[s].say /\ work'[s].saw = work[s].saw
       /\ call'[s].at = call[s].at \/ (call'[s].at = "done" /\ ~work'[s].alone)
  /\ call[s].route \in routes /\ ~work[s].alone =>
       call'[s].route = call[s].route /\ ~work'[s].alone
  /\ call'[s].route \in routes /\ call'[s].status = "ok" =>
       call'[s].route = call[s].route /\ call[s].status = "ok"

\* A handler acts for its request alone.
Only(r) ==
  /\ call[r].at = "handler" /\ call'[r].route = call[r].route
  /\ call'[r].at \in {"handler", "done"}
  /\ \A s \in Requests \ {r} :
       /\ call'[s] = call[s]
       /\ work'[s].step = work[s].step /\ work'[s].on = work[s].on
       /\ work'[s].say = work[s].say /\ work'[s].saw = work[s].saw
       /\ work'[s].alone => work[s].alone

LEMMA OthersKept ==
  ASSUME NEW r \in Requests, Only(r), NEW s \in Requests \ {r}, NEW routes
  PROVE  Kept(s, routes)
  BY DEF Only, Kept

LEMMA ElsewhereKept ==
  ASSUME NEW r \in Requests, Only(r), NEW routes, call[r].route \notin routes
  PROVE  \A s \in Requests : Kept(s, routes)
  BY OthersKept DEF Only, Kept

LEMMA MoveBase ==
  ASSUME AccessTypeOK, Base, NEW r \in Requests, call[r].at = "handler",
         NEW w, Shape(w), w.step # "start", Move(r, w)
  PROVE  Base' /\ Only(r)
<1>1. /\ work' = [work EXCEPT ![r] = w]
      /\ call' = call
  BY DEF Move, accessVars
<1>2. work'[r] = w /\ \A s \in Requests \ {r} : work'[s] = work[s]
  BY <1>1 DEF Base
<1>3. work' = [s \in Requests |-> work'[s]]
  BY <1>1 DEF Base
<1>4. \A s \in Requests : Journey(s)'
  BY <1>1, <1>2 DEF Base, Journey, Shape
<1> QED BY <1>1, <1>2, <1>3, <1>4 DEF Base, Only

LEMMA DoneBase ==
  ASSUME AccessTypeOK, Base, NEW r \in Requests,
         NEW w, Shape(w), w.step # "start", Done(r, w)
  PROVE  Base' /\ Only(r)
<1>1. /\ work' = [work EXCEPT ![r] = w]
      /\ call[r].at = "handler"
      /\ call' = [call EXCEPT ![r].at = "done", ![r].status = "ok"]
  BY DEF Done, Return, Answered
<1>2. work'[r] = w /\ \A s \in Requests \ {r} : work'[s] = work[s]
  BY <1>1 DEF Base
<1>3. work' = [s \in Requests |-> work'[s]]
  BY <1>1 DEF Base
<1>4. /\ call'[r].at = "done" /\ call'[r].route = call[r].route
      /\ \A s \in Requests \ {r} : call'[s] = call[s]
  BY <1>1 DEF AccessTypeOK, Call
<1>5. ASSUME NEW s \in Requests
      PROVE  Journey(s)'
  <2>1. CASE s = r
    BY <1>2, <1>4, <2>1 DEF Journey, Shape
  <2>2. CASE s # r
    BY <1>2, <1>4, <2>2 DEF Base, Journey
  <2> QED BY <2>1, <2>2
<1> QED BY <1>1, <1>2, <1>3, <1>4, <1>5 DEF Base, Only

LEMMA FailsBase ==
  ASSUME AccessTypeOK, Base, NEW r \in Requests, NEW err \in Errors, Fails(r, err)
  PROVE  /\ Base' /\ Only(r) /\ work' = work
         /\ call'[r].at = "done" /\ call'[r].status # "ok"
<1>1. /\ work' = work
      /\ call[r].at = "handler"
      /\ call' = [call EXCEPT ![r].at = "done", ![r].status = StatusOf(err)]
  BY DEF Fails, Throw, Answered
<1>2. StatusOf(err) # "ok"
  BY DEF StatusOf, Errors
<1>4. /\ call'[r].at = "done" /\ call'[r].route = call[r].route /\ call'[r].status # "ok"
      /\ \A s \in Requests \ {r} : call'[s] = call[s]
  BY <1>1, <1>2 DEF AccessTypeOK, Call
<1>5. \A s \in Requests : Journey(s)'
  BY <1>1, <1>4 DEF Base, Journey, Shape
<1> QED BY <1>1, <1>4, <1>5 DEF Base, Only

LEMMA BesideBase ==
  ASSUME AccessTypeOK, Base, NEW r \in Requests, call[r].at = "handler", NEW step,
         NEW w, Shape(w), w.step # "start", step # "start", Beside(r, step, w), UNCHANGED accessVars
  PROVE  /\ Base' /\ Only(r)
         /\ work'[r] = [w EXCEPT !.alone = Others(r, step) = {}]
         /\ \A s \in Others(r, step) : ~work'[s].alone
<1>1. call' = call
  BY DEF accessVars
<1>2. work'[r] = [w EXCEPT !.alone = Others(r, step) = {}]
  BY DEF Beside
<1>3. \A s \in Requests \ {r} :
        work'[s] = IF s \in Others(r, step) THEN [work[s] EXCEPT !.alone = FALSE] ELSE work[s]
  BY DEF Beside
<1>4. work' = [s \in Requests |-> work'[s]]
  BY DEF Beside
<1>5. Shape(work'[r]) /\ work'[r].step # "start"
  BY <1>2 DEF Shape
<1>6. ASSUME NEW s \in Requests \ {r}
      PROVE  /\ Journey(s)'
             /\ work'[s].step = work[s].step /\ work'[s].on = work[s].on
             /\ work'[s].say = work[s].say /\ work'[s].saw = work[s].saw
             /\ work'[s].alone => work[s].alone
             /\ s \in Others(r, step) => ~work'[s].alone
  <2>1. CASE s \in Others(r, step)
    <3>1. work'[s] = [work[s] EXCEPT !.alone = FALSE]
      BY <1>3, <2>1
    <3>2. call[s].at = "handler" /\ work[s].step = step
      BY <2>1 DEF Others, At
    <3>3. Shape(work[s]) /\ (call[s].status = "ok" => call[s].at = "done")
      BY DEF Base, Journey
    <3>4. /\ work'[s].step = work[s].step /\ work'[s].on = work[s].on
          /\ work'[s].say = work[s].say /\ work'[s].saw = work[s].saw /\ ~work'[s].alone
          /\ Shape(work'[s])
      BY <3>1, <3>3 DEF Shape
    <3> QED BY <1>1, <3>2, <3>3, <3>4 DEF Journey
  <2>2. CASE s \notin Others(r, step)
    <3>1. work'[s] = work[s]
      BY <1>3, <2>2
    <3> QED BY <1>1, <2>2, <3>1 DEF Base, Journey
  <2> QED BY <2>1, <2>2
<1>7. Journey(r)'
  BY <1>1, <1>5 DEF Base, Journey
<1> QED BY <1>1, <1>2, <1>4, <1>6, <1>7 DEF Base, Only, Others

-----------------------------------------------------------------------------
(* One handler at a time. *)

LEMMA FieldOnly ==
  ASSUME AccessTypeOK, Base, NEW r \in Requests, FieldStep(r)
  PROVE  Base' /\ Only(r)
<1>1. CASE Verify(r)
  <2>1. CASE \E err \in Errors : Fails(r, err)
    BY <2>1, FailsBase
  <2>2. CASE ~\E err \in Errors : Fails(r, err)
    <3>1. PICK w, step : /\ Shape(w) /\ w.step # "start" /\ step # "start" /\ Beside(r, step, w)
                         /\ UNCHANGED accessVars
      BY <1>1, <2>2 DEF Verify, Shape, Steps, Idle, Errors
    <3> QED BY <1>1, <3>1, BesideBase DEF Verify, At
  <2> QED BY <2>1, <2>2
<1>2. CASE RecordVerdict(r)
  BY <1>2, MoveBase, DoneBase, FailsBase DEF RecordVerdict, At, Idle, Shape, Steps, Errors, Base,
     Journey
<1>3. CASE Explain(r)
  BY <1>3, MoveBase, DoneBase, FailsBase DEF Explain, At, Idle, Shape, Steps, Errors, Base,
     Journey
<1>4. CASE ChatReply(r)
  BY <1>4, MoveBase, DoneBase, FailsBase DEF ChatReply, At, Idle, Shape, Steps, Errors, Base,
     Journey
<1>5. CASE ReadWardData(r)
  BY <1>5, MoveBase, DoneBase, FailsBase DEF ReadWardData, At, Idle, Shape, Steps, Errors, Base,
     Journey
<1>6. CASE StoreAlert(r)
  BY <1>6, MoveBase, DoneBase, FailsBase DEF StoreAlert, At, Idle, Shape, Steps, Errors, Base,
     Journey
<1>7. CASE CreateTicket(r)
  BY <1>7, MoveBase, DoneBase, FailsBase DEF CreateTicket, At, Idle, Shape, Steps, Errors, Base,
     Journey
<1>8. CASE Review(r)
  <2>1. CASE \E err \in Errors : Fails(r, err)
    BY <2>1, FailsBase
  <2>2. CASE ~\E err \in Errors : Fails(r, err)
    <3>1. PICK w, step : /\ Shape(w) /\ w.step # "start" /\ step # "start" /\ Beside(r, step, w)
                         /\ UNCHANGED accessVars
      BY <1>8, <2>2 DEF Review, Shape, Steps, Idle, Errors
    <3> QED BY <1>8, <3>1, BesideBase DEF Review, At
  <2> QED BY <2>1, <2>2
<1>9. CASE MailAuthor(r)
  BY <1>9, MoveBase, DoneBase, FailsBase DEF MailAuthor, At, Idle, Shape, Steps, Errors, Base,
     Journey
<1>10. CASE RegisterTile(r)
  BY <1>10, MoveBase, DoneBase, FailsBase DEF RegisterTile, At, Idle, Shape, Steps, Errors, Base,
     Journey
<1>11. CASE StoreTile(r)
  BY <1>11, MoveBase, DoneBase, FailsBase DEF StoreTile, At, Idle, Shape, Steps, Errors, Base,
     Journey
<1>12. CASE QueueTile(r)
  BY <1>12, MoveBase, DoneBase, FailsBase DEF QueueTile, At, Idle, Shape, Steps, Errors, Base,
     Journey
<1> QED
  BY <1>1, <1>2, <1>3, <1>4, <1>5, <1>6, <1>7, <1>8, <1>9, <1>10, <1>11, <1>12
  DEF FieldStep

LEMMA ReleaseOnly ==
  ASSUME AccessTypeOK, Base, NEW r \in Requests, ReleaseStep(r)
  PROVE  Base' /\ Only(r)
<1>1. CASE Csv(r)
  BY <1>1, MoveBase, DoneBase, FailsBase DEF Csv, At, Idle, Shape, Steps, Errors, Base, Journey
<1>2. CASE PutCsv(r)
  BY <1>2, MoveBase, DoneBase, FailsBase DEF PutCsv, At, Idle, Shape, Steps, Errors, Base, Journey
<1>3. CASE Geojson(r)
  BY <1>3, MoveBase, DoneBase, FailsBase DEF Geojson, At, Idle, Shape, Steps, Errors, Base,
     Journey
<1>4. CASE PutGeojson(r)
  BY <1>4, MoveBase, DoneBase, FailsBase DEF PutGeojson, At, Idle, Shape, Steps, Errors, Base,
     Journey
<1>5. CASE RecordGeojson(r)
  BY <1>5, MoveBase, DoneBase, FailsBase DEF RecordGeojson, At, Idle, Shape, Steps, Errors, Base,
     Journey
<1>6. CASE Inline(r, "built") \/ Inline(r, "put")
  BY <1>6, MoveBase, DoneBase, FailsBase DEF Inline, At, Idle, Shape, Steps, Errors, Base, Journey
<1>7. CASE Gpkg(r)
  BY <1>7, MoveBase, DoneBase, FailsBase DEF Gpkg, At, Idle, Shape, Steps, Errors, Base, Journey
<1>8. CASE QueueGpkg(r)
  BY <1>8, MoveBase, DoneBase, FailsBase DEF QueueGpkg, At, Idle, Shape, Steps, Errors, Base,
     Journey
<1>9. CASE Items(r)
  BY <1>9, MoveBase, DoneBase, FailsBase DEF Items, OpenCollection, At, Idle, Shape, Steps,
     Errors, Base, Journey
<1>10. CASE Readiness(r)
  <2>1. PICK x : Done(r, [Idle EXCEPT !.step = "classified", !.saw = x])
    BY <1>10 DEF Readiness
  <2> QED BY <2>1, DoneBase DEF Shape, Steps, Idle
<1>11. CASE UploadCsv(r)
  BY <1>11, MoveBase, DoneBase, FailsBase DEF UploadCsv, At, Idle, Shape, Steps, Errors, Base,
     Journey
<1>12. CASE DbConfig(r)
  BY <1>12, MoveBase, DoneBase, FailsBase DEF DbConfig, At, Idle, Shape, Steps, Errors, Base,
     Journey
<1>13. CASE SetRunning(r)
  BY <1>13, MoveBase, DoneBase, FailsBase DEF SetRunning, At, Idle, Shape, Steps, Errors, Base,
     Journey
<1>14. CASE \E w \in Wards : QueueWard(r, w)
  BY <1>14 DEF QueueWard, At, accessVars, Base, Journey, Only
<1> QED
  BY <1>1, <1>2, <1>3, <1>4, <1>5, <1>6, <1>7, <1>8, <1>9, <1>10, <1>11, <1>12, <1>13, <1>14
  DEF ReleaseStep

LEMMA ChangesOnly ==
  ASSUME AccessTypeOK, Base, NEW r \in Requests, ChangesStep(r)
  PROVE  Base' /\ Only(r)
<1>1. CASE RunChanges(r)
  BY <1>1, MoveBase, DoneBase, FailsBase DEF RunChanges, At, Idle, Shape, Steps, Errors, Base,
     Journey
<1>2. CASE QueueChanges(r)
  BY <1>2, MoveBase, DoneBase, FailsBase DEF QueueChanges, At, Idle, Shape, Steps, Errors, Base,
     Journey
<1>3. CASE AuditRun(r)
  BY <1>3, MoveBase, DoneBase, FailsBase DEF AuditRun, At, Idle, Shape, Steps, Errors, Base,
     Journey
<1>4. CASE VerifyChange(r)
  BY <1>4, MoveBase, DoneBase, FailsBase DEF VerifyChange, At, Idle, Shape, Steps, Errors, Base,
     Journey
<1>5. CASE AuditVerdict(r)
  BY <1>5, MoveBase, DoneBase, FailsBase DEF AuditVerdict, At, Idle, Shape, Steps, Errors, Base,
     Journey
<1> QED
  BY <1>1, <1>2, <1>3, <1>4, <1>5
  DEF ChangesStep

LEMMA HandleOnly ==
  ASSUME AccessTypeOK, Base, NEW r \in Requests, Handle(r)
  PROVE  Base' /\ Only(r)
<1>1. CASE Login(r) \/ Me(r)
  BY <1>1, DoneBase, FailsBase DEF Login, Me, At, Idle, Shape, Steps, Errors
<1> QED BY <1>1, FieldOnly, ReleaseOnly, ChangesOnly DEF Handle

\* What the handlers write, by route.
Footprint(r) ==
  /\ repeats' = repeats /\ repeated' = repeated /\ overlapped' = overlapped
  /\ records' = records /\ minute' = minute /\ faults' = faults
  /\ call[r].route # "verify" => property' = property
  /\ call[r].route \notin {"createTicket", "reviewTicket"} => tickets' = tickets
  /\ call[r].route # "tile" => tiles' = tiles
  /\ call[r].route \notin {"exportCsv", "geojson"} => shelf' = shelf
  /\ call[r].route \notin {"geojson", "gpkg"} => exports' = exports
  /\ call[r].route # "items" => crawl' = crawl
  /\ call[r].route # "runChanges" => runs' = runs
  /\ call[r].route # "verifyChange" => detections' = detections
  /\ \/ jobs' = jobs
     \/ \E type \in JobTypes :
          /\ jobs' = jobs \cup {[type |-> type, owner |-> r, copy |-> 0, at |-> "queued", saw |-> 0]}
          /\ type = "EXPORT_HARMONIZED" => QueueGpkg(r)
          /\ type = "DETECT_CHANGES" => QueueChanges(r)

\* Which handlers a route has.
Handlers(r) ==
  /\ call[r].route = "verify" => Verify(r) \/ RecordVerdict(r)
  /\ call[r].route = "createTicket" => CreateTicket(r)
  /\ call[r].route = "reviewTicket" => Review(r) \/ MailAuthor(r)
  /\ call[r].route = "tile" => RegisterTile(r) \/ StoreTile(r) \/ QueueTile(r)
  /\ call[r].route = "exportCsv" => Csv(r) \/ PutCsv(r)
  /\ call[r].route = "geojson" =>
       Geojson(r) \/ Inline(r, "built") \/ Inline(r, "put") \/ PutGeojson(r) \/ RecordGeojson(r)
  /\ call[r].route = "gpkg" => Gpkg(r) \/ QueueGpkg(r)
  /\ call[r].route = "items" => Items(r)
  /\ call[r].route = "runChanges" => RunChanges(r) \/ QueueChanges(r) \/ AuditRun(r)
  /\ call[r].route = "verifyChange" => VerifyChange(r) \/ AuditVerdict(r)

LEMMA FieldPrint ==
  ASSUME NEW r \in Requests, FieldStep(r), UNCHANGED <<releaseVars, changeVars>>
  PROVE  Footprint(r) /\ Handlers(r)
<1>1. CASE Verify(r)
  <2>1. Handlers(r)
    BY <1>1 DEF Handlers, Verify, At
  <2> QED BY <1>1, <2>1 DEF Verify, At, Footprint, fieldVars, releaseVars, deliveryVars, changeVars
<1>2. CASE RecordVerdict(r)
  <2>1. Handlers(r)
    BY <1>2 DEF Handlers, RecordVerdict, At
  <2> QED BY <1>2, <2>1 DEF RecordVerdict, At, Footprint, fieldVars, releaseVars, deliveryVars, changeVars
<1>3. CASE Explain(r)
  <2>1. Handlers(r)
    BY <1>3 DEF Handlers, Explain, At
  <2> QED BY <1>3, <2>1 DEF Explain, At, Footprint, fieldVars, releaseVars, deliveryVars, changeVars
<1>4. CASE ChatReply(r)
  <2>1. Handlers(r)
    BY <1>4 DEF Handlers, ChatReply, At
  <2> QED BY <1>4, <2>1 DEF ChatReply, At, Footprint, fieldVars, releaseVars, deliveryVars, changeVars
<1>5. CASE ReadWardData(r)
  <2>1. Handlers(r)
    BY <1>5 DEF Handlers, ReadWardData, At
  <2> QED BY <1>5, <2>1 DEF ReadWardData, At, Footprint, fieldVars, releaseVars, deliveryVars, changeVars
<1>6. CASE StoreAlert(r)
  <2>1. Handlers(r)
    BY <1>6 DEF Handlers, StoreAlert, At
  <2> QED BY <1>6, <2>1 DEF StoreAlert, At, Footprint, fieldVars, releaseVars, deliveryVars, changeVars
<1>7. CASE CreateTicket(r)
  <2>1. Handlers(r)
    BY <1>7 DEF Handlers, CreateTicket, At
  <2> QED BY <1>7, <2>1 DEF CreateTicket, At, Footprint, fieldVars, releaseVars, deliveryVars, changeVars
<1>8. CASE Review(r)
  <2>1. Handlers(r)
    BY <1>8 DEF Handlers, Review, At
  <2> QED BY <1>8, <2>1 DEF Review, At, Footprint, fieldVars, releaseVars, deliveryVars, changeVars
<1>9. CASE MailAuthor(r)
  <2>1. Handlers(r)
    BY <1>9 DEF Handlers, MailAuthor, At
  <2> QED BY <1>9, <2>1 DEF MailAuthor, At, Footprint, fieldVars, releaseVars, deliveryVars, changeVars
<1>10. CASE RegisterTile(r)
  <2>1. Handlers(r)
    BY <1>10 DEF Handlers, RegisterTile, At
  <2> QED BY <1>10, <2>1 DEF RegisterTile, At, Footprint, fieldVars, releaseVars, deliveryVars, changeVars
<1>11. CASE StoreTile(r)
  <2>1. Handlers(r)
    BY <1>11 DEF Handlers, StoreTile, At
  <2> QED BY <1>11, <2>1 DEF StoreTile, At, Footprint, fieldVars, releaseVars, deliveryVars, changeVars
<1>12. CASE QueueTile(r)
  <2>1. jobs' = jobs \cup {[type |-> "NORMALIZE_SOURCE", owner |-> r, copy |-> 0, at |-> "queued", saw |-> 0]}
    BY <1>12 DEF QueueTile, Push
  <2>2. call[r].route = "tile" /\ Handlers(r)
    BY <1>12 DEF Handlers, QueueTile, At
  <2>3. "NORMALIZE_SOURCE" \in JobTypes
    BY DEF JobTypes
  <2>4. UNCHANGED <<faults, fieldVars, releaseVars, changeVars>>
    BY <1>12 DEF QueueTile
  <2> QED BY <1>12, <2>1, <2>2, <2>3, <2>4 DEF Footprint, fieldVars, releaseVars, deliveryVars, changeVars
<1> QED
  BY <1>1, <1>2, <1>3, <1>4, <1>5, <1>6, <1>7, <1>8, <1>9, <1>10, <1>11, <1>12
  DEF FieldStep

LEMMA ReleasePrint ==
  ASSUME NEW r \in Requests, ReleaseStep(r), UNCHANGED changeVars
  PROVE  Footprint(r) /\ Handlers(r)
<1>1. CASE Csv(r)
  <2>1. Handlers(r)
    BY <1>1 DEF Handlers, Csv, At
  <2> QED BY <1>1, <2>1 DEF Csv, At, Footprint, fieldVars, releaseVars, deliveryVars, changeVars
<1>2. CASE PutCsv(r)
  <2>1. Handlers(r)
    BY <1>2 DEF Handlers, PutCsv, At
  <2> QED BY <1>2, <2>1 DEF PutCsv, At, Footprint, fieldVars, releaseVars, deliveryVars, changeVars
<1>3. CASE Geojson(r)
  <2>1. Handlers(r)
    BY <1>3 DEF Handlers, Geojson, At
  <2> QED BY <1>3, <2>1 DEF Geojson, At, Footprint, fieldVars, releaseVars, deliveryVars, changeVars
<1>4. CASE PutGeojson(r)
  <2>1. Handlers(r)
    BY <1>4 DEF Handlers, PutGeojson, At
  <2> QED BY <1>4, <2>1 DEF PutGeojson, At, Footprint, fieldVars, releaseVars, deliveryVars, changeVars
<1>5. CASE RecordGeojson(r)
  <2>1. Handlers(r)
    BY <1>5 DEF Handlers, RecordGeojson, At
  <2> QED BY <1>5, <2>1 DEF RecordGeojson, At, Footprint, fieldVars, releaseVars, deliveryVars, changeVars
<1>6. CASE Inline(r, "built") \/ Inline(r, "put")
  <2>1. Handlers(r)
    BY <1>6 DEF Handlers, Inline, At
  <2> QED BY <1>6, <2>1 DEF Inline, At, Footprint, fieldVars, releaseVars, deliveryVars, changeVars
<1>7. CASE Gpkg(r)
  <2>1. Handlers(r)
    BY <1>7 DEF Handlers, Gpkg, At
  <2> QED BY <1>7, <2>1 DEF Gpkg, At, Footprint, fieldVars, releaseVars, deliveryVars, changeVars
<1>8. CASE QueueGpkg(r)
  <2>1. jobs' = jobs \cup {[type |-> "EXPORT_HARMONIZED", owner |-> r, copy |-> 0, at |-> "queued", saw |-> 0]}
    BY <1>8 DEF QueueGpkg, Push
  <2>2. call[r].route = "gpkg" /\ Handlers(r)
    BY <1>8 DEF Handlers, QueueGpkg, At
  <2>3. "EXPORT_HARMONIZED" \in JobTypes
    BY DEF JobTypes
  <2>4. UNCHANGED <<faults, fieldVars, releaseVars, changeVars>>
    BY <1>8 DEF QueueGpkg
  <2> QED BY <1>8, <2>1, <2>2, <2>3, <2>4 DEF Footprint, fieldVars, releaseVars, deliveryVars, changeVars
<1>9. CASE Items(r)
  <2>1. Handlers(r)
    BY <1>9 DEF Handlers, Items, OpenCollection, At
  <2> QED BY <1>9, <2>1 DEF Items, OpenCollection, At, Footprint, fieldVars, releaseVars, deliveryVars,
     changeVars
<1>10. CASE Readiness(r)
  <2>1. Handlers(r)
    BY <1>10 DEF Handlers, Readiness, At
  <2> QED BY <1>10, <2>1 DEF Readiness, At, Footprint, fieldVars, releaseVars, deliveryVars, changeVars
<1>11. CASE UploadCsv(r)
  <2>1. Handlers(r)
    BY <1>11 DEF Handlers, UploadCsv, At
  <2> QED BY <1>11, <2>1 DEF UploadCsv, At, Footprint, fieldVars, releaseVars, deliveryVars, changeVars
<1>12. CASE DbConfig(r)
  <2>1. Handlers(r)
    BY <1>12 DEF Handlers, DbConfig, At
  <2> QED BY <1>12, <2>1 DEF DbConfig, At, Footprint, fieldVars, releaseVars, deliveryVars, changeVars
<1>13. CASE SetRunning(r)
  <2>1. Handlers(r)
    BY <1>13 DEF Handlers, SetRunning, At
  <2> QED BY <1>13, <2>1 DEF SetRunning, At, Footprint, fieldVars, releaseVars, deliveryVars, changeVars
<1>14. CASE \E w \in Wards : QueueWard(r, w)
  <2>1. \E type \in JobTypes :
          /\ jobs' = jobs \cup {[type |-> type, owner |-> r, copy |-> 0, at |-> "queued", saw |-> 0]}
          /\ type = "EXPORT_HARMONIZED" => QueueGpkg(r)
          /\ type = "DETECT_CHANGES" => QueueChanges(r)
    BY <1>14 DEF QueueWard, Push, JobTypes
  <2>2. Handlers(r)
    BY <1>14 DEF Handlers, QueueWard, At
  <2> QED BY <1>14, <2>1, <2>2 DEF QueueWard, At, Footprint, fieldVars, releaseVars, deliveryVars, changeVars
<1> QED
  BY <1>1, <1>2, <1>3, <1>4, <1>5, <1>6, <1>7, <1>8, <1>9, <1>10, <1>11, <1>12, <1>13, <1>14
  DEF ReleaseStep

LEMMA ChangesPrint ==
  ASSUME NEW r \in Requests, ChangesStep(r)
  PROVE  Footprint(r) /\ Handlers(r)
<1>1. CASE RunChanges(r)
  <2>1. Handlers(r)
    BY <1>1 DEF Handlers, RunChanges, At
  <2> QED BY <1>1, <2>1 DEF RunChanges, At, Footprint, fieldVars, releaseVars, deliveryVars, changeVars
<1>2. CASE QueueChanges(r)
  <2>1. jobs' = jobs \cup {[type |-> "DETECT_CHANGES", owner |-> r, copy |-> 0, at |-> "queued", saw |-> 0]}
    BY <1>2 DEF QueueChanges, Push
  <2>2. call[r].route = "runChanges" /\ Handlers(r)
    BY <1>2 DEF Handlers, QueueChanges, At
  <2>3. "DETECT_CHANGES" \in JobTypes
    BY DEF JobTypes
  <2>4. UNCHANGED <<faults, fieldVars, releaseVars, changeVars>>
    BY <1>2 DEF QueueChanges
  <2> QED BY <1>2, <2>1, <2>2, <2>3, <2>4 DEF Footprint, fieldVars, releaseVars, deliveryVars, changeVars
<1>3. CASE AuditRun(r)
  <2>1. Handlers(r)
    BY <1>3 DEF Handlers, AuditRun, At
  <2> QED BY <1>3, <2>1 DEF AuditRun, At, Footprint, fieldVars, releaseVars, deliveryVars, changeVars
<1>4. CASE VerifyChange(r)
  <2>1. Handlers(r)
    BY <1>4 DEF Handlers, VerifyChange, At
  <2> QED BY <1>4, <2>1 DEF VerifyChange, At, Footprint, fieldVars, releaseVars, deliveryVars, changeVars
<1>5. CASE AuditVerdict(r)
  <2>1. Handlers(r)
    BY <1>5 DEF Handlers, AuditVerdict, At
  <2> QED BY <1>5, <2>1 DEF AuditVerdict, At, Footprint, fieldVars, releaseVars, deliveryVars, changeVars
<1> QED
  BY <1>1, <1>2, <1>3, <1>4, <1>5
  DEF ChangesStep

LEMMA HandlePrint ==
  ASSUME NEW r \in Requests, Handle(r)
  PROVE  Footprint(r) /\ Handlers(r)
<1>1. CASE Login(r) \/ Me(r)
  <2>1. Handlers(r)
    BY <1>1 DEF Handlers, Login, Me, At
  <2> QED BY <1>1, <2>1 DEF Login, Me, At, Footprint, fieldVars, releaseVars, deliveryVars, changeVars
<1> QED BY <1>1, FieldPrint, ReleasePrint, ChangesPrint DEF Handle

-----------------------------------------------------------------------------
(* No handler acts: the guard, a failure, the worker, the environment.      *)

AllKept == \A s \in Requests : Kept(s, Routes)

LEMMA KeptOfAll ==
  ASSUME AccessTypeOK, AccessTypeOK', AllKept, NEW s \in Requests, NEW routes
  PROVE  Kept(s, routes)
<1>1. call[s].route \in Routes /\ call'[s].route \in Routes
  BY DEF AccessTypeOK, Call
<1> QED BY <1>1 DEF AllKept, Kept

LEMMA StillKept ==
  ASSUME Base, UNCHANGED <<work, call>>
  PROVE  Base' /\ AllKept
  BY DEF Base, Journey, Shape, AllKept, Kept

LEMMA GuardKept ==
  ASSUME AccessTypeOK, Base, NEW r \in Requests, Guarded(r) \/ GuardStops(r)
  PROVE  Base' /\ AllKept
<1>1. /\ work' = work
      /\ call[r].at \notin {"handler", "done"}
      /\ call'[r].status \in {call[r].status, "401", "403", "503"}
      /\ \A s \in Requests \ {r} : call'[s] = call[s]
  <2> USE DEF AccessTypeOK
  <2>1. work' = work
    BY DEF Guarded, GuardStops
  <2>2. CASE \E u \in Users \cup {NoUser}, route \in Routes : Arrive(r, u, route)
    BY <2>1, <2>2 DEF Arrive, Call
  <2>3. CASE GuardStops(r)
    BY <2>1, <2>3 DEF GuardStops, GuardFails, StatusOf, Call
  <2>4. CASE PassPublic(r) \/ RememberUser(r) \/ Admit(r)
    BY <2>1, <2>4 DEF PassPublic, RememberUser, HasToken, Admit, Goto, Call
  <2>5. CASE PassOpen(r) \/ RoleFromSupabase(r)
    BY <2>1, <2>5 DEF PassOpen, RoleFromSupabase, HasToken, Call
  <2>6. CASE RejectToken(r) \/ Forbid(r)
    BY <2>1, <2>6 DEF RejectToken, Forbid, Call
  <2>7. CASE LookForAdmin(r) \/ Provision(r)
    BY <2>1, <2>7 DEF LookForAdmin, Provision, Call
  <2> QED BY <2>2, <2>3, <2>4, <2>5, <2>6, <2>7 DEF Guarded, Guard
<1>2. work[r] = Idle /\ call[r].status # "ok"
  BY <1>1 DEF Base, Journey
<1>3. \A s \in Requests : Journey(s)'
  BY <1>1, <1>2 DEF Base, Journey, Shape, Idle, Steps
<1>4. AllKept
  BY <1>1, <1>2 DEF AllKept, Kept, Idle
<1> QED BY <1>1, <1>3, <1>4 DEF Base

LEMMA FailureKept ==
  ASSUME AccessTypeOK, Base, NEW r \in Requests, HandlerFails(r)
  PROVE  Base' /\ AllKept
<1>1. /\ call[r].at = "handler"
      /\ work' = [work EXCEPT ![r].alone = FALSE]
      /\ call' = [call EXCEPT ![r].at = "done", ![r].status = "503"]
  BY DEF HandlerFails, Throw, Answered, StatusOf
<1>2. /\ call'[r].at = "done" /\ call'[r].status = "503" /\ call'[r].route = call[r].route
      /\ \A s \in Requests \ {r} : call'[s] = call[s]
  BY <1>1 DEF AccessTypeOK, Call
<1>3. /\ work' = [s \in Requests |-> work'[s]]
      /\ work'[r] = [work[r] EXCEPT !.alone = FALSE]
      /\ \A s \in Requests \ {r} : work'[s] = work[s]
  BY <1>1 DEF Base
<1>4. /\ work'[r].step = work[r].step /\ work'[r].on = work[r].on
      /\ work'[r].say = work[r].say /\ work'[r].saw = work[r].saw /\ ~work'[r].alone
      /\ Shape(work'[r])
  BY <1>3 DEF Base, Journey, Shape
<1>5. \A s \in Requests : Journey(s)'
  BY <1>2, <1>3, <1>4 DEF Base, Journey
<1>6. AllKept
  BY <1>2, <1>3, <1>4 DEF AllKept, Kept
<1> QED BY <1>3, <1>5, <1>6 DEF Base

\* A handler that fails in its first statement has done nothing.
LEMMA RefusalKept ==
  ASSUME AccessTypeOK, Base, NEW r \in Requests, NEW err \in Errors, Fails(r, err),
         work[r].step = "start", NEW s \in Requests, NEW routes
  PROVE  Kept(s, routes)
<1>1. /\ Only(r) /\ work' = work
      /\ call'[r].at = "done" /\ call'[r].status # "ok"
  BY FailsBase
<1>2. CASE s = r
  BY <1>1, <1>2 DEF Only, Kept, Base, Journey, Idle
<1> QED BY <1>1, <1>2, OthersKept

-----------------------------------------------------------------------------
(* Verifications. *)

LEMMA VerifyingStays ==
  ASSUME VerifyingOK, property' = property, \A s \in Requests : Kept(s, {"verify"})
  PROVE  VerifyingOK'
<1>1. ASSUME NEW s \in Requests, At(s, "verify", "updated")'
      PROVE  At(s, "verify", "updated") /\ work'[s].say = work[s].say
  BY <1>1 DEF At, Kept
<1>2. ASSUME NEW s \in Requests, At(s, "verify", "updated"), ~Overlapped("verify")'
      PROVE  At(s, "verify", "updated")'
  BY <1>2 DEF At, Kept, Overlapped
<1>3. Overlapped("verify") => Overlapped("verify")'
  BY DEF Overlapped, Kept
<1> QED BY <1>1, <1>2, <1>3 DEF VerifyingOK

LEMMA VerifyingActs ==
  ASSUME AccessTypeOK, Base, VerifyingOK, NEW r \in Requests, Handle(r), call[r].route = "verify"
  PROVE  VerifyingOK'
<1>1. Base' /\ Only(r)
  BY HandleOnly
<1>2. ASSUME NEW s \in Requests \ {r}
      PROVE  Kept(s, {"verify"})
  BY <1>1, OthersKept
<1>3. ASSUME NEW s \in Requests \ {r}, At(s, "verify", "updated")'
      PROVE  At(s, "verify", "updated") /\ work'[s].say = work[s].say
  BY <1>2, <1>3 DEF At, Kept
<1>4. Verify(r) \/ RecordVerdict(r)
  BY HandlePrint DEF Handlers
<1>5. CASE \E err \in Errors : Fails(r, err) /\ Verify(r)
  <2>1. \A s \in Requests : Kept(s, {"verify"})
    BY <1>5, RefusalKept DEF Verify, At
  <2>2. property' = property
    BY <1>5, FailsBase DEF Verify, At, accessVars
  <2> QED BY <2>1, <2>2, VerifyingStays
<1>6. CASE Verify(r) /\ ~\E err \in Errors : Fails(r, err)
  <2>1. PICK v \in Verdicts :
          /\ property' = [property EXCEPT !.status = v]
          /\ Beside(r, "updated", [Idle EXCEPT !.step = "updated", !.say = v])
          /\ UNCHANGED accessVars
    BY <1>6 DEF Verify, Errors
  <2>2. /\ work'[r] = [Idle EXCEPT !.step = "updated", !.say = v,
                                   !.alone = Others(r, "updated") = {}]
        /\ call' = call
    BY <2>1 DEF Beside, accessVars, Idle
  <2>3. work'[r].say = v /\ (work'[r].alone => Others(r, "updated") = {})
    BY <2>2 DEF Idle
  <2>4. property' \in [status : Verdicts, verdict : Verdicts] /\ property'.status = v
    BY <2>1 DEF VerifyingOK
  <2>5. At(r, "verify", "updated")'
    BY <1>6, <2>2 DEF Verify, At, Idle
  <2>6. \A s \in Requests : At(s, "verify", "updated")' => work'[s].say \in Verdicts
    BY <1>3, <2>3 DEF VerifyingOK
  <2>7. ASSUME ~Overlapped("verify")', NEW s \in Requests, At(s, "verify", "updated")'
        PROVE  s = r
    <3>1. Others(r, "updated") = {}
      BY <2>2, <2>3, <2>7 DEF Overlapped
    <3> QED BY <1>3, <2>7, <3>1 DEF Others
  <2> QED BY <2>3, <2>4, <2>5, <2>6, <2>7 DEF VerifyingOK
<1>7. CASE RecordVerdict(r)
  <2>1. /\ property' = [property EXCEPT !.verdict = work[r].say]
        /\ Done(r, [work[r] EXCEPT !.step = "recorded"])
        /\ At(r, "verify", "updated")
    BY <1>7 DEF RecordVerdict
  <2>2. work'[r] = [work[r] EXCEPT !.step = "recorded"] /\ call'[r].route = "verify"
    BY <1>1, <2>1 DEF Done, Base, Only
  <2>3. work'[r].step = "recorded" /\ work'[r].alone = work[r].alone
    BY <2>2 DEF Base, Journey, Shape
  <2>4. work[r].say \in Verdicts
    BY <2>1 DEF VerifyingOK
  <2>5. /\ property' \in [status : Verdicts, verdict : Verdicts]
        /\ property'.status = property.status /\ property'.verdict = work[r].say
    BY <2>1, <2>4 DEF VerifyingOK
  <2>6. \A s \in Requests : At(s, "verify", "updated")' =>
          At(s, "verify", "updated") /\ work'[s].say = work[s].say
    BY <1>3, <2>3 DEF At
  <2>7. Overlapped("verify") => Overlapped("verify")'
    BY <1>2, <2>2, <2>3 DEF Overlapped, Kept
  <2> QED BY <2>1, <2>5, <2>6, <2>7 DEF VerifyingOK
<1> QED BY <1>4, <1>5, <1>6, <1>7

-----------------------------------------------------------------------------
(* Tickets. *)

LEMMA TicketsStay ==
  ASSUME TicketsOK, tickets' = tickets,
         \A s \in Requests : Kept(s, {"createTicket", "reviewTicket"})
  PROVE  TicketsOK'
<1> DEFINE R == {"createTicket", "reviewTicket"}
<1>1. ASSUME NEW s \in Requests, At(s, "reviewTicket", "reviewed")'
      PROVE  /\ At(s, "reviewTicket", "reviewed")
             /\ work'[s].say = work[s].say /\ work'[s].on = work[s].on
  BY <1>1 DEF At, Kept
<1>2. ASSUME NEW s \in Requests, At(s, "reviewTicket", "reviewed"), ~Overlapped("reviewTicket")'
      PROVE  At(s, "reviewTicket", "reviewed")' /\ work'[s].on = work[s].on
  BY <1>2 DEF At, Kept, Overlapped
<1>3. Overlapped("reviewTicket") => Overlapped("reviewTicket")'
  BY DEF Overlapped, Kept
<1>4. \A t \in DOMAIN tickets :
        t = FirstTicket \/ (t \in Requests /\ call'[t].route = "createTicket" /\ work'[t].step = "created")
  BY DEF TicketsOK, Kept
<1> QED BY <1>1, <1>2, <1>3, <1>4 DEF TicketsOK

LEMMA TicketsAct ==
  ASSUME AccessTypeOK, Base, TicketsOK, NEW r \in Requests, Handle(r),
         call[r].route \in {"createTicket", "reviewTicket"}
  PROVE  TicketsOK'
<1> DEFINE R == {"createTicket", "reviewTicket"}
           Reviewing(s) == At(s, "reviewTicket", "reviewed")
<1>1. Base' /\ Only(r)
  BY HandleOnly
<1>2. ASSUME NEW s \in Requests \ {r}
      PROVE  Kept(s, R)
  BY <1>1, OthersKept
<1>3. ASSUME NEW s \in Requests \ {r}, Reviewing(s)'
      PROVE  Reviewing(s) /\ work'[s].say = work[s].say /\ work'[s].on = work[s].on
  BY <1>2, <1>3 DEF At, Kept
<1>4. ASSUME NEW s \in Requests \ {r}, Reviewing(s), ~Overlapped("reviewTicket")'
      PROVE  Reviewing(s)' /\ work'[s].on = work[s].on
  BY <1>2, <1>4 DEF At, Kept, Overlapped
<1>5. CreateTicket(r) \/ Review(r) \/ MailAuthor(r)
  BY HandlePrint DEF Handlers
<1>6. CASE \E err \in Errors : Fails(r, err) /\ (CreateTicket(r) \/ Review(r))
  <2>1. \A s \in Requests : Kept(s, R)
    BY <1>6, RefusalKept DEF CreateTicket, Review, At
  <2>2. tickets' = tickets
    BY <1>6, FailsBase DEF CreateTicket, Review, At, accessVars, Done, Return, Answered,
       AccessTypeOK, Call
  <2> QED BY <2>1, <2>2, TicketsStay
<1>7. CASE CreateTicket(r) /\ ~\E err \in Errors : Fails(r, err)
  <2>1. /\ tickets' = [t \in DOMAIN tickets \cup {r} |->
                         IF t = r THEN [status |-> "open", mailed |-> "open"] ELSE tickets[t]]
        /\ Done(r, [Idle EXCEPT !.step = "created"])
        /\ At(r, "createTicket", "start")
    BY <1>7 DEF CreateTicket, Errors
  <2>2. work'[r] = [Idle EXCEPT !.step = "created"] /\ call'[r].route = "createTicket"
    BY <1>1, <2>1 DEF Done, Base, Only, At
  <2>3. work'[r].step = "created" /\ r \notin DOMAIN tickets
    BY <2>1, <2>2, FieldAssumption DEF Idle, At, TicketsOK
  <2>4. ~Reviewing(r) /\ ~Reviewing(r)'
    BY <2>1, <2>2 DEF At
  <2>5. /\ DOMAIN tickets' = DOMAIN tickets \cup {r}
        /\ tickets'[r] = [status |-> "open", mailed |-> "open"]
        /\ \A t \in DOMAIN tickets : tickets'[t] = tickets[t]
        /\ tickets' = [t \in DOMAIN tickets' |-> tickets'[t]]
    BY <2>1, <2>3
  <2>6. \A t \in DOMAIN tickets' : tickets'[t] = [status |-> tickets'[t].status, mailed |-> tickets'[t].mailed]
    BY <2>5 DEF TicketsOK
  <2>7. \A t \in DOMAIN tickets' :
          t = FirstTicket \/ (t \in Requests /\ call'[t].route = "createTicket" /\ work'[t].step = "created")
    <3>1. DOMAIN tickets' = DOMAIN tickets \cup {r} /\ r \in Requests
      BY <2>5
    <3>2. ASSUME NEW t \in DOMAIN tickets
          PROVE  t = FirstTicket \/ (t \in Requests /\ call'[t].route = "createTicket" /\ work'[t].step = "created")
      <4>1. t = FirstTicket \/ (t \in Requests /\ call[t].route = "createTicket" /\ work[t].step = "created")
        BY DEF TicketsOK
      <4>2. t # r
        BY <2>3
      <4> QED BY <1>2, <4>1, <4>2 DEF Kept
    <3> QED BY <2>2, <2>3, <3>1, <3>2
  <2>8. \A s \in Requests : Reviewing(s)' => Reviewing(s) /\ work[s].on \in DOMAIN tickets
    BY <1>3, <2>4 DEF TicketsOK
  <2>9. Overlapped("reviewTicket") => Overlapped("reviewTicket")'
    BY <1>2, <2>1 DEF Overlapped, Kept, At
  <2>10. \A s \in Requests : Reviewing(s)' => work'[s].on \in DOMAIN tickets'
    BY <1>3, <2>4, <2>5, <2>8
  <2>11. ASSUME ~Overlapped("reviewTicket")', NEW s \in Requests, Reviewing(s)'
         PROVE  tickets'[work'[s].on].status = work'[s].say
    BY <1>3, <2>4, <2>5, <2>8, <2>9, <2>11 DEF TicketsOK
  <2>12. ASSUME ~Overlapped("reviewTicket")', NEW t \in DOMAIN tickets', tickets'[t].status # tickets'[t].mailed
         PROVE  \E s \in Requests : Reviewing(s)' /\ work'[s].on = t
    <3>1. t \in DOMAIN tickets /\ tickets[t].status # tickets[t].mailed
      BY <2>5, <2>12
    <3>2. PICK s \in Requests : Reviewing(s) /\ work[s].on = t
      BY <2>9, <2>12, <3>1 DEF TicketsOK
    <3> QED BY <1>4, <2>4, <2>12, <3>2
  <2> QED BY <2>5, <2>6, <2>7, <2>10, <2>11, <2>12 DEF TicketsOK
<1>8. CASE Review(r) /\ ~\E err \in Errors : Fails(r, err)
  <2>1. PICK t \in DOMAIN tickets, v \in Reviews :
          /\ tickets' = [tickets EXCEPT ![t].status = v]
          /\ Beside(r, "reviewed", [Idle EXCEPT !.step = "reviewed", !.on = t, !.say = v])
          /\ UNCHANGED accessVars
    BY <1>8 DEF Review, Errors
  <2>2. /\ work'[r] = [Idle EXCEPT !.step = "reviewed", !.on = t, !.say = v,
                                   !.alone = Others(r, "reviewed") = {}]
        /\ call' = call /\ At(r, "reviewTicket", "start")
    BY <1>8, <2>1 DEF Beside, accessVars, Idle, Review
  <2>3. /\ work'[r].say = v /\ work'[r].on = t
        /\ work'[r].alone => Others(r, "reviewed") = {}
        /\ Reviewing(r)' /\ call[r].route = "reviewTicket"
    BY <2>2 DEF Idle, At
  <2>4. /\ DOMAIN tickets' = DOMAIN tickets
        /\ tickets' = [u \in DOMAIN tickets' |-> tickets'[u]]
        /\ tickets'[t] = [status |-> v, mailed |-> tickets[t].mailed]
        /\ \A u \in DOMAIN tickets : u # t => tickets'[u] = tickets[u]
    <3>1. tickets[t] = [status |-> tickets[t].status, mailed |-> tickets[t].mailed]
      BY DEF TicketsOK
    <3>2. tickets'[t] = [tickets[t] EXCEPT !.status = v]
      BY <2>1
    <3>3. tickets'[t] = [status |-> v, mailed |-> tickets[t].mailed]
      BY <3>1, <3>2
    <3> QED BY <2>1, <3>3 DEF TicketsOK
  <2>5. \A u \in DOMAIN tickets' : tickets'[u] = [status |-> tickets'[u].status, mailed |-> tickets'[u].mailed]
    BY <2>4 DEF TicketsOK
  <2>6. \A u \in DOMAIN tickets' :
          u = FirstTicket \/ (u \in Requests /\ call'[u].route = "createTicket" /\ work'[u].step = "created")
    BY <1>2, <2>2, <2>4 DEF TicketsOK, Kept, At
  <2>7. \A s \in Requests : Reviewing(s)' => work'[s].on \in DOMAIN tickets'
    BY <1>3, <2>3, <2>4 DEF TicketsOK
  <2>8. ASSUME ~Overlapped("reviewTicket")'
        PROVE  /\ Others(r, "reviewed") = {}
               /\ \A s \in Requests : Reviewing(s)' => s = r
               /\ \A s \in Requests \ {r} : ~Reviewing(s)
    <3>1. Others(r, "reviewed") = {}
      BY <2>2, <2>3, <2>8 DEF Overlapped
    <3>2. \A s \in Requests \ {r} : ~Reviewing(s)
      BY <2>3, <3>1 DEF Others
    <3> QED BY <1>3, <3>1, <3>2
  <2>9. ASSUME ~Overlapped("reviewTicket")', NEW u \in DOMAIN tickets', u # t
        PROVE  tickets'[u].status = tickets'[u].mailed
    <3>1. ~Reviewing(r)
      BY <2>2 DEF At
    <3>2. ~Overlapped("reviewTicket")
      BY <1>2, <2>2, <2>9 DEF Overlapped, Kept, At, Base, Journey, Idle
    <3> QED BY <2>4, <2>8, <2>9, <3>1, <3>2 DEF TicketsOK
  <2>10. tickets'[t].status = v
    BY <2>4
  <2> QED BY <2>3, <2>4, <2>5, <2>6, <2>7, <2>8, <2>9, <2>10 DEF TicketsOK
<1>9. CASE MailAuthor(r)
  <2>1. PICK sent \in BOOLEAN :
          /\ tickets' = IF sent THEN [tickets EXCEPT ![work[r].on].mailed = work[r].say] ELSE tickets
          /\ Done(r, [work[r] EXCEPT !.step = "mailed", !.alone = @ /\ sent])
    BY <1>9 DEF MailAuthor
  <2>2. At(r, "reviewTicket", "reviewed")
    BY <1>9 DEF MailAuthor
  <2>3. /\ work'[r] = [work[r] EXCEPT !.step = "mailed", !.alone = @ /\ sent]
        /\ call'[r].route = "reviewTicket"
    BY <1>1, <2>1, <2>2 DEF Done, Base, Only, At
  <2>4. work'[r].step = "mailed" /\ (work'[r].alone => work[r].alone /\ sent)
    BY <2>3 DEF Base, Journey, Shape
  <2>5. ~Reviewing(r)'
    BY <2>4 DEF At
  <2>6. /\ DOMAIN tickets' = DOMAIN tickets
        /\ tickets' = [u \in DOMAIN tickets' |-> tickets'[u]]
        /\ \A u \in DOMAIN tickets : u # work[r].on => tickets'[u] = tickets[u]
    BY <2>1 DEF TicketsOK
  <2>7. /\ work[r].on \in DOMAIN tickets
        /\ tickets'[work[r].on].status = tickets[work[r].on].status
        /\ sent => tickets'[work[r].on].mailed = work[r].say
        /\ tickets'[work[r].on] = [status |-> tickets'[work[r].on].status, mailed |-> tickets'[work[r].on].mailed]
    <3>1. work[r].on \in DOMAIN tickets
      BY <2>2 DEF TicketsOK
    <3>2. tickets[work[r].on] = [status |-> tickets[work[r].on].status, mailed |-> tickets[work[r].on].mailed]
      BY <3>1 DEF TicketsOK
    <3>3. CASE sent
      <4>1. tickets'[work[r].on] = [tickets[work[r].on] EXCEPT !.mailed = work[r].say]
        BY <2>1, <3>1, <3>3
      <4>2. tickets'[work[r].on] = [status |-> tickets[work[r].on].status, mailed |-> work[r].say]
        BY <3>2, <4>1
      <4> QED BY <3>1, <4>2
    <3> QED BY <2>1, <3>1, <3>2, <3>3
  <2>8. \A u \in DOMAIN tickets' : tickets'[u] = [status |-> tickets'[u].status, mailed |-> tickets'[u].mailed]
    BY <2>6, <2>7 DEF TicketsOK
  <2>9. \A u \in DOMAIN tickets' :
          u = FirstTicket \/ (u \in Requests /\ call'[u].route = "createTicket" /\ work'[u].step = "created")
    BY <1>2, <2>2, <2>6 DEF TicketsOK, Kept, At
  <2>10. \A s \in Requests : Reviewing(s)' => work'[s].on \in DOMAIN tickets'
    BY <1>3, <2>5, <2>6 DEF TicketsOK
  <2>11. ASSUME ~Overlapped("reviewTicket")'
         PROVE  /\ \A s \in Requests : Reviewing(s)' => tickets'[work'[s].on].status = work'[s].say
                /\ \A u \in DOMAIN tickets' : tickets'[u].status # tickets'[u].mailed =>
                     \E s \in Requests : Reviewing(s)' /\ work'[s].on = u
    <3>1. sent /\ ~Overlapped("reviewTicket")
      BY <1>2, <2>2, <2>3, <2>4, <2>11 DEF Overlapped, Kept
    <3>2. tickets[work[r].on].status = work[r].say
      BY <2>2, <3>1 DEF TicketsOK
    <3>3. ASSUME NEW s \in Requests, Reviewing(s)'
          PROVE  tickets'[work'[s].on].status = work'[s].say
      BY <1>3, <2>5, <2>6, <2>7, <3>1, <3>3 DEF TicketsOK
    <3>4. ASSUME NEW u \in DOMAIN tickets', tickets'[u].status # tickets'[u].mailed
          PROVE  \E s \in Requests : Reviewing(s)' /\ work'[s].on = u
      <4>1. u # work[r].on
        BY <2>7, <3>1, <3>2, <3>4
      <4>2. PICK s \in Requests : Reviewing(s) /\ work[s].on = u
        BY <2>6, <3>1, <3>4, <4>1 DEF TicketsOK
      <4> QED BY <1>4, <2>11, <4>1, <4>2
    <3> QED BY <3>3, <3>4
  <2> QED BY <2>6, <2>8, <2>9, <2>10, <2>11 DEF TicketsOK
<1> QED BY <1>5, <1>6, <1>7, <1>8, <1>9

LEMMA PapersFollow == VerifyingOK /\ TicketsOK => PapersAgree
  BY DEF VerifyingOK, TicketsOK, PapersAgree, Overlapped

-----------------------------------------------------------------------------
(* Jobs and change runs. *)

\* What the worker makes of a job, and what becomes of the others.
LEMMA AdvanceMoves ==
  ASSUME JobsOK, NEW j \in jobs, NEW at \in {"queued", "read", "uploaded", "finished"}, NEW saw \in Nat,
         Advance(j, at, saw)
  PROVE  \E n \in Job :
           /\ n.type = j.type /\ n.owner = j.owner /\ n.at = at /\ n.saw = saw
           /\ jobs' = (jobs \ {j}) \cup {n}
<1> DEFINE n == [type |-> j.type, owner |-> j.owner, copy |-> j.copy, at |-> at, saw |-> saw]
<1>1. j \in Job
  BY DEF JobsOK
<1>2. n = [j EXCEPT !.at = at, !.saw = saw] /\ n \in Job
  <2>1. PICK t, o, c, a, w : /\ t \in JobTypes /\ o \in Requests /\ c \in Nat
                             /\ j = [type |-> t, owner |-> o, copy |-> c, at |-> a, saw |-> w]
    BY <1>1 DEF Job
  <2>2. [j EXCEPT !.at = at] = [type |-> t, owner |-> o, copy |-> c, at |-> at, saw |-> w]
    BY <2>1
  <2>3. [[type |-> t, owner |-> o, copy |-> c, at |-> at, saw |-> w] EXCEPT !.saw = saw]
          = [type |-> t, owner |-> o, copy |-> c, at |-> at, saw |-> saw]
    OBVIOUS
  <2>4. [[j EXCEPT !.at = at] EXCEPT !.saw = saw]
          = [type |-> t, owner |-> o, copy |-> c, at |-> at, saw |-> saw]
    BY <2>2, <2>3, Zenon
  <2>5. n = [type |-> t, owner |-> o, copy |-> c, at |-> at, saw |-> saw]
    BY <2>1
  <2> QED BY <2>1, <2>4, <2>5 DEF Job
<1>3. jobs' = (jobs \ {j}) \cup {n}
  BY <1>2 DEF Advance
<1>4. n.type = j.type /\ n.owner = j.owner /\ n.at = at /\ n.saw = saw
  OBVIOUS
<1> QED BY <1>2, <1>3, <1>4

\* A repeat begins again, in the place of the delivery or beside it.
LEMMA RepeatMoves ==
  ASSUME JobsOK, NEW j \in jobs, Redeliver(j)
  PROVE  \E n \in Job :
           /\ n.type = j.type /\ n.owner = j.owner /\ n.at = "queued"
           /\ \/ jobs' = (jobs \ {j}) \cup {n} /\ overlapped' = overlapped
              \/ jobs' = jobs \cup {n} /\ overlapped' = overlapped \cup {j.owner}
<1> DEFINE n == [type |-> j.type, owner |-> j.owner, copy |-> repeats + 1, at |-> "queued", saw |-> 0]
<1>1. CASE Advance(j, "queued", 0) /\ UNCHANGED overlapped
  BY <1>1, AdvanceMoves
<1>2. CASE /\ jobs' = jobs \cup {[j EXCEPT !.copy = repeats + 1, !.at = "queued", !.saw = 0]}
           /\ overlapped' = overlapped \cup {j.owner}
  <2>1. PICK t, o, c, a, w : /\ t \in JobTypes /\ o \in Requests /\ c \in Nat
                             /\ j = [type |-> t, owner |-> o, copy |-> c, at |-> a, saw |-> w]
    BY DEF JobsOK, Job
  <2>2. [j EXCEPT !.copy = repeats + 1] = [type |-> t, owner |-> o, copy |-> repeats + 1, at |-> a, saw |-> w]
    BY <2>1
  <2>3. [[type |-> t, owner |-> o, copy |-> repeats + 1, at |-> a, saw |-> w] EXCEPT !.at = "queued"]
          = [type |-> t, owner |-> o, copy |-> repeats + 1, at |-> "queued", saw |-> w]
    OBVIOUS
  <2>10. [[type |-> t, owner |-> o, copy |-> repeats + 1, at |-> "queued", saw |-> w] EXCEPT !.saw = 0]
           = [type |-> t, owner |-> o, copy |-> repeats + 1, at |-> "queued", saw |-> 0]
    OBVIOUS
  <2>4. [[[j EXCEPT !.copy = repeats + 1] EXCEPT !.at = "queued"] EXCEPT !.saw = 0]
          = [type |-> t, owner |-> o, copy |-> repeats + 1, at |-> "queued", saw |-> 0]
    BY <2>2, <2>3, <2>10, Zenon
  <2>5. n = [type |-> t, owner |-> o, copy |-> repeats + 1, at |-> "queued", saw |-> 0]
    BY <2>1
  <2>6. repeats + 1 \in Nat
    BY DEF JobsOK
  <2>7. n \in Job
    BY <2>1, <2>5, <2>6 DEF Job
  <2>8. jobs' = jobs \cup {n}
    BY <1>2, <2>4, <2>5
  <2>9. n.type = j.type /\ n.owner = j.owner /\ n.at = "queued"
    OBVIOUS
  <2> HIDE DEF n
  <2> QED BY <1>2, <2>7, <2>8, <2>9
<1> QED BY <1>1, <1>2 DEF Redeliver

LEMMA JobsAct ==
  ASSUME JobsOK, NEW r \in Requests, Handle(r)
  PROVE  JobsOK'
<1>1. Footprint(r) /\ Handlers(r)
  BY HandlePrint
<1>2. \A j \in jobs' : j \in Job
  BY <1>1 DEF Footprint, JobsOK, Job
<1>3. DOMAIN tiles' \subseteq Requests
  <2>1. CASE call[r].route = "tile"
    BY <1>1, <2>1 DEF Handlers, RegisterTile, StoreTile, QueueTile, fieldVars, JobsOK
  <2> QED BY <1>1, <2>1 DEF Footprint, JobsOK
<1> QED BY <1>1, <1>2, <1>3 DEF Footprint, JobsOK

LEMMA RunsStay ==
  ASSUME JobsOK, RunsOK, UNCHANGED runs, repeated \subseteq repeated',
         \A d \in detections' : d = [run |-> d.run, verdict |-> d.verdict]
                                /\ \E e \in detections : e.run = d.run,
         \A j \in jobs' : j.type = "DETECT_CHANGES" => j \in jobs,
         \A s \in Requests : Kept(s, {"runChanges"})
  PROVE  RunsOK'
<1>1. \A s \in Requests : (Ordered(s) => Ordered(s)')
                          /\ (call'[s].route = "runChanges" /\ work'[s].step # "start" =>
                                call[s].route = "runChanges" /\ work[s].step # "start")
  BY DEF Ordered, Kept
<1>2. runs' \in [DOMAIN runs' -> {"queued", "running", "done", "failed"}]
  BY DEF RunsOK
<1>3. \A d \in detections' : d = [run |-> d.run, verdict |-> d.verdict] /\ d.run \in DOMAIN runs'
  BY DEF RunsOK
<1>4. \A s \in Requests : call'[s].route = "runChanges" /\ work'[s].step # "start" => s \in DOMAIN runs'
  BY <1>1 DEF RunsOK
<1>5. \A d \in detections' : d.run # OldRun => d.run \in Requests /\ Ordered(d.run)'
  BY <1>1 DEF RunsOK
<1>6. ASSUME NEW j \in jobs', j.type = "DETECT_CHANGES"
      PROVE  /\ Ordered(j.owner)'
             /\ j.owner \notin repeated' =>
                  /\ \A k \in jobs' : k.type = "DETECT_CHANGES" /\ k.owner = j.owner => k = j
                  /\ (\E d \in detections' : d.run = j.owner) => j.at = "finished"
  <2>1. j \in jobs /\ j.owner \in Requests
    BY <1>6 DEF JobsOK, Job
  <2> QED BY <1>1, <1>6, <2>1 DEF RunsOK
<1> QED BY <1>2, <1>3, <1>4, <1>5, <1>6 DEF RunsOK, Ordered

LEMMA RunsAct ==
  ASSUME AccessTypeOK, Base, JobsOK, RunsOK, NEW r \in Requests, Handle(r),
         call[r].route = "runChanges"
  PROVE  RunsOK'
<1>1. Base' /\ Only(r) /\ Footprint(r)
  BY HandleOnly, HandlePrint
<1>2. ASSUME NEW s \in Requests \ {r}
      PROVE  Kept(s, {"runChanges"})
  BY <1>1, OthersKept
<1>3. \A s \in Requests \ {r} : (Ordered(s) => Ordered(s)')
                          /\ (call'[s].route = "runChanges" /\ work'[s].step # "start" =>
                                call[s].route = "runChanges" /\ work[s].step # "start")
  BY <1>2 DEF Ordered, Kept
<1>4. detections' = detections /\ repeated' = repeated /\ call'[r].route = "runChanges"
  BY <1>1 DEF Footprint, Only
<1>5. RunChanges(r) \/ QueueChanges(r) \/ AuditRun(r)
  BY HandlePrint DEF Handlers
<1>6. \A d \in detections : d = [run |-> d.run, verdict |-> d.verdict]
  BY DEF RunsOK
<1>7. \A j \in jobs : j.owner \in Requests
  BY DEF JobsOK, Job
<1>8. CASE \E err \in Errors : Fails(r, err) /\ RunChanges(r)
  <2>1. \A s \in Requests : Kept(s, {"runChanges"})
    BY <1>8, RefusalKept DEF RunChanges, At
  <2>2. runs' = runs /\ jobs' = jobs
    BY <1>8, FailsBase DEF RunChanges, At, Move, accessVars
  <2> QED BY <1>4, <1>6, <2>1, <2>2, RunsStay
<1>9. CASE RunChanges(r) /\ ~\E err \in Errors : Fails(r, err)
  <2>1. /\ runs' = [x \in DOMAIN runs \cup {r} |-> IF x = r THEN "queued" ELSE runs[x]]
        /\ At(r, "runChanges", "start") /\ jobs' = jobs
    BY <1>9 DEF RunChanges, Errors
  <2>2. ~Ordered(r)
    BY <2>1 DEF Ordered, At
  <2>3. /\ runs' \in [DOMAIN runs' -> {"queued", "running", "done", "failed"}]
        /\ DOMAIN runs' = DOMAIN runs \cup {r}
    BY <2>1 DEF RunsOK
  <2>4. \A d \in detections' : d.run # OldRun => d.run \in Requests /\ Ordered(d.run)'
    BY <1>3, <1>4, <2>2 DEF RunsOK
  <2>5. \A s \in Requests : call'[s].route = "runChanges" /\ work'[s].step # "start" => s \in DOMAIN runs'
    BY <1>3, <2>3 DEF RunsOK
  <2>6. \A j \in jobs' : j.type = "DETECT_CHANGES" => Ordered(j.owner)'
    BY <1>3, <1>7, <2>1, <2>2 DEF RunsOK
  <2> QED BY <1>4, <2>1, <2>3, <2>4, <2>5, <2>6 DEF RunsOK, Ordered
<1>10. CASE QueueChanges(r)
  <2> DEFINE n == [type |-> "DETECT_CHANGES", owner |-> r, copy |-> 0, at |-> "queued", saw |-> 0]
  <2>1. /\ runs' = runs /\ jobs' = jobs \cup {n}
        /\ At(r, "runChanges", "inserted")
        /\ Move(r, [work[r] EXCEPT !.step = "queued"])
    BY <1>10 DEF QueueChanges, Push, changeVars
  <2>2. work'[r] = [work[r] EXCEPT !.step = "queued"] /\ ~Ordered(r)
    BY <2>1 DEF Move, Base, Ordered, At
  <2>3. Ordered(r)' /\ r \in DOMAIN runs /\ r # OldRun
    BY <1>4, <2>1, <2>2 DEF Base, Journey, Shape, Ordered, At, RunsOK
  <2>4. \A j \in jobs : j.type = "DETECT_CHANGES" => j.owner # r
    BY <2>2 DEF RunsOK
  <2>5. \A d \in detections : d.run # r
    BY <2>2, <2>3 DEF RunsOK
  <2>6. \A s \in Requests : call'[s].route = "runChanges" /\ work'[s].step # "start" => s \in DOMAIN runs'
    BY <1>3, <2>1, <2>3 DEF RunsOK
  <2>7. \A d \in detections' : d.run # OldRun => d.run \in Requests /\ Ordered(d.run)'
    BY <1>3, <1>4, <2>3 DEF RunsOK
  <2>8. ASSUME NEW j \in jobs', j.type = "DETECT_CHANGES"
        PROVE  /\ Ordered(j.owner)'
               /\ j.owner \notin repeated' =>
                    /\ \A k \in jobs' : k.type = "DETECT_CHANGES" /\ k.owner = j.owner => k = j
                    /\ (\E d \in detections' : d.run = j.owner) => j.at = "finished"
    <3>1. CASE j = n
      BY <1>4, <2>1, <2>3, <2>4, <2>5, <3>1
    <3>2. CASE j \in jobs
      BY <1>3, <1>4, <1>7, <2>1, <2>3, <2>4, <2>8, <3>2 DEF RunsOK
    <3> QED BY <2>1, <3>1, <3>2
  <2> HIDE DEF n
  <2> QED BY <1>4, <2>1, <2>6, <2>7, <2>8 DEF RunsOK, Ordered
<1>11. CASE AuditRun(r)
  <2>1. /\ runs' = runs /\ jobs' = jobs
        /\ At(r, "runChanges", "queued")
        /\ Done(r, [work[r] EXCEPT !.step = "audited"])
    BY <1>11 DEF AuditRun, changeVars
  <2>2. work'[r] = [work[r] EXCEPT !.step = "audited"]
    BY <2>1 DEF Done, Base
  <2>3. Ordered(r)' /\ r \in DOMAIN runs
    BY <1>4, <2>1, <2>2 DEF Base, Journey, Shape, Ordered, At, RunsOK
  <2>4. \A s \in Requests : call'[s].route = "runChanges" /\ work'[s].step # "start" => s \in DOMAIN runs'
    BY <1>3, <2>1, <2>3 DEF RunsOK
  <2>5. \A d \in detections' : d.run # OldRun => d.run \in Requests /\ Ordered(d.run)'
    BY <1>3, <1>4, <2>3 DEF RunsOK
  <2>6. \A j \in jobs' : j.type = "DETECT_CHANGES" => Ordered(j.owner)'
    BY <1>3, <1>7, <2>1, <2>3 DEF RunsOK
  <2> QED BY <1>4, <2>1, <2>4, <2>5, <2>6 DEF RunsOK, Ordered
<1> QED BY <1>5, <1>8, <1>9, <1>10, <1>11

\* The verdict of an officer leaves the runs of the detections as they are.
LEMMA VerdictKeepsRuns ==
  ASSUME RunsOK, NEW r \in Requests, VerifyChange(r) \/ AuditVerdict(r)
  PROVE  \A d \in detections' : d = [run |-> d.run, verdict |-> d.verdict]
                                /\ \E e \in detections : e.run = d.run
<1>1. \A d \in detections : d = [run |-> d.run, verdict |-> d.verdict]
  BY DEF RunsOK
<1>2. CASE detections' = detections
  BY <1>1, <1>2
<1>3. CASE detections' # detections
  <2>1. PICK d \in detections, v \in {"pending", "confirmed", "false_positive"} :
          detections' = (detections \ {d}) \cup {[d EXCEPT !.verdict = v]}
    BY <1>3 DEF VerifyChange, AuditVerdict, changeVars
  <2>2. [d EXCEPT !.verdict = v] = [run |-> d.run, verdict |-> v]
    BY <1>1
  <2> QED BY <1>1, <2>1, <2>2
<1> QED BY <1>2, <1>3

LEMMA DetectionKeepsRuns ==
  ASSUME JobsOK, RunsOK, NEW j \in jobs, DetectionJob(j)
  PROVE  RunsOK' /\ JobsOK'
<1>1. /\ j.type = "DETECT_CHANGES" /\ UNCHANGED <<work, call, tiles>>
      /\ j \in Job /\ \A k \in jobs : k \in Job
  BY DEF DetectionJob, JobsOK, accessVars, fieldVars
<1>2. PICK at \in {"queued", "read", "finished"} :
        Advance(j, at, 0) /\ (Replace(j) => at = "finished")
  BY DEF DetectionJob, BeginDetection, Replace, DetectionFails, Redeliver
<1>3. PICK n \in Job :
        /\ n.type = j.type /\ n.owner = j.owner /\ n.at = at /\ n.saw = 0
        /\ jobs' = (jobs \ {j}) \cup {n}
  BY <1>2, AdvanceMoves
<1>4. \A s : Ordered(s)' <=> Ordered(s)
  BY <1>1 DEF Ordered
<1>5. Ordered(j.owner) /\ j.owner \in DOMAIN runs /\ j.owner \in Requests /\ j.owner # OldRun
  BY <1>1, ChangesAssumption DEF RunsOK, Ordered, Job
<1>6. j.owner \notin repeated => \A k \in jobs \ {j} : k.type = "DETECT_CHANGES" => k.owner # j.owner
  BY <1>1 DEF RunsOK
<1>7. \A k, l \in jobs' : k.type = "DETECT_CHANGES" /\ l.type = "DETECT_CHANGES" /\ l.owner = k.owner
        /\ k.owner \notin repeated => l = k
  BY <1>1, <1>3, <1>6 DEF RunsOK
<1>8. \A k \in jobs' : k.type = "DETECT_CHANGES" => Ordered(k.owner)'
  BY <1>3, <1>4, <1>5 DEF RunsOK
<1>9. UNCHANGED <<repeats, repeated, overlapped>>
  BY DEF DetectionJob, releaseVars, deliveryVars
<1>10. JobsOK'
  BY <1>1, <1>3, <1>9 DEF JobsOK, DetectionJob, BeginDetection, Replace, DetectionFails
<1>11. \A s \in Requests : call'[s].route = "runChanges" /\ work'[s].step # "start" => s \in DOMAIN runs
  BY <1>1 DEF RunsOK
<1>12. /\ runs' \in [DOMAIN runs' -> {"queued", "running", "done", "failed"}]
       /\ DOMAIN runs' = DOMAIN runs
  BY <1>5 DEF RunsOK, DetectionJob, BeginDetection, Replace, DetectionFails
<1>13. CASE Replace(j)
  <2> DEFINE d0 == [run |-> j.owner, verdict |-> "pending"]
  <2>1. /\ detections' = {d \in detections : d.run # j.owner} \cup {d0}
        /\ at = "finished"
    BY <1>2, <1>13 DEF Replace
  <2>2. \A d \in detections' :
          \/ d \in detections /\ d.run # j.owner
          \/ d = d0
    BY <2>1
  <2>3. d0 = [run |-> d0.run, verdict |-> d0.verdict] /\ d0.run = j.owner
    OBVIOUS
  <2> HIDE DEF d0
  <2>4. /\ \A d \in detections' : d = [run |-> d.run, verdict |-> d.verdict] /\ d.run \in DOMAIN runs'
        /\ \A d \in detections' : d.run # OldRun => d.run \in Requests /\ Ordered(d.run)'
    BY <1>4, <1>5, <1>12, <2>2, <2>3 DEF RunsOK
  <2>5. \A k \in jobs' : k.type = "DETECT_CHANGES" /\ k.owner \notin repeated =>
          ((\E d \in detections' : d.run = k.owner) => k.at = "finished")
    BY <1>3, <1>6, <2>1, <2>2, <2>3 DEF RunsOK
  <2> QED BY <1>7, <1>8, <1>9, <1>10, <1>11, <1>12, <2>4, <2>5 DEF RunsOK
<1>14. CASE BeginDetection(j) \/ DetectionFails(j)
  <2>1. detections' = detections /\ j.at # "finished"
    BY <1>14 DEF BeginDetection, DetectionFails
  <2>2. j.owner \notin repeated => ~\E d \in detections : d.run = j.owner
    BY <1>1, <2>1 DEF RunsOK
  <2>3. \A k \in jobs' : k.type = "DETECT_CHANGES" /\ k.owner \notin repeated =>
          ((\E d \in detections : d.run = k.owner) => k.at = "finished")
    BY <1>3, <2>2 DEF RunsOK
  <2> QED BY <1>4, <1>7, <1>8, <1>9, <1>10, <1>11, <1>12, <2>1, <2>3 DEF RunsOK
<1> QED BY <1>13, <1>14 DEF DetectionJob

\* A repeat exempts its run.
LEMMA RepeatKeepsRuns ==
  ASSUME JobsOK, RunsOK, NEW j \in jobs, Redeliver(j), UNCHANGED changeVars
  PROVE  RunsOK' /\ JobsOK'
<1>1. /\ UNCHANGED <<work, call, tiles, faults, runs, detections>>
      /\ repeats' = repeats + 1 /\ repeats < MaxRepeats /\ repeated' = repeated \cup {j.owner}
      /\ \A k \in jobs : k \in Job
  BY DEF Redeliver, accessVars, fieldVars, changeVars, JobsOK
<1>2. PICK n \in Job :
        /\ n.type = j.type /\ n.owner = j.owner /\ n.at = "queued"
        /\ \/ jobs' = (jobs \ {j}) \cup {n} /\ overlapped' = overlapped
           \/ jobs' = jobs \cup {n} /\ overlapped' = overlapped \cup {j.owner}
  BY RepeatMoves
<1>3. j.owner \in Requests
  BY DEF JobsOK, Job
<1>4. repeats' \in 0..MaxRepeats
  BY <1>1 DEF JobsOK
<1>5. JobsOK'
  BY <1>1, <1>2, <1>3, <1>4 DEF JobsOK
<1>6. \A s : Ordered(s)' <=> Ordered(s)
  BY <1>1 DEF Ordered
<1>7. \A k \in jobs' : k \in jobs \/ (k = n /\ k.owner \in repeated')
  BY <1>1, <1>2
<1>8. \A k \in jobs' : k.type = "DETECT_CHANGES" =>
        /\ Ordered(k.owner)'
        /\ k.owner \notin repeated' =>
             /\ \A l \in jobs' : l.type = "DETECT_CHANGES" /\ l.owner = k.owner => l = k
             /\ (\E d \in detections' : d.run = k.owner) => k.at = "finished"
  BY <1>1, <1>2, <1>6, <1>7 DEF RunsOK
<1> QED BY <1>1, <1>5, <1>6, <1>8 DEF RunsOK

-----------------------------------------------------------------------------
(* Verdicts on changes. *)

LEMMA VotesStay ==
  ASSUME VotesOK, detections' = detections, repeated \subseteq repeated',
         \A s \in Requests : Kept(s, {"verifyChange"})
  PROVE  VotesOK'
<1>1. ASSUME NEW s \in Requests, Voted(s)
      PROVE  Voted(s)' /\ work'[s].on = work[s].on /\ work'[s].say = work[s].say
  BY <1>1 DEF Voted, Kept
<1>2. ASSUME NEW s \in Requests, Voted(s)'
      PROVE  Voted(s)
  BY <1>2 DEF Voted, Kept
<1>3. \A s \in Requests : call'[s].route = "verifyChange" /\ call'[s].status = "ok" => Voted(s)'
  BY <1>1 DEF VotesOK, Kept
<1>4. ASSUME NEW s \in Requests, Voted(s)', work'[s].on \notin repeated'
      PROVE  \E d \in detections', u \in Requests :
               d.run = work'[s].on /\ Voted(u)' /\ work'[u].on = d.run /\ work'[u].say = d.verdict
  <2>1. Voted(s) /\ work[s].on \notin repeated
    BY <1>1, <1>2, <1>4
  <2>2. PICK d \in detections, u \in Requests :
               d.run = work[s].on /\ Voted(u) /\ work[u].on = d.run /\ work[u].say = d.verdict
    BY <2>1 DEF VotesOK
  <2> QED BY <1>1, <2>1, <2>2
<1> QED BY <1>3, <1>4 DEF VotesOK, Voted

LEMMA VotesAct ==
  ASSUME AccessTypeOK, Base, RunsOK, VotesOK, NEW r \in Requests, Handle(r),
         call[r].route = "verifyChange"
  PROVE  VotesOK'
<1>1. Base' /\ Only(r) /\ Footprint(r)
  BY HandleOnly, HandlePrint
<1>2. ASSUME NEW s \in Requests \ {r}
      PROVE  Kept(s, {"verifyChange"})
  BY <1>1, OthersKept
<1>3. ASSUME NEW s \in Requests \ {r}, Voted(s)
      PROVE  Voted(s)' /\ work'[s].on = work[s].on /\ work'[s].say = work[s].say
  BY <1>2, <1>3 DEF Voted, Kept
<1>4. ASSUME NEW s \in Requests \ {r}, Voted(s)'
      PROVE  Voted(s)
  BY <1>2, <1>4 DEF Voted, Kept
<1>5. repeated' = repeated /\ call'[r].route = "verifyChange"
  BY <1>1 DEF Footprint, Only
<1>6. VerifyChange(r) \/ AuditVerdict(r)
  BY HandlePrint DEF Handlers
<1>7. \A s \in Requests \ {r} : call'[s].route = "verifyChange" /\ call'[s].status = "ok" => Voted(s)'
  BY <1>2, <1>3 DEF VotesOK, Kept
<1>8. CASE Fails(r, "notFound") /\ VerifyChange(r)
  <2>1. \A s \in Requests : Kept(s, {"verifyChange"})
    BY <1>8, RefusalKept DEF VerifyChange, At, Errors
  <2>2. detections' = detections
    BY <1>8, FailsBase DEF VerifyChange, At, Move, accessVars, Errors
  <2> QED BY <1>5, <2>1, <2>2, VotesStay
<1>9. CASE VerifyChange(r) /\ ~Fails(r, "notFound")
  <2>1. PICK d \in detections, v \in {"pending", "confirmed", "false_positive"} :
          /\ detections' = (detections \ {d}) \cup {[d EXCEPT !.verdict = v]}
          /\ Move(r, [Idle EXCEPT !.step = "verified", !.on = d.run, !.say = v])
    BY <1>9 DEF VerifyChange
  <2>2. ~Voted(r)
    BY <1>9 DEF VerifyChange, Voted, At
  <2>3. /\ work'[r].step = "verified" /\ work'[r].on = d.run /\ work'[r].say = v
        /\ call' = call
    BY <2>1 DEF Move, Base, Idle, accessVars
  <2>4. Voted(r)' /\ call'[r].status # "ok"
    BY <1>1, <1>5, <1>9, <2>3 DEF Voted, VerifyChange, At, Base, Journey
  <2>5. PICK e \in detections' : e.run = d.run /\ e.verdict = v
    <3>1. d = [run |-> d.run, verdict |-> d.verdict]
      BY DEF RunsOK
    <3>2. [d EXCEPT !.verdict = v] = [run |-> d.run, verdict |-> v]
      BY <3>1
    <3> QED BY <2>1, <3>2
  <2>6. ASSUME NEW s \in Requests, Voted(s)', work'[s].on \notin repeated'
        PROVE  \E x \in detections', u \in Requests :
                 x.run = work'[s].on /\ Voted(u)' /\ work'[u].on = x.run /\ work'[u].say = x.verdict
    <3>1. CASE work'[s].on = d.run
      BY <2>3, <2>4, <2>5, <3>1
    <3>2. CASE work'[s].on # d.run
      <4>1. s # r /\ Voted(s) /\ work'[s].on = work[s].on /\ work[s].on \notin repeated
        BY <1>3, <1>4, <1>5, <2>3, <2>6, <3>2
      <4>2. PICK x \in detections, u \in Requests :
               x.run = work[s].on /\ Voted(u) /\ work[u].on = x.run /\ work[u].say = x.verdict
        BY <4>1 DEF VotesOK
      <4>3. x \in detections' /\ u # r
        BY <2>1, <2>2, <3>2, <4>1, <4>2
      <4> QED BY <1>3, <4>1, <4>2, <4>3
    <3> QED BY <3>1, <3>2
  <2> QED BY <1>7, <2>4, <2>6 DEF VotesOK, Voted
<1>10. CASE AuditVerdict(r)
  <2>1. /\ detections' = detections /\ At(r, "verifyChange", "verified")
        /\ Done(r, [work[r] EXCEPT !.step = "audited"])
    BY <1>10 DEF AuditVerdict, changeVars
  <2>2. work'[r] = [work[r] EXCEPT !.step = "audited"]
    BY <2>1 DEF Done, Base
  <2>3. work'[r].step = "audited" /\ work'[r].on = work[r].on /\ work'[r].say = work[r].say
    BY <2>2 DEF Base, Journey, Shape
  <2>4. Voted(r) /\ Voted(r)'
    BY <1>5, <2>1, <2>3 DEF Voted, At
  <2>5. ASSUME NEW s \in Requests, Voted(s)', work'[s].on \notin repeated'
        PROVE  \E d \in detections', u \in Requests :
                 d.run = work'[s].on /\ Voted(u)' /\ work'[u].on = d.run /\ work'[u].say = d.verdict
    <3>1. Voted(s) /\ work'[s].on = work[s].on /\ work[s].on \notin repeated
      BY <1>3, <1>4, <1>5, <2>3, <2>4, <2>5
    <3>2. PICK d \in detections, u \in Requests :
               d.run = work[s].on /\ Voted(u) /\ work[u].on = d.run /\ work[u].say = d.verdict
      BY <3>1 DEF VotesOK
    <3> QED BY <1>3, <2>1, <2>3, <2>4, <3>1, <3>2
  <2> QED BY <1>7, <2>4, <2>5 DEF VotesOK, Voted
<1> QED BY <1>6, <1>8, <1>9, <1>10

LEMMA DetectionKeepsVotes ==
  ASSUME RunsOK, VotesOK, NEW j \in jobs, DetectionJob(j)
  PROVE  VotesOK'
<1>1. j.type = "DETECT_CHANGES" /\ UNCHANGED <<work, call, repeated>>
  BY DEF DetectionJob, accessVars, releaseVars, deliveryVars
<1>2. \A s \in Requests : Kept(s, {"verifyChange"})
  BY <1>1 DEF Kept
<1>3. CASE Replace(j)
  <2>1. /\ j.at = "read"
        /\ \A d \in detections : d.run # j.owner => d \in detections'
    BY <1>3 DEF Replace
  <2>2. j.owner \notin repeated => \A d \in detections : d.run # j.owner
    BY <1>1, <2>1 DEF RunsOK
  <2>3. ASSUME NEW s \in Requests, Voted(s), work[s].on \notin repeated
        PROVE  \E d \in detections', u \in Requests :
                 d.run = work[s].on /\ Voted(u) /\ work[u].on = d.run /\ work[u].say = d.verdict
    <3>1. PICK d \in detections, u \in Requests :
            d.run = work[s].on /\ Voted(u) /\ work[u].on = d.run /\ work[u].say = d.verdict
      BY <2>3 DEF VotesOK
    <3> QED BY <2>1, <2>2, <2>3, <3>1
  <2> QED BY <1>1, <2>3 DEF VotesOK, Voted
<1>4. CASE BeginDetection(j) \/ DetectionFails(j)
  BY <1>1, <1>2, <1>4, VotesStay DEF BeginDetection, DetectionFails
<1> QED BY <1>3, <1>4 DEF DetectionJob

LEMMA VerdictsFollow == VotesOK => VerdictsSurvive
<1> SUFFICES ASSUME VotesOK, NEW r \in Requests,
                    call[r].route = "verifyChange", call[r].status = "ok", work[r].on \notin repeated
             PROVE  \E d \in detections : d.run = work[r].on /\ d.verdict \in Said(d.run)
  BY DEF VerdictsSurvive
<1>1. PICK d \in detections, s \in Requests :
        d.run = work[r].on /\ Voted(s) /\ work[s].on = d.run /\ work[s].say = d.verdict
  BY DEF VotesOK
<1>2. d.verdict \in Said(d.run)
  BY <1>1 DEF Said, Voted
<1> QED BY <1>1, <1>2

-----------------------------------------------------------------------------
(* What is built and put in storage. *)

LEMMA LastVersionIsNat == LastVersion \in Nat /\ \A v \in 1..LastVersion : Rows[v] \in Nat
  BY DEF LastVersion

LEMMA StepMarks ==
  ASSUME Base, NEW r \in Requests, NEW step,
         work' = [work EXCEPT ![r] = [work[r] EXCEPT !.step = step]]
  PROVE  /\ work'[r].step = step
         /\ work'[r].on = work[r].on /\ work'[r].say = work[r].say /\ work'[r].saw = work[r].saw
<1>1. work'[r] = [work[r] EXCEPT !.step = step]
  BY DEF Base
<1> QED BY <1>1 DEF Base, Journey, Shape

LEMMA BuildsStay ==
  ASSUME BuildsOK, records' \in [Wards -> 1..LastVersion], minute' \in 0..MaxMinute,
         \A s \in Requests : Kept(s, {"exportCsv", "geojson"})
  PROVE  BuildsOK'
<1>1. ASSUME NEW s \in Requests
      PROVE  CsvBuilt(s)'
  BY DEF BuildsOK, CsvBuilt, Kept
<1>2. ASSUME NEW s \in Requests
      PROVE  GeojsonBuilt(s)'
  <2>1. SUFFICES ASSUME call'[s].route = "geojson", work'[s].step # "start"
                 PROVE  GeojsonBuilt(s)'
    BY DEF GeojsonBuilt
  <2>2. /\ call[s].route = "geojson" /\ work[s].step # "start"
        /\ work'[s].on = work[s].on /\ work'[s].saw = work[s].saw
    BY <2>1 DEF Kept
  <2>3. GeojsonBuilt(s)
    BY DEF BuildsOK
  <2> QED BY <2>2, <2>3 DEF GeojsonBuilt
<1> QED BY <1>1, <1>2 DEF BuildsOK

LEMMA BuildsAct ==
  ASSUME AccessTypeOK, Base, BuildsOK, NEW r \in Requests, Handle(r),
         call[r].route \in {"exportCsv", "geojson"}
  PROVE  BuildsOK'
<1>1. Base' /\ Only(r) /\ records' = records /\ minute' = minute
  BY HandleOnly, HandlePrint DEF Footprint
<1>2. call'[r].route = call[r].route /\ minute \in Nat
  BY <1>1 DEF Only, BuildsOK
<1>3. ASSUME NEW s \in Requests \ {r}
      PROVE  CsvBuilt(s)' /\ GeojsonBuilt(s)'
  <2>1. Kept(s, {"exportCsv", "geojson"})
    BY <1>1, OthersKept
  <2>2. CsvBuilt(s)'
    BY <2>1 DEF BuildsOK, CsvBuilt, Kept
  <2>3. GeojsonBuilt(s)'
    BY <2>1 DEF BuildsOK, GeojsonBuilt, Kept
  <2> QED BY <2>2, <2>3
<1>4. Csv(r) \/ PutCsv(r) \/ Geojson(r) \/ PutGeojson(r) \/ RecordGeojson(r)
        \/ Inline(r, "built") \/ Inline(r, "put")
  BY HandlePrint DEF Handlers
<1>5. CASE work'[r] = work[r]
  BY <1>1, <1>2, <1>3, <1>5 DEF BuildsOK, CsvBuilt, GeojsonBuilt
<1>6. CASE Csv(r) /\ work'[r] # work[r]
  <2>1. PICK w : Move(r, [Idle EXCEPT !.step = "built", !.on = w, !.saw = <<CsvKey(w), 1>>])
    BY <1>6, FailsBase DEF Csv, Errors
  <2>2. work'[r].saw = <<<<"csv", minute>>, 1>> /\ call[r].route = "exportCsv"
    BY <1>6, <2>1 DEF Move, Base, Idle, CsvKey, Csv, At
  <2> QED BY <1>1, <1>2, <1>3, <2>2 DEF BuildsOK, CsvBuilt, GeojsonBuilt
<1>7. CASE Geojson(r) /\ work'[r] # work[r]
  <2>1. PICK w \in Wards : Move(r, [Idle EXCEPT !.step = "built", !.on = w,
                                                !.saw = <<GeojsonKey(w), records[w]>>])
    BY <1>7, FailsBase DEF Geojson, Errors
  <2>2. /\ work'[r].saw = <<<<"geojson", w, minute>>, records[w]>> /\ work'[r].on = w
        /\ call[r].route = "geojson"
    BY <1>7, <2>1 DEF Move, Base, Idle, GeojsonKey, Geojson, At
  <2>3. records[w] \in 1..LastVersion
    BY DEF BuildsOK
  <2> QED BY <1>1, <1>2, <1>3, <2>2, <2>3 DEF BuildsOK, CsvBuilt, GeojsonBuilt
<1>8. CASE PutCsv(r) \/ PutGeojson(r) \/ RecordGeojson(r) \/ Inline(r, "built") \/ Inline(r, "put")
  <2>1. PICK step : work' = [work EXCEPT ![r] = [work[r] EXCEPT !.step = step]]
    BY <1>8 DEF PutCsv, PutGeojson, RecordGeojson, Inline, Move, Done
  <2>3. work'[r].saw = work[r].saw /\ work'[r].on = work[r].on
    BY <2>1, StepMarks
  <2>4. work[r].step # "start"
    BY <1>8 DEF PutCsv, PutGeojson, RecordGeojson, Inline, At
  <2>5. CsvBuilt(r) /\ GeojsonBuilt(r)
    BY DEF BuildsOK
  <2>6. CsvBuilt(r)'
    BY <1>2, <2>3, <2>4, <2>5 DEF CsvBuilt
  <2>7. GeojsonBuilt(r)'
    BY <1>2, <2>3, <2>4, <2>5 DEF GeojsonBuilt
  <2> QED BY <1>1, <1>3, <2>6, <2>7 DEF BuildsOK
<1> QED BY <1>4, <1>5, <1>6, <1>7, <1>8

LEMMA ShelfStays ==
  ASSUME ShelfOK, shelf' = shelf, \A s \in Requests : Kept(s, {"exportCsv", "geojson"})
  PROVE  ShelfOK'
<1>1. ASSUME NEW s \in Requests, Built(s) \/ Built(s)'
      PROVE  /\ Built(s) /\ Built(s)' /\ call'[s].route = call[s].route
             /\ work'[s].step = work[s].step /\ work'[s].on = work[s].on /\ work'[s].saw = work[s].saw
  BY <1>1 DEF Built, Kept
<1>2. ASSUME NEW r \in Requests, NEW s \in Requests, Built(r), Built(s), SameMinute(r, s)
      PROVE  SameMinute(r, s)'
  BY <1>1, <1>2 DEF SameMinute
<1>3. ASSUME NEW r \in Requests, Stored(r)'
      PROVE  /\ work'[r].saw[1] \in DOMAIN shelf'
             /\ \/ shelf'[work'[r].saw[1]] = [ward |-> work'[r].on, version |-> work'[r].saw[2]]
                \/ \E s \in Requests : Built(s)' /\ SameMinute(r, s)'
  <2>1. Stored(r)
    BY <1>1, <1>3 DEF Stored
  <2>2. Built(r)
    BY <2>1 DEF Stored
  <2> QED BY <1>1, <1>2, <2>1, <2>2 DEF ShelfOK
<1> QED BY <1>3 DEF ShelfOK

\* Which objects a Put leaves as they were.
LEMMA PutMoves ==
  ASSUME NEW key, NEW w, NEW v, Put(key, w, v)
  PROVE  /\ shelf' = [k \in DOMAIN shelf' |-> shelf'[k]]
         /\ DOMAIN shelf' = DOMAIN shelf \cup {key}
         /\ shelf'[key] = [ward |-> w, version |-> v]
         /\ \A k \in DOMAIN shelf : k # key => shelf'[k] = shelf[k]
  BY DEF Put

\* Two builds under one key share what a key names.
LEMMA OneKey ==
  ASSUME BuildsOK, NEW r \in Requests, NEW s \in Requests, r # s, Built(r), Built(s),
         work[r].saw[1] = work[s].saw[1]
  PROVE  SameMinute(s, r)
<1>1. CASE call[r].route = "exportCsv" /\ call[s].route = "exportCsv"
  BY <1>1 DEF SameMinute
<1>2. CASE call[r].route = "geojson" /\ call[s].route = "geojson"
  <2>1. PICK m \in Nat, v \in 1..LastVersion : work[r].saw = <<<<"geojson", work[r].on, m>>, v>>
    BY <1>2 DEF Built, BuildsOK, GeojsonBuilt
  <2>2. PICK n \in Nat, u \in 1..LastVersion : work[s].saw = <<<<"geojson", work[s].on, n>>, u>>
    BY <1>2 DEF Built, BuildsOK, GeojsonBuilt
  <2>3. work[r].on = work[s].on
    BY <2>1, <2>2
  <2> QED BY <1>2, <2>3 DEF SameMinute
<1>3. ASSUME NEW x \in Requests, Built(x)
      PROVE  /\ call[x].route = "exportCsv" => work[x].saw[1][1] = "csv"
             /\ call[x].route = "geojson" => work[x].saw[1][1] = "geojson"
  <2>1. CASE call[x].route = "exportCsv"
    BY <1>3, <2>1 DEF Built, BuildsOK, CsvBuilt
  <2>2. CASE call[x].route = "geojson"
    BY <1>3, <2>2 DEF Built, BuildsOK, GeojsonBuilt
  <2> QED BY <2>1, <2>2
<1> QED BY <1>1, <1>2, <1>3 DEF Built

LEMMA KeysNameTheirKind ==
  ASSUME BuildsOK, NEW x \in Requests, Built(x)
  PROVE  /\ work[x].saw[1][1] \in {"csv", "geojson"}
         /\ work[x].saw[1][1] = "geojson" => work[x].saw[1][2] = work[x].on
<1>1. CASE call[x].route = "exportCsv"
  BY <1>1 DEF Built, BuildsOK, CsvBuilt
<1>2. CASE call[x].route = "geojson"
  BY <1>2 DEF Built, BuildsOK, GeojsonBuilt
<1> QED BY <1>1, <1>2 DEF Built

LEMMA ShelfActs ==
  ASSUME AccessTypeOK, Base, BuildsOK, ShelfOK, NEW r \in Requests, Handle(r),
         call[r].route \in {"exportCsv", "geojson"}
  PROVE  ShelfOK'
<1>1. Base' /\ Only(r)
  BY HandleOnly
<1>2. call'[r].route = call[r].route
  BY <1>1 DEF Only
<1>3. ASSUME NEW s \in Requests \ {r}, Built(s) \/ Built(s)'
      PROVE  /\ Built(s) /\ Built(s)' /\ call'[s].route = call[s].route
             /\ work'[s].step = work[s].step /\ work'[s].on = work[s].on /\ work'[s].saw = work[s].saw
  <2>1. Kept(s, {"exportCsv", "geojson"})
    BY <1>1, OthersKept
  <2> QED BY <1>3, <2>1 DEF Built, Kept
<1>4. Csv(r) \/ PutCsv(r) \/ Geojson(r) \/ PutGeojson(r) \/ RecordGeojson(r)
        \/ Inline(r, "built") \/ Inline(r, "put")
  BY HandlePrint DEF Handlers
<1>5. CASE Csv(r) \/ Geojson(r)
  <2>1. shelf' = shelf /\ ~Built(r)
    BY <1>5 DEF Csv, Geojson, releaseVars, deliveryVars, Built, At
  <2>2. ~Stored(r)'
    <3>1. CASE work' = work
      BY <1>5, <3>1 DEF Stored, Csv, Geojson, At
    <3>2. CASE work' # work
      <4>1. PICK w, x : work' = [work EXCEPT ![r] = [Idle EXCEPT !.step = "built", !.on = w, !.saw = x]]
        BY <1>5, <3>2, FailsBase DEF Csv, Geojson, Move, Errors
      <4>2. work'[r].step = "built"
        BY <4>1 DEF Base, Idle
      <4> QED BY <4>2 DEF Stored
    <3> QED BY <3>1, <3>2
  <2>3. ASSUME NEW s \in Requests, Stored(s)'
        PROVE  /\ work'[s].saw[1] \in DOMAIN shelf'
               /\ \/ shelf'[work'[s].saw[1]] = [ward |-> work'[s].on, version |-> work'[s].saw[2]]
                  \/ \E u \in Requests : Built(u)' /\ SameMinute(s, u)'
    <3>1. s # r /\ Stored(s)
      BY <1>3, <2>2, <2>3 DEF Stored
    <3>2. \A u \in Requests : Built(u) /\ SameMinute(s, u) => Built(u)' /\ SameMinute(s, u)'
      BY <1>3, <2>1, <3>1 DEF SameMinute, Stored
    <3> QED BY <1>3, <2>1, <3>1, <3>2 DEF ShelfOK, Stored
  <2> QED BY <2>1, <2>3 DEF ShelfOK
<1> DEFINE key == work[r].saw[1]
           Alike(s) == /\ Built(s) <=> Built(s)'
                       /\ Built(s) => /\ call'[s].route = call[s].route /\ work'[s].on = work[s].on
                                      /\ work'[s].saw = work[s].saw
<1>6. ASSUME NEW step, step # "start", Built(r),
             work' = [work EXCEPT ![r] = [work[r] EXCEPT !.step = step]]
      PROVE  /\ \A s \in Requests : Alike(s)
             /\ work'[r].step = step
             /\ \A s, u \in Requests : Built(s) /\ Built(u) /\ SameMinute(s, u) => SameMinute(s, u)'
  <2>1. work'[r].step = step /\ work'[r].on = work[r].on /\ work'[r].saw = work[r].saw
    BY <1>6, StepMarks
  <2>2. \A s \in Requests : Alike(s)
    BY <1>2, <1>3, <1>6, <2>1 DEF Built
  <2>3. ASSUME NEW s \in Requests, NEW u \in Requests, Built(s), Built(u), SameMinute(s, u)
        PROVE  SameMinute(s, u)'
    BY <2>2, <2>3 DEF SameMinute
  <2> QED BY <2>1, <2>2, <2>3
<1>7. CASE PutCsv(r) \/ PutGeojson(r)
  <2>1. PICK step \in {"put", "linked"} : work' = [work EXCEPT ![r] = [work[r] EXCEPT !.step = step]]
    BY <1>7 DEF PutCsv, PutGeojson, Move, Done
  <2>2. Put(key, work[r].on, work[r].saw[2]) /\ Built(r)
    BY <1>7 DEF PutCsv, PutGeojson, At, Built
  <2>3. /\ \A s \in Requests : Alike(s)
        /\ \A s, u \in Requests : Built(s) /\ Built(u) /\ SameMinute(s, u) => SameMinute(s, u)'
    BY <1>6, <2>1, <2>2
  <2>4. /\ shelf' = [k \in DOMAIN shelf' |-> shelf'[k]]
        /\ DOMAIN shelf' = DOMAIN shelf \cup {key}
        /\ shelf'[key] = [ward |-> work[r].on, version |-> work[r].saw[2]]
        /\ \A k \in DOMAIN shelf : k # key => shelf'[k] = shelf[k]
    BY <2>2 DEF Put
  <2>5. /\ key[1] \in {"csv", "geojson"}
        /\ key[1] = "geojson" => key[2] = work[r].on
    BY <2>2, KeysNameTheirKind
  <2>6. \A k \in DOMAIN shelf' : k[1] \in {"geojson", "gpkg"} => shelf'[k].ward = k[2]
    BY <2>4, <2>5 DEF ShelfOK
  <2>7. ASSUME NEW s \in Requests, Stored(s)'
        PROVE  /\ work'[s].saw[1] \in DOMAIN shelf'
               /\ \/ shelf'[work'[s].saw[1]] = [ward |-> work'[s].on, version |-> work'[s].saw[2]]
                  \/ \E u \in Requests : Built(u)' /\ SameMinute(s, u)'
    <3>1. CASE s = r
      BY <2>2, <2>3, <2>4, <3>1
    <3>2. CASE s # r
      <4>1. Stored(s) /\ Built(s) /\ work'[s].saw = work[s].saw /\ work'[s].on = work[s].on
        BY <1>3, <2>7, <3>2 DEF Stored
      <4>2. CASE work[s].saw[1] = key
        <5>1. SameMinute(s, r)
          BY <2>2, <3>2, <4>1, <4>2, OneKey
        <5> QED BY <2>2, <2>3, <2>4, <4>1, <4>2, <5>1
      <4>3. CASE work[s].saw[1] # key
        <5>1. work[s].saw[1] \in DOMAIN shelf
          BY <4>1 DEF ShelfOK
        <5>2. shelf'[work[s].saw[1]] = shelf[work[s].saw[1]]
          BY <2>4, <4>3, <5>1
        <5> QED BY <2>3, <2>4, <4>1, <5>1, <5>2 DEF ShelfOK
      <4> QED BY <4>2, <4>3
    <3> QED BY <3>1, <3>2
  <2> QED BY <2>4, <2>6, <2>7 DEF ShelfOK
<1>8. CASE RecordGeojson(r) \/ Inline(r, "built") \/ Inline(r, "put")
  <2>1. PICK step \in {"linked", "inline"} :
          /\ work' = [work EXCEPT ![r] = [work[r] EXCEPT !.step = step]]
          /\ step = "linked" => work[r].step = "put"
    BY <1>8 DEF RecordGeojson, Inline, Done, At
  <2>2. shelf' = shelf /\ Built(r)
    BY <1>8 DEF RecordGeojson, Inline, At, Built, releaseVars, deliveryVars
  <2>3. /\ \A s \in Requests : Alike(s)
        /\ \A s, u \in Requests : Built(s) /\ Built(u) /\ SameMinute(s, u) => SameMinute(s, u)'
        /\ work'[r].step = step
    BY <1>6, <2>1, <2>2
  <2>4. ASSUME NEW s \in Requests, Stored(s)'
        PROVE  /\ work'[s].saw[1] \in DOMAIN shelf'
               /\ \/ shelf'[work'[s].saw[1]] = [ward |-> work'[s].on, version |-> work'[s].saw[2]]
                  \/ \E u \in Requests : Built(u)' /\ SameMinute(s, u)'
    <3>1. Stored(s)
      BY <1>3, <2>1, <2>2, <2>3, <2>4 DEF Stored
    <3> QED BY <2>2, <2>3, <3>1 DEF ShelfOK, Stored
  <2> QED BY <2>2, <2>4 DEF ShelfOK
<1> QED BY <1>4, <1>5, <1>7, <1>8

LEMMA LinksFollow == ShelfOK => LinksServeWhatWasAsked
  BY DEF ShelfOK, LinksServeWhatWasAsked, Stored

-----------------------------------------------------------------------------
(* The rows in harmonized_exports. *)

\* There may be more in storage, but the GeoPackages of these requests stay.
Shelved(requests) ==
  /\ DOMAIN shelf \subseteq DOMAIN shelf'
  /\ \A k \in DOMAIN shelf : k[1] = "gpkg" /\ k[3] \in requests => shelf'[k] = shelf[k]

\* The jobs of these exports are as they were, and a repeat is not forgotten.
Undisturbed(requests) ==
  /\ repeated \subseteq repeated' /\ overlapped \subseteq overlapped'
  /\ \A k \in jobs \cup jobs' :
       k.type = "EXPORT_HARMONIZED" /\ k.owner \in requests => k \in jobs /\ k \in jobs'

LEMMA PackedStays ==
  ASSUME NEW requests, NEW r \in requests, Shelved(requests), NEW v, Packed(r, v), exports'[r].ward = exports[r].ward
  PROVE  Packed(r, v)'
<1>1. shelf'[<<"gpkg", exports[r].ward, r>>] = shelf[<<"gpkg", exports[r].ward, r>>]
  BY DEF Shelved, Packed
<1> QED BY <1>1 DEF Shelved, Packed

\* The row of a request that has not moved.
LEMMA RowStays ==
  ASSUME NEW requests, NEW r \in requests, Shelved(requests), Undisturbed(requests),
         exports'[r] = exports[r],
         call'[r].route = call[r].route, work'[r].step = work[r].step,
         work'[r].on = work[r].on, work'[r].saw = work[r].saw,
         RecordedRow(r) \/ PackedRow(r)
  PROVE  (RecordedRow(r) \/ PackedRow(r))'
<1>1. CASE RecordedRow(r)
  BY <1>1 DEF RecordedRow
<1>2. CASE PackedRow(r)
  <2>1. Exporting(r)'
    BY <1>2 DEF PackedRow, Exporting
  <2>2. ASSUME exports'[r].status = "ready"
        PROVE  /\ work'[r].step = "queued"
               /\ exports'[r].key = <<"gpkg", exports'[r].ward, r>>
               /\ \E v \in 1..LastVersion :
                    /\ Packed(r, v)'
                    /\ \/ exports'[r].count = Rows[v]
                       \/ r \in repeated' /\ Outstanding(r)'
                       \/ r \in overlapped'
    <3>1. PICK v \in 1..LastVersion :
            /\ Packed(r, v)
            /\ \/ exports[r].count = Rows[v]
               \/ r \in repeated /\ Outstanding(r)
               \/ r \in overlapped
      BY <1>2, <2>2 DEF PackedRow
    <3>2. Packed(r, v)'
      BY <3>1, PackedStays
    <3>3. Outstanding(r) => Outstanding(r)'
      BY DEF Outstanding, Undisturbed
    <3>4. \/ exports'[r].count = Rows[v]
          \/ r \in repeated' /\ Outstanding(r)'
          \/ r \in overlapped'
      BY <3>1, <3>3 DEF Undisturbed
    <3>5. work'[r].step = "queued" /\ exports'[r].key = <<"gpkg", exports'[r].ward, r>>
      BY <1>2, <2>2 DEF PackedRow
    <3> QED BY <3>2, <3>4, <3>5
  <2> QED BY <2>1, <2>2 DEF PackedRow
<1> QED BY <1>1, <1>2

\* A job whose request and row are as they were.
LEMMA PackingStays ==
  ASSUME NEW requests, Shelved(requests), Undisturbed(requests), NEW j, j.owner \in requests, PackingOK(j),
         exports'[j.owner] = exports[j.owner],
         call'[j.owner].route = call[j.owner].route, work'[j.owner].step = work[j.owner].step
  PROVE  PackingOK(j)'
<1>1. \A v : Packed(j.owner, v) => Packed(j.owner, v)'
  BY PackedStays
<1>2. \A k \in jobs' : k.type = "EXPORT_HARMONIZED" /\ k.owner = j.owner => k \in jobs
  BY DEF Undisturbed
<1>3. repeated \subseteq repeated' /\ overlapped \subseteq overlapped'
  BY DEF Undisturbed
<1> QED BY <1>1, <1>2, <1>3 DEF PackingOK

LEMMA RowIsTyped ==
  ASSUME DOMAIN shelf \subseteq DOMAIN shelf', NEW x \in Export
  PROVE  x \in Export'
  BY DEF Export

LEMMA ExportsStay ==
  ASSUME JobsOK, ExportsOK, exports' = exports, Shelved(Requests), Undisturbed(Requests),
         \A j \in jobs' : j \in Job,
         \A s \in Requests : Kept(s, {"geojson", "gpkg"})
  PROVE  ExportsOK'
<1>1. ASSUME NEW r \in DOMAIN exports'
      PROVE  r \in Requests /\ exports'[r] \in Export' /\ (RecordedRow(r) \/ PackedRow(r))'
  <2>1. r \in Requests /\ exports[r] \in Export /\ (RecordedRow(r) \/ PackedRow(r))
    BY DEF ExportsOK
  <2>2. /\ call'[r].route = call[r].route /\ work'[r].step = work[r].step
        /\ work'[r].on = work[r].on /\ work'[r].saw = work[r].saw
    BY <2>1 DEF RecordedRow, PackedRow, Exporting, Kept
  <2> QED BY <2>1, <2>2, RowStays, RowIsTyped DEF Shelved
<1>2. \A r \in Requests : Exporting(r)' => r \in DOMAIN exports'
  BY DEF Exporting, Kept, ExportsOK
<1>3. ASSUME NEW j \in jobs', j.type = "EXPORT_HARMONIZED"
      PROVE  PackingOK(j)'
  <2>1. j \in jobs /\ j.owner \in Requests /\ PackingOK(j)
    BY <1>3 DEF Undisturbed, Job, ExportsOK
  <2>2. call'[j.owner].route = call[j.owner].route /\ work'[j.owner].step = work[j.owner].step
    BY <2>1 DEF PackingOK, Kept
  <2> QED BY <2>1, <2>2, PackingStays
<1> QED BY <1>1, <1>2, <1>3 DEF ExportsOK

LEMMA ExportsAct ==
  ASSUME AccessTypeOK, Base, JobsOK, BuildsOK, ShelfOK, ExportsOK, NEW r \in Requests, Handle(r),
         call[r].route \in {"exportCsv", "geojson", "gpkg"}
  PROVE  ExportsOK'
<1>1. Base' /\ Only(r) /\ Footprint(r) /\ Handlers(r)
  BY HandleOnly, HandlePrint
<1>2. call'[r].route = call[r].route
  BY <1>1 DEF Only
<1>3. \A s \in Requests \ {r} : Kept(s, {"geojson", "gpkg"})
  BY <1>1, OthersKept
<1>4. \A j \in jobs : j.type = "EXPORT_HARMONIZED" => j.owner \in Requests /\ PackingOK(j)
  BY DEF JobsOK, Job, ExportsOK
<1>5. \A j \in jobs' : j.type = "EXPORT_HARMONIZED" => j \in jobs \/ QueueGpkg(r)
  BY <1>1 DEF Footprint
<1>6. Shelved(Requests)
  <2>1. CASE shelf' = shelf
    BY <2>1 DEF Shelved
  <2>2. CASE shelf' # shelf
    <3>1. Put(work[r].saw[1], work[r].on, work[r].saw[2]) /\ Built(r)
      BY <1>1, <2>2 DEF Footprint, Handlers, Csv, PutCsv, Geojson, PutGeojson, RecordGeojson,
         Inline,
                        releaseVars, At, Built
    <3>2. work[r].saw[1][1] # "gpkg"
      BY <3>1, KeysNameTheirKind
    <3> QED BY <3>1, <3>2 DEF Put, Shelved
  <2> QED BY <2>1, <2>2
<1>20. Shelved(Requests \ {r}) /\ Undisturbed(Requests \ {r})
  BY <1>1, <1>6 DEF Shelved, Undisturbed, Footprint
<1>21. ~At(r, "gpkg", "inserted") => Undisturbed(Requests)
  BY <1>1 DEF Undisturbed, Footprint, QueueGpkg
\* A row of another request.
<1>7. ASSUME NEW s \in DOMAIN exports, s # r, exports'[s] = exports[s]
      PROVE  s \in Requests /\ exports'[s] \in Export' /\ (RecordedRow(s) \/ PackedRow(s))'
  <2>1. s \in Requests /\ exports[s] \in Export /\ (RecordedRow(s) \/ PackedRow(s))
    BY DEF ExportsOK
  <2>2. /\ call'[s].route = call[s].route /\ work'[s].step = work[s].step
        /\ work'[s].on = work[s].on /\ work'[s].saw = work[s].saw
    BY <1>3, <1>7, <2>1 DEF RecordedRow, PackedRow, Exporting, Kept
  <2> QED BY <1>7, <1>20, <2>1, <2>2, RowStays, RowIsTyped DEF Shelved
\* A job of another request.
<1>8. ASSUME NEW j \in jobs, j.type = "EXPORT_HARMONIZED", j.owner # r,
             exports'[j.owner] = exports[j.owner]
      PROVE  PackingOK(j)'
  <2>1. j.owner \in Requests /\ PackingOK(j)
    BY <1>4, <1>8
  <2>2. call'[j.owner].route = call[j.owner].route /\ work'[j.owner].step = work[j.owner].step
    BY <1>3, <1>8, <2>1 DEF PackingOK, Kept
  <2> QED BY <1>8, <1>20, <2>1, <2>2, PackingStays
<1>9. \A s \in Requests \ {r} : Exporting(s)' => s \in DOMAIN exports
  BY <1>3 DEF Exporting, Kept, ExportsOK
\* No other job, and no row of another request, is touched.
<1>10. ASSUME ~At(r, "gpkg", "inserted"), r \notin DOMAIN exports,
              exports' = [s \in DOMAIN exports' |-> exports'[s]],
              \A s \in DOMAIN exports : s \in DOMAIN exports' /\ exports'[s] = exports[s],
              \A s \in DOMAIN exports' : s \in DOMAIN exports \/ s = r,
              r \in DOMAIN exports' => exports'[r] \in Export' /\ (RecordedRow(r) \/ PackedRow(r))',
              Exporting(r)' => r \in DOMAIN exports'
       PROVE  ExportsOK'
  <2>1. \A s \in DOMAIN exports' : s \in Requests /\ exports'[s] \in Export' /\ (RecordedRow(s) \/ PackedRow(s))'
    BY <1>7, <1>10
  <2>2. \A s \in Requests : Exporting(s)' => s \in DOMAIN exports'
    BY <1>9, <1>10
  <2>3. ASSUME NEW j \in jobs', j.type = "EXPORT_HARMONIZED"
        PROVE  PackingOK(j)'
    <3>1. j \in jobs
      BY <1>5, <1>10, <2>3 DEF QueueGpkg
    <3>2. j.owner \in DOMAIN exports
      BY <1>4, <2>3, <3>1 DEF PackingOK, Exporting, ExportsOK
    <3> QED BY <1>8, <1>10, <2>3, <3>1, <3>2
  <2> QED BY <1>10, <2>1, <2>2, <2>3 DEF ExportsOK
\* A request without a row, or that has just begun, is not yet among them.
<1>11. call[r].route = "geojson" /\ work[r].step # "linked" => r \notin DOMAIN exports
  BY DEF ExportsOK, RecordedRow, PackedRow, Exporting
<1>12. work[r].step = "start" => r \notin DOMAIN exports
  BY DEF ExportsOK, RecordedRow, PackedRow, Exporting
<1>13. exports = [s \in DOMAIN exports |-> exports[s]]
  BY DEF ExportsOK
<1>14. CASE call[r].route = "exportCsv"
  <2>1. \A s \in Requests : Kept(s, {"geojson", "gpkg"})
    BY <1>1, <1>14, ElsewhereKept
  <2>2. exports' = exports
    BY <1>1, <1>14 DEF Footprint
  <2>3. Undisturbed(Requests)
    BY <1>14, <1>21 DEF At
  <2>4. JobsOK'
    BY JobsAct
  <2> QED BY <1>6, <2>1, <2>2, <2>3, <2>4, ExportsStay DEF JobsOK
<1>15. CASE Geojson(r) \/ PutGeojson(r) \/ Inline(r, "built") \/ Inline(r, "put")
  <2>1. exports' = exports /\ call[r].route = "geojson" /\ work[r].step # "linked"
    BY <1>15 DEF Geojson, PutGeojson, Inline, releaseVars, deliveryVars, At
  <2>2. ~Exporting(r)' /\ ~At(r, "gpkg", "inserted")
    BY <1>2, <2>1 DEF Exporting, At
  <2> QED BY <1>10, <1>11, <1>13, <2>1, <2>2
<1>16. CASE RecordGeojson(r)
  <2> DEFINE row == [ward |-> work[r].on, status |-> "ready", key |-> work[r].saw[1],
                     count |-> Rows[work[r].saw[2]]]
  <2>1. /\ exports' = [s \in DOMAIN exports \cup {r} |-> IF s = r THEN row ELSE exports[s]]
        /\ call[r].route = "geojson" /\ work[r].step = "put" /\ shelf' = shelf
        /\ work' = [work EXCEPT ![r] = [work[r] EXCEPT !.step = "linked"]]
    BY <1>16 DEF RecordGeojson, NewExport, Done, At
  <2>2. /\ work'[r].step = "linked" /\ work'[r].on = work[r].on /\ work'[r].saw = work[r].saw
    BY <2>1, StepMarks
  <2>3. r \notin DOMAIN exports /\ ~Exporting(r)' /\ ~At(r, "gpkg", "inserted")
    BY <1>2, <1>11, <2>1 DEF Exporting, At
  <2>4. exports'[r] = row /\ RecordedRow(r)'
    BY <1>2, <2>1, <2>2 DEF RecordedRow
  <2>5. row \in Export'
    <3>1. PICK m \in Nat, v \in 1..LastVersion : work[r].saw = <<<<"geojson", work[r].on, m>>, v>>
      BY <2>1 DEF BuildsOK, GeojsonBuilt
    <3>2. work[r].on \in Wards
      BY <2>1 DEF BuildsOK, GeojsonBuilt
    <3>3. Rows[work[r].saw[2]] \in Nat
      BY <3>1, LastVersionIsNat
    <3>4. work[r].saw[1] \in DOMAIN shelf
      BY <2>1 DEF ShelfOK, Stored, Built
    <3> QED BY <2>1, <3>2, <3>3, <3>4 DEF Export
  <2> HIDE DEF row
  <2> QED BY <1>10, <2>1, <2>3, <2>4, <2>5
<1>17. CASE Gpkg(r) /\ Fails(r, "badRequest")
  <2>1. \A s \in Requests : Kept(s, {"geojson", "gpkg"})
    BY <1>17, RefusalKept DEF Gpkg, At, Errors
  <2>2. exports' = exports /\ jobs' = jobs
    BY <1>17, FailsBase DEF Gpkg, At, Move, accessVars, Errors
  <2>3. Undisturbed(Requests)
    BY <1>17, <1>21 DEF Gpkg, At, Fails, Throw
  <2> QED BY <1>6, <2>1, <2>2, <2>3, ExportsStay DEF JobsOK
<1>18. CASE Gpkg(r) /\ ~Fails(r, "badRequest")
  <2>1. PICK w \in Wards :
          /\ exports' = [s \in DOMAIN exports \cup {r} |->
                          IF s = r THEN [ward |-> w, status |-> "processing", key |-> <<>>, count |-> 0]
                          ELSE exports[s]]
          /\ work' = [work EXCEPT ![r] = [Idle EXCEPT !.step = "inserted", !.on = w]]
          /\ At(r, "gpkg", "start")
    BY <1>18 DEF Gpkg, NewExport, Move
  <2>2. work'[r].step = "inserted"
    BY <2>1 DEF Base, Idle
  <2>3. r \notin DOMAIN exports /\ ~At(r, "gpkg", "inserted") /\ Exporting(r)'
    BY <1>2, <1>12, <2>1, <2>2 DEF Exporting, At
  <2>4. exports'[r] = [ward |-> w, status |-> "processing", key |-> <<>>, count |-> 0]
    BY <2>1
  <2>5. exports'[r] \in Export' /\ PackedRow(r)'
    BY <2>3, <2>4 DEF Export, PackedRow
  <2> QED BY <1>10, <2>1, <2>3, <2>5
<1>19. CASE QueueGpkg(r)
  <2> DEFINE n == [type |-> "EXPORT_HARMONIZED", owner |-> r, copy |-> 0, at |-> "queued", saw |-> 0]
  <2>1. /\ exports' = exports /\ jobs' = jobs \cup {n} /\ At(r, "gpkg", "inserted")
        /\ work' = [work EXCEPT ![r] = [work[r] EXCEPT !.step = "queued"]]
    BY <1>19 DEF QueueGpkg, Push, releaseVars, deliveryVars, Done
  <2>2. work'[r].step = "queued" /\ work[r].step = "inserted" /\ call[r].route = "gpkg"
    BY <2>1, StepMarks DEF At
  <2>3. r \in DOMAIN exports /\ exports[r].status # "ready" /\ exports[r] \in Export
    BY <2>2 DEF ExportsOK, Exporting, RecordedRow, PackedRow
  <2>4. Exporting(r)' /\ PackedRow(r)'
    BY <1>2, <2>1, <2>2, <2>3 DEF Exporting, PackedRow
  <2>5. ASSUME NEW s \in DOMAIN exports'
        PROVE  s \in Requests /\ exports'[s] \in Export' /\ (RecordedRow(s) \/ PackedRow(s))'
    BY <1>6, <1>7, <2>1, <2>3, <2>4, RowIsTyped DEF Shelved
  <2>6. \A s \in Requests : Exporting(s)' => s \in DOMAIN exports'
    BY <1>9, <2>1, <2>3
  <2>7. \A j \in jobs : j.type = "EXPORT_HARMONIZED" => j.owner # r
    BY <1>4, <2>2 DEF PackingOK
  <2>8. PackingOK(n)' /\ n.owner = r
    <3>1. n.owner = r /\ n.at = "queued"
      OBVIOUS
    <3>2. \A k \in jobs' : k.type = "EXPORT_HARMONIZED" /\ k.owner = r => k = n
      BY <2>1, <2>7
    <3> HIDE DEF n
    <3> QED BY <1>2, <2>1, <2>2, <2>3, <3>1, <3>2 DEF PackingOK
  <2> HIDE DEF n
  <2>9. \A j \in jobs' : j.type = "EXPORT_HARMONIZED" => PackingOK(j)'
    BY <1>8, <2>1, <2>7, <2>8
  <2> QED BY <1>13, <2>1, <2>5, <2>6, <2>9 DEF ExportsOK
<1> QED BY <1>1, <1>14, <1>15, <1>16, <1>17, <1>18, <1>19 DEF Handlers

-----------------------------------------------------------------------------
(* The worker and EXPORT_HARMONIZED. *)

LEMMA PackingWorks ==
  ASSUME JobsOK, BuildsOK, ExportsOK, NEW j \in jobs, ExportJob(j)
  PROVE  ExportsOK' /\ JobsOK'
<1>1. /\ j.type = "EXPORT_HARMONIZED" /\ UNCHANGED <<work, call, tiles, records, minute>>
      /\ j \in Job /\ \A k \in jobs : k \in Job
  BY DEF ExportJob, JobsOK, accessVars, fieldVars
<1> DEFINE e == j.owner
<1>2. /\ e \in Requests /\ PackingOK(j) /\ Exporting(e) /\ e \in DOMAIN exports
      /\ e \notin overlapped => \A k \in jobs \ {j} : k.type = "EXPORT_HARMONIZED" => k.owner # e
  BY <1>1 DEF Job, ExportsOK, PackingOK, Exporting
<1>3. exports[e] \in Export /\ PackedRow(e) /\ ~RecordedRow(e)
  BY <1>2 DEF ExportsOK, Exporting, RecordedRow
<1>4. \A s : (Exporting(s)' <=> Exporting(s))
  BY <1>1 DEF Exporting
\* What remains when the job has become n.
<1>5. ASSUME Shelved(Requests \ {e}), faults' \in 0..MaxFaults, NEW n \in Job, n.type = j.type, n.owner = e,
             jobs' = (jobs \ {j}) \cup {n},
             exports' = [s \in DOMAIN exports |-> exports'[s]],
             \A s \in DOMAIN exports \ {e} : exports'[s] = exports[s],
             exports'[e] \in Export', PackedRow(e)', PackingOK(n)',
             (\E v \in 1..LastVersion : Packed(e, v)) => \E v \in 1..LastVersion : Packed(e, v)'
      PROVE  ExportsOK' /\ JobsOK'
  <2>7. UNCHANGED <<repeats, repeated, overlapped>>
    BY DEF ExportJob, deliveryVars
  <2>8. Undisturbed(Requests \ {e})
    BY <1>5, <2>7 DEF Undisturbed
  <2>1. DOMAIN exports' = DOMAIN exports
    BY <1>5
  <2>2. ASSUME NEW s \in DOMAIN exports'
        PROVE  s \in Requests /\ exports'[s] \in Export' /\ (RecordedRow(s) \/ PackedRow(s))'
    <3>1. CASE s = e
      BY <1>2, <1>5, <3>1
    <3>2. CASE s # e
      <4>1. s \in Requests /\ exports[s] \in Export /\ (RecordedRow(s) \/ PackedRow(s))
        BY <2>1 DEF ExportsOK
      <4> QED BY <1>1, <1>5, <2>1, <2>8, <3>2, <4>1, RowStays, RowIsTyped DEF Shelved
    <3> QED BY <3>1, <3>2
  <2>3. \A s \in Requests : Exporting(s)' => s \in DOMAIN exports'
    BY <1>4, <2>1 DEF ExportsOK
  <2>4. ASSUME NEW k \in jobs', k.type = "EXPORT_HARMONIZED"
        PROVE  PackingOK(k)'
    <3>1. CASE k = n
      BY <1>5, <3>1
    <3>2. CASE k # n /\ k.owner # e
      <4>1. k \in jobs /\ k.owner # e /\ PackingOK(k) /\ k.owner \in Requests
        BY <1>1, <1>5, <2>4, <3>2 DEF ExportsOK, Job
      <4>2. k.owner \in DOMAIN exports
        BY <4>1 DEF PackingOK, Exporting, ExportsOK
      <4>3. exports'[k.owner] = exports[k.owner]
        BY <1>5, <4>1, <4>2
      <4> QED BY <1>1, <1>5, <2>8, <4>1, <4>3, PackingStays
    \* A delivery beside j.
    <3>3. CASE k # n /\ k.owner = e
      <4>1. k \in jobs /\ k # j /\ PackingOK(k)
        BY <1>5, <2>4, <3>3 DEF ExportsOK
      <4>2. e \in overlapped' /\ e \in repeated'
        BY <1>2, <2>4, <2>7, <3>3, <4>1 DEF JobsOK
      <4> QED BY <1>1, <1>5, <3>3, <4>1, <4>2 DEF PackingOK
    <3> QED BY <3>1, <3>2, <3>3
  <2>6. JobsOK'
    BY <1>1, <1>5, <2>7 DEF JobsOK
  <2> QED BY <1>5, <2>1, <2>2, <2>3, <2>4, <2>6 DEF ExportsOK
<1>6. faults \in 0..MaxFaults /\ exports = [s \in DOMAIN exports |-> exports[s]]
  BY DEF JobsOK, ExportsOK
<1>7. ASSUME j.at # "finished"
      PROVE  e \in repeated \/ exports[e].status # "ready"
  BY <1>2, <1>7 DEF PackingOK
\* The row of a delivery that goes on, if it is a repeat's.
<1>12. ASSUME NEW n \in Job, n.type = j.type, n.owner = e, n.at # "finished", j.at # "finished",
              jobs' = (jobs \ {j}) \cup {n}, exports' = exports,
              (\E v \in 1..LastVersion : Packed(e, v)) => \E v \in 1..LastVersion : Packed(e, v)'
       PROVE  PackedRow(e)'
  <2>1. Outstanding(e)' /\ repeated' = repeated
    BY <1>1, <1>12 DEF Outstanding, ExportJob, deliveryVars
  <2> QED BY <1>1, <1>3, <1>4, <1>7, <1>12, <2>1 DEF PackedRow
<1>13. ASSUME NEW n \in Job, n.type = j.type, n.owner = e, jobs' = (jobs \ {j}) \cup {n}
       PROVE  /\ repeated' = repeated /\ overlapped' = overlapped
              /\ e \notin overlapped' => \A k \in jobs' : k.type = "EXPORT_HARMONIZED" /\ k.owner = e => k = n
  BY <1>2, <1>13 DEF ExportJob, deliveryVars
<1>8. CASE ReadRecords(j)
  <2>1. /\ shelf' = shelf /\ exports' = exports /\ faults' = faults /\ j.at = "queued"
        /\ Advance(j, "read", records[exports[e].ward])
    BY <1>8 DEF ReadRecords
  <2>2. records[exports[e].ward] \in 1..LastVersion /\ records[exports[e].ward] \in Nat
    BY <1>3, LastVersionIsNat DEF Export, BuildsOK
  <2>3. PICK n \in Job : /\ n.type = j.type /\ n.owner = e /\ n.at = "read"
                         /\ n.saw = records[exports[e].ward]
                         /\ jobs' = (jobs \ {j}) \cup {n}
    BY <2>1, <2>2, AdvanceMoves
  <2>4. Shelved(Requests \ {e})
    BY <2>1 DEF Shelved
  <2>5. \A v : Packed(e, v)' <=> Packed(e, v)
    BY <2>1 DEF Packed
  <2>6. PackedRow(e)' /\ exports'[e] \in Export'
    BY <1>3, <1>12, <2>1, <2>3, <2>5 DEF Export
  <2>7. PackingOK(n)'
    BY <1>1, <1>2, <1>7, <1>13, <2>1, <2>2, <2>3 DEF PackingOK
  <2> QED BY <1>5, <1>6, <2>1, <2>3, <2>4, <2>5, <2>6, <2>7
<1>9. CASE UploadGpkg(j)
  <2> DEFINE key == <<"gpkg", exports[e].ward, e>>
  <2>1. /\ Put(key, exports[e].ward, j.saw) /\ exports' = exports /\ faults' = faults /\ j.at = "read"
        /\ Advance(j, "uploaded", j.saw) /\ j.saw \in 1..LastVersion /\ j.saw \in Nat
    BY <1>2, <1>9, LastVersionIsNat DEF UploadGpkg, GpkgKey, PackingOK
  <2>2. PICK n \in Job : /\ n.type = j.type /\ n.owner = e /\ n.at = "uploaded" /\ n.saw = j.saw
                         /\ jobs' = (jobs \ {j}) \cup {n}
    BY <2>1, AdvanceMoves
  <2>3. DOMAIN shelf \subseteq DOMAIN shelf' /\ Packed(e, j.saw)'
    BY <2>1 DEF Put, Packed
  <2>4. PackedRow(e)' /\ exports'[e] \in Export'
    BY <1>3, <1>12, <2>1, <2>2, <2>3, RowIsTyped
  <2>5. Shelved(Requests \ {e})
    BY <2>1 DEF Put, Shelved
  <2>6. PackingOK(n)'
    BY <1>1, <1>2, <1>7, <1>13, <2>1, <2>2, <2>3 DEF PackingOK
  <2> QED BY <1>5, <1>6, <2>1, <2>2, <2>3, <2>4, <2>5, <2>6
<1>10. CASE MarkReady(j)
  <2> DEFINE key == <<"gpkg", exports[e].ward, e>>
  <2>1. /\ exports' = [exports EXCEPT ![e].status = "ready", ![e].key = key, ![e].count = Rows[j.saw]]
        /\ shelf' = shelf /\ faults' = faults /\ j.at = "uploaded"
        /\ Advance(j, "finished", j.saw) /\ j.saw \in 1..LastVersion /\ j.saw \in Nat
    BY <1>2, <1>10, LastVersionIsNat DEF MarkReady, GpkgKey, PackingOK
  <2>9. PICK u \in 1..LastVersion : Packed(e, u) /\ (e \notin overlapped => u = j.saw)
    BY <1>2, <2>1 DEF PackingOK
  <2>2. PICK n \in Job : /\ n.type = j.type /\ n.owner = e /\ n.at = "finished" /\ n.saw = j.saw
                         /\ jobs' = (jobs \ {j}) \cup {n}
    BY <2>1, AdvanceMoves
  <2>3. /\ exports'[e] = [ward |-> exports[e].ward, status |-> "ready", key |-> key, count |-> Rows[j.saw]]
        /\ exports' = [s \in DOMAIN exports |-> exports'[s]]
        /\ \A s \in DOMAIN exports \ {e} : exports'[s] = exports[s]
    <3>1. PICK w, st, k, c : /\ w \in Wards
                           /\ exports[e] = [ward |-> w, status |-> st, key |-> k, count |-> c]
      BY <1>3 DEF Export
    <3>2. PICK newKey : newKey = key
      OBVIOUS
    <3>3. PICK count : count = Rows[j.saw]
      OBVIOUS
    <3> HIDE DEF key
    <3>4. exports'[e] = [[[exports[e] EXCEPT !.status = "ready"] EXCEPT !.key = newKey] EXCEPT !.count = count]
      BY <1>2, <1>6, <2>1, <3>2, <3>3
    <3>5. [exports[e] EXCEPT !.status = "ready"] = [ward |-> w, status |-> "ready", key |-> k, count |-> c]
      <4>1. PICK x : x = exports[e]
        OBVIOUS
      <4>2. x = [ward |-> w, status |-> st, key |-> k, count |-> c]
        BY <3>1, <4>1
      <4>3. [x EXCEPT !.status = "ready"] = [ward |-> w, status |-> "ready", key |-> k, count |-> c]
        BY <4>2
      <4> QED BY <4>1, <4>3
    <3>6. [[ward |-> w, status |-> "ready", key |-> k, count |-> c] EXCEPT !.key = newKey]
            = [ward |-> w, status |-> "ready", key |-> newKey, count |-> c]
      OBVIOUS
    <3>7. [[ward |-> w, status |-> "ready", key |-> newKey, count |-> c] EXCEPT !.count = count]
            = [ward |-> w, status |-> "ready", key |-> newKey, count |-> count]
      OBVIOUS
    <3>8. exports'[e] = [ward |-> w, status |-> "ready", key |-> newKey, count |-> count]
      BY <3>4, <3>5, <3>6, <3>7, Zenon
    <3>9. exports[e].ward = w
      BY <3>1
    <3>10. exports'[e] = [ward |-> exports[e].ward, status |-> "ready", key |-> key, count |-> Rows[j.saw]]
      BY <3>2, <3>3, <3>8, <3>9
    <3>11. /\ exports' = [s \in DOMAIN exports |-> exports'[s]]
           /\ \A s \in DOMAIN exports \ {e} : exports'[s] = exports[s]
      BY <1>6, <2>1
    <3> QED BY <3>10, <3>11
  <2>4. exports'[e] \in Export'
    <3>1. key \in DOMAIN shelf /\ exports[e].ward \in Wards
      BY <1>3, <2>9 DEF Packed, Export
    <3>2. Rows[j.saw] \in Nat
      BY <2>1, LastVersionIsNat
    <3> HIDE DEF key
    <3>3. PICK w \in Wards, k \in DOMAIN shelf, c \in Nat :
            exports'[e] = [ward |-> w, status |-> "ready", key |-> k, count |-> c]
      BY <2>3, <3>1, <3>2
    <3>4. exports'[e] \in Export
      BY <3>3 DEF Export
    <3> QED BY <2>1, <3>4, RowIsTyped
  <2>5. (\A v : Packed(e, v) => Packed(e, v)') /\ work'[e].step = "queued"
    <3>1. exports'[e].ward = exports[e].ward
      BY <2>3
    <3>2. Shelved(Requests)
      BY <2>1 DEF Shelved
    <3>3. ASSUME NEW v, Packed(e, v) PROVE Packed(e, v)'
      BY <1>2, <3>1, <3>2, <3>3, PackedStays
    <3> QED BY <1>1, <1>2, <3>3 DEF PackingOK
  <2>6. PackedRow(e)'
    <3>1. exports'[e].count = Rows[u] \/ e \in overlapped'
      BY <1>13, <2>2, <2>3, <2>9
    <3>2. exports'[e].key = <<"gpkg", exports'[e].ward, e>>
      BY <2>3
    <3> QED BY <1>2, <1>4, <2>5, <2>9, <3>1, <3>2 DEF PackedRow
  <2>7. PackingOK(n)'
    BY <1>1, <1>2, <1>13, <2>2 DEF PackingOK
  <2>8. Shelved(Requests \ {e})
    BY <2>1 DEF Shelved
  <2> QED BY <1>5, <1>6, <2>1, <2>2, <2>3, <2>4, <2>5, <2>6, <2>7, <2>8
<1>11. CASE ExportFails(j)
  <2>1. /\ exports' = [exports EXCEPT ![e].status = "failed"]
        /\ shelf' = shelf /\ faults < MaxFaults /\ faults' = faults + 1
        /\ Advance(j, "queued", 0)
    BY <1>11 DEF ExportFails
  <2>2. PICK n \in Job : /\ n.type = j.type /\ n.owner = e /\ n.at = "queued" /\ n.saw = 0
                         /\ jobs' = (jobs \ {j}) \cup {n}
    BY <2>1, AdvanceMoves
  <2>3. /\ exports'[e] = [exports[e] EXCEPT !.status = "failed"]
        /\ exports' = [s \in DOMAIN exports |-> exports'[s]]
        /\ \A s \in DOMAIN exports \ {e} : exports'[s] = exports[s]
    BY <1>2, <1>6, <2>1
  <2>4. exports'[e] \in Export' /\ exports'[e].status = "failed"
    <3>1. PICK w, st, k, c : /\ exports[e] = [ward |-> w, status |-> st, key |-> k, count |-> c]
                             /\ w \in Wards /\ k \in {<<>>} \cup DOMAIN shelf /\ c \in Nat
      BY <1>3 DEF Export
    <3>2. exports'[e] = [ward |-> w, status |-> "failed", key |-> k, count |-> c]
      BY <2>3, <3>1
    <3>3. exports'[e] \in Export
      BY <3>1, <3>2 DEF Export
    <3>4. exports'[e].status = "failed"
      BY <3>2
    <3> QED BY <2>1, <3>3, <3>4, RowIsTyped
  <2>5. PackedRow(e)' /\ PackingOK(n)'
    BY <1>1, <1>2, <1>4, <1>13, <2>2, <2>4 DEF PackedRow, PackingOK
  <2>6. Shelved(Requests \ {e}) /\ faults' \in 0..MaxFaults
    BY <1>6, <2>1 DEF Shelved
  <2>7. \A v : Packed(e, v) => Packed(e, v)'
    <3>1. exports'[e].ward = exports[e].ward
      <4>1. PICK w, st, k, c : exports[e] = [ward |-> w, status |-> st, key |-> k, count |-> c]
        BY <1>3 DEF Export
      <4> QED BY <2>3, <4>1
    <3>2. shelf' = shelf
      BY <2>1
    <3> QED BY <3>1, <3>2 DEF Packed
  <2> QED BY <1>5, <2>2, <2>3, <2>4, <2>5, <2>6, <2>7
<1> QED BY <1>8, <1>9, <1>10, <1>11 DEF ExportJob

\* A repeat of an export, whose row may now be behind its file.
LEMMA RepeatKeepsExports ==
  ASSUME JobsOK, JobsOK', ExportsOK, NEW j \in jobs, Redeliver(j)
  PROVE  ExportsOK'
<1>1. /\ UNCHANGED <<work, call, shelf, exports>> /\ repeated' = repeated \cup {j.owner}
      /\ j.owner \in Requests
  BY DEF Redeliver, accessVars, JobsOK, Job
<1>2. PICK n \in Job :
        /\ n.type = j.type /\ n.owner = j.owner /\ n.at = "queued"
        /\ \/ jobs' = (jobs \ {j}) \cup {n} /\ overlapped' = overlapped
           \/ jobs' = jobs \cup {n} /\ overlapped' = overlapped \cup {j.owner}
  BY RepeatMoves
<1>3. Shelved(Requests) /\ \A s \in Requests : Kept(s, {"geojson", "gpkg"})
  BY <1>1 DEF Shelved, Kept
<1>4. CASE j.type # "EXPORT_HARMONIZED"
  <2>1. Undisturbed(Requests)
    BY <1>1, <1>2, <1>4 DEF Undisturbed
  <2> QED BY <1>1, <1>3, <2>1, ExportsStay DEF JobsOK
<1>5. CASE j.type = "EXPORT_HARMONIZED"
  <2> DEFINE e == j.owner
  <2>1. Undisturbed(Requests \ {e}) /\ Shelved(Requests \ {e})
    BY <1>1, <1>2 DEF Undisturbed, Shelved
  <2>2. PackingOK(j) /\ e \in repeated' /\ Outstanding(e)'
    BY <1>1, <1>2, <1>5 DEF ExportsOK, Outstanding
  <2>3. \A v, s : Packed(s, v)' <=> Packed(s, v)
    BY <1>1 DEF Packed
  <2>4. \A s : Exporting(s)' <=> Exporting(s)
    BY <1>1 DEF Exporting
  <2>5. \A x \in Export : x \in Export'
    BY <1>1 DEF Export
  <2>6. ASSUME NEW s \in DOMAIN exports
        PROVE  s \in Requests /\ exports'[s] \in Export' /\ (RecordedRow(s) \/ PackedRow(s))'
    <3>1. s \in Requests /\ exports[s] \in Export /\ (RecordedRow(s) \/ PackedRow(s))
      BY DEF ExportsOK
    <3>2. CASE s # e
      BY <1>1, <2>1, <2>5, <3>1, <3>2, RowStays
    <3>3. CASE s = e
      <4>1. PackedRow(e)
        BY <2>2, <3>1, <3>3 DEF PackingOK, RecordedRow
      <4>2. PackedRow(e)'
        BY <1>1, <2>2, <2>3, <2>4, <4>1 DEF PackedRow
      <4> QED BY <1>1, <2>5, <3>1, <3>3, <4>2
    <3> QED BY <3>2, <3>3
  <2>7. ASSUME NEW k \in jobs', k.type = "EXPORT_HARMONIZED"
        PROVE  PackingOK(k)'
    <3>1. CASE k.owner # e
      <4>1. k \in jobs /\ k.owner \in Requests /\ PackingOK(k)
        BY <1>2, <2>7, <3>1 DEF ExportsOK, JobsOK, Job
      <4> QED BY <1>1, <2>1, <3>1, <4>1, PackingStays
    <3>2. CASE k.owner = e
      <4>1. \A l \in jobs' : l \in jobs \/ l = n
        BY <1>2
      <4>2. e \notin overlapped' => jobs' = (jobs \ {j}) \cup {n} /\ e \notin overlapped
        BY <1>2
      <4>3. e \notin overlapped' => \A l \in jobs' : l.type = "EXPORT_HARMONIZED" /\ l.owner = e => l = n
        BY <2>2, <4>2 DEF PackingOK
      <4>4. k \in jobs => PackingOK(k)
        BY <2>7 DEF ExportsOK
      <4> QED BY <1>1, <1>2, <2>2, <2>3, <2>7, <3>2, <4>1, <4>3, <4>4 DEF PackingOK
    <3> QED BY <3>1, <3>2
  <2>8. \A s \in Requests : Exporting(s)' => s \in DOMAIN exports'
    BY <1>1, <2>4 DEF ExportsOK
  <2> QED BY <1>1, <2>6, <2>7, <2>8 DEF ExportsOK
<1> QED BY <1>4, <1>5

LEMMA PackingKeepsShelf ==
  ASSUME JobsOK, BuildsOK, ShelfOK, NEW j \in jobs, ExportJob(j)
  PROVE  ShelfOK'
<1>1. UNCHANGED <<work, call>>
  BY DEF ExportJob, accessVars
<1>2. CASE shelf' = shelf
  BY <1>1, <1>2, ShelfStays DEF Kept
<1>3. CASE shelf' # shelf
  <2> DEFINE key == <<"gpkg", exports[j.owner].ward, j.owner>>
  <2>1. Put(key, exports[j.owner].ward, j.saw)
    BY <1>3 DEF ExportJob, ReadRecords, UploadGpkg, MarkReady, ExportFails, GpkgKey
  <2>2. /\ shelf' = [k \in DOMAIN shelf' |-> shelf'[k]]
        /\ DOMAIN shelf' = DOMAIN shelf \cup {key}
        /\ shelf'[key].ward = key[2]
        /\ \A k \in DOMAIN shelf : k # key => shelf'[k] = shelf[k]
    BY <2>1 DEF Put
  <2>3. \A k \in DOMAIN shelf' : k[1] \in {"geojson", "gpkg"} => shelf'[k].ward = k[2]
    BY <2>2 DEF ShelfOK
  <2>4. ASSUME NEW s \in Requests, Stored(s)
        PROVE  work[s].saw[1] \in DOMAIN shelf /\ shelf'[work[s].saw[1]] = shelf[work[s].saw[1]]
    <3>1. work[s].saw[1][1] # "gpkg"
      BY <2>4, KeysNameTheirKind DEF Stored
    <3>2. work[s].saw[1] # key
      BY <3>1
    <3>3. work[s].saw[1] \in DOMAIN shelf
      BY <2>4 DEF ShelfOK
    <3> HIDE DEF key
    <3> QED BY <2>2, <3>2, <3>3
  <2> QED BY <1>1, <2>2, <2>3, <2>4 DEF ShelfOK, Stored, Built, SameMinute
<1> QED BY <1>2, <1>3

LEMMA RowsFollow == BuildsOK /\ ShelfOK /\ ExportsOK => ReadyRowsAreTrue
<1> SUFFICES ASSUME BuildsOK, ShelfOK, ExportsOK, NEW r \in DOMAIN exports, Downloadable(r)
             PROVE  LET x == exports[r] IN
                    /\ x.key \in DOMAIN shelf
                    /\ shelf[x.key].ward = x.ward
                    /\ \/ Rows[shelf[x.key].version] = x.count
                       \/ r \in repeated /\ Outstanding(r)
                       \/ r \in overlapped
                       \/ \E s \in Requests : Built(r) /\ Built(s) /\ SameMinute(r, s)
  BY DEF ReadyRowsAreTrue
<1>1. r \in Requests /\ exports[r].status = "ready" /\ (RecordedRow(r) \/ PackedRow(r))
  BY DEF ExportsOK, Downloadable
<1>2. CASE RecordedRow(r)
  <2>1. Stored(r) /\ Built(r) /\ call[r].route = "geojson"
    BY <1>2 DEF RecordedRow, Stored, Built
  <2>2. /\ exports[r].key = work[r].saw[1] /\ exports[r].ward = work[r].on
        /\ exports[r].count = Rows[work[r].saw[2]]
    BY <1>2 DEF RecordedRow
  <2>3. work[r].saw[1][1] = "geojson" /\ work[r].saw[1][2] = work[r].on
    BY <1>1, <2>1 DEF BuildsOK, GeojsonBuilt, Built
  <2>4. /\ exports[r].key \in DOMAIN shelf
        /\ \/ shelf[exports[r].key] = [ward |-> work[r].on, version |-> work[r].saw[2]]
           \/ \E s \in Requests : Built(s) /\ SameMinute(r, s)
    BY <1>1, <2>1, <2>2 DEF ShelfOK
  <2>5. shelf[exports[r].key].ward = exports[r].ward
    <3>1. \A k \in DOMAIN shelf : k[1] \in {"geojson", "gpkg"} => shelf[k].ward = k[2]
      BY DEF ShelfOK
    <3> QED BY <2>2, <2>3, <2>4, <3>1
  <2> QED BY <2>1, <2>2, <2>4, <2>5
<1>3. CASE PackedRow(r)
  <2>1. PICK v \in 1..LastVersion :
          /\ Packed(r, v)
          /\ \/ exports[r].count = Rows[v]
             \/ r \in repeated /\ Outstanding(r)
             \/ r \in overlapped
    BY <1>1, <1>3 DEF PackedRow
  <2>2. exports[r].key = <<"gpkg", exports[r].ward, r>>
    BY <1>1, <1>3 DEF PackedRow
  <2>3. exports[r].key \in DOMAIN shelf /\ shelf[exports[r].key] = [ward |-> exports[r].ward, version |-> v]
    BY <2>1, <2>2 DEF Packed
  <2> QED BY <2>1, <2>3
<1> QED BY <1>1, <1>2, <1>3

-----------------------------------------------------------------------------
(* The crawl. *)

LEMMA TableIsSeq ==
  ASSUME BuildsOK, NEW w \in Wards
  PROVE  /\ Table(w) \in Seq({<<records[w], i>> : i \in Nat})
         /\ Len(Table(w)) = Rows[records[w]] /\ Rows[records[w]] \in Nat
<1>1. Rows[records[w]] \in Nat
  BY LastVersionIsNat DEF BuildsOK
<1>2. PICK n \in Nat : n = Rows[records[w]]
  BY <1>1
<1>3. Table(w) = [i \in 1..n |-> <<records[w], i>>]
  BY <1>2 DEF Table
<1> QED BY <1>2, <1>3

LEMMA CrawlStays ==
  ASSUME CrawlOK, crawl' = crawl, records' = records
  PROVE  CrawlOK'
  BY DEF CrawlOK, CrawlTyped, Following, Table

LEMMA LimitIsPositive ==
  ASSUME NEW asked \in Limits
  PROVE  Limit(asked) \in Nat \ {0}
  BY DEF Limit

LEMMA CrawlOpens ==
  ASSUME BuildsOK, CrawlOK, NEW r, NEW w \in Wards, NEW asked \in Limits, OpenCollection(r, w, asked),
         records' = records
  PROVE  CrawlOK'
<1>1. PICK limit \in Nat \ {0} : limit = Limit(asked)
  BY LimitIsPositive
<1>2. crawl.at = "idle" /\ crawl' = [crawl EXCEPT !.at = "count", !.ward = w, !.limit = limit]
  BY <1>1 DEF OpenCollection
<1>3. PICK matched, steady, ward, l :
        /\ crawl = [at |-> "idle", ward |-> ward, limit |-> l, offset |-> 0,
                    matched |-> matched, got |-> <<>>, steady |-> steady]
        /\ steady \in BOOLEAN
  <2>1. /\ crawl = [at |-> "idle", ward |-> crawl.ward, limit |-> crawl.limit, offset |-> 0,
                    matched |-> crawl.matched, got |-> <<>>, steady |-> crawl.steady]
        /\ crawl.steady \in BOOLEAN
    BY <1>2 DEF CrawlOK, CrawlTyped
  <2> QED BY <2>1
<1>4. crawl' = [at |-> "count", ward |-> w, limit |-> limit, offset |-> 0,
                matched |-> matched, got |-> <<>>, steady |-> steady]
  BY <1>2, <1>3
<1>5. CrawlTyped'
  BY <1>3, <1>4 DEF CrawlTyped
<1>6. SubSeq(Table(w), 1, 0) = <<>> /\ 0 <= Len(Table(w))
  BY SubSeqEmpty, TableIsSeq
<1>7. Table(w)' = Table(w)
  BY DEF Table
<1>8. Following'
  BY <1>4, <1>6, <1>7 DEF Following
<1> QED BY <1>5, <1>8 DEF CrawlOK

LEMMA CrawlCounts ==
  ASSUME BuildsOK, CrawlOK, CountMatches, records' = records
  PROVE  CrawlOK'
<1>1. PICK ward, limit, offset, matched, got, steady :
        /\ crawl = [at |-> "count", ward |-> ward, limit |-> limit, offset |-> offset,
                    matched |-> matched, got |-> got, steady |-> steady]
        /\ ward \in Wards /\ limit \in Nat \ {0} /\ offset \in Nat
        /\ steady \in BOOLEAN
  <2>1. /\ crawl = [at |-> "count", ward |-> crawl.ward, limit |-> crawl.limit, offset |-> crawl.offset,
                    matched |-> crawl.matched, got |-> crawl.got, steady |-> crawl.steady]
        /\ crawl.ward \in Wards /\ crawl.limit \in Nat \ {0} /\ crawl.offset \in Nat
        /\ crawl.steady \in BOOLEAN
    BY DEF CountMatches, CrawlOK, CrawlTyped
  <2> QED BY <2>1
<1>2. PICK count \in Nat : count = Rows[records[ward]] /\ count = Len(Table(ward))
  BY <1>1, TableIsSeq
<1>3. crawl' = [at |-> "rows", ward |-> ward, limit |-> limit, offset |-> offset,
                matched |-> count, got |-> got, steady |-> steady]
  BY <1>1, <1>2 DEF CountMatches
<1>4. CrawlTyped'
  BY <1>1, <1>2, <1>3 DEF CrawlTyped
<1>5. Table(ward)' = Table(ward)
  BY DEF Table
<1>6. steady => offset <= Len(Table(ward)) /\ got = SubSeq(Table(ward), 1, offset)
  BY <1>1 DEF CrawlOK, Following
<1>7. Following'
  BY <1>2, <1>3, <1>5, <1>6 DEF Following
<1> QED BY <1>4, <1>7 DEF CrawlOK

LEMMA CrawlReads ==
  ASSUME BuildsOK, CrawlOK, ReadPage, records' = records
  PROVE  CrawlOK'
<1>1. PICK ward, limit, offset, matched, got, steady :
        /\ crawl = [at |-> "rows", ward |-> ward, limit |-> limit, offset |-> offset,
                    matched |-> matched, got |-> got, steady |-> steady]
        /\ ward \in Wards /\ limit \in Nat \ {0} /\ offset \in Nat
        /\ steady \in BOOLEAN /\ matched \in Nat
  <2>1. /\ crawl = [at |-> "rows", ward |-> crawl.ward, limit |-> crawl.limit, offset |-> crawl.offset,
                    matched |-> crawl.matched, got |-> crawl.got, steady |-> crawl.steady]
        /\ crawl.ward \in Wards /\ crawl.limit \in Nat \ {0} /\ crawl.offset \in Nat
        /\ crawl.steady \in BOOLEAN /\ crawl.matched \in Nat
    BY DEF ReadPage, CrawlOK, CrawlTyped
  <2> QED BY <2>1
<1>2. PICK page : page = Page(ward, limit, offset)
  OBVIOUS
<1>3. PICK at, next : /\ at = IF offset + limit < matched THEN "count" ELSE "complete"
                      /\ next = IF offset + limit < matched THEN offset + limit ELSE offset
  OBVIOUS
<1>4. crawl' = [at |-> at, ward |-> ward, limit |-> limit, offset |-> next,
                matched |-> matched, got |-> got \o page, steady |-> steady]
  BY <1>1, <1>2, <1>3 DEF ReadPage, HasNext
<1>5. CrawlTyped'
  <2>1. at \in {"count", "complete"} /\ next \in Nat
    BY <1>1, <1>3
  <2> QED BY <1>1, <1>4, <2>1 DEF CrawlTyped
<1>6. Table(ward)' = Table(ward)
  BY DEF Table
<1>7. ASSUME steady
      PROVE  /\ at = "count" => next <= Len(Table(ward)) /\ got \o page = SubSeq(Table(ward), 1, next)
             /\ at = "complete" => got \o page = Table(ward)
  <2>1. PICK S : Table(ward) \in Seq(S)
    BY <1>1, TableIsSeq
  <2>2. PICK n \in Nat : n = Len(Table(ward))
    BY <2>1
  <2>3. matched = n /\ offset <= n /\ got = SubSeq(Table(ward), 1, offset)
    BY <1>1, <1>7, <2>2 DEF CrawlOK, Following
  <2>4. PICK last \in Nat : last = IF offset + limit < n THEN offset + limit ELSE n
    BY <1>1
  <2>5. page = SubSeq(Table(ward), offset + 1, last)
    BY <1>2, <2>2, <2>4 DEF Page
  <2>6. 1 \in 1 .. n + 1 /\ offset \in 1 - 1 .. n /\ last \in offset .. n
    BY <1>1, <2>3, <2>4
  <2>7. got \o page = SubSeq(Table(ward), 1, last)
    BY <2>1, <2>2, <2>3, <2>5, <2>6, ConcatAdjacentSubSeq
  <2>8. at = "count" => last = next /\ next <= n
    BY <1>1, <1>3, <2>3, <2>4
  <2>9. at = "complete" => last = n
    BY <1>1, <1>3, <2>3, <2>4
  <2>10. SubSeq(Table(ward), 1, n) = Table(ward)
    BY <2>1, <2>2, SubSeqFull
  <2> QED BY <2>2, <2>7, <2>8, <2>9, <2>10
<1>8. at # "rows"
  BY <1>3
<1>9. Following'
  BY <1>4, <1>6, <1>7, <1>8 DEF Following
<1> QED BY <1>5, <1>9 DEF CrawlOK

LEMMA CrawlDisturbed ==
  ASSUME CrawlOK, BuildsOK, NEW w \in Wards, Disturb(w), records' = [records EXCEPT ![w] = @ + 1]
  PROVE  CrawlOK'
<1>1. CASE crawl.at # "idle" /\ crawl.ward = w
  <2>1. crawl' = [crawl EXCEPT !.steady = FALSE]
    BY <1>1 DEF Disturb
  <2>2. CrawlTyped' /\ ~crawl'.steady
    BY <2>1 DEF CrawlOK, CrawlTyped
  <2> QED BY <2>2 DEF CrawlOK, Following
<1>2. CASE ~(crawl.at # "idle" /\ crawl.ward = w)
  <2>1. crawl' = crawl
    BY <1>2 DEF Disturb
  <2>2. CASE crawl.at = "idle"
    BY <2>1, <2>2 DEF CrawlOK, CrawlTyped, Following
  <2>3. CASE crawl.at # "idle"
    <3>1. PICK ward \in Wards : ward = crawl.ward /\ ward # w
      BY <1>2, <2>3 DEF CrawlOK, CrawlTyped
    <3>2. Table(ward)' = Table(ward)
      BY <3>1 DEF Table, BuildsOK
    <3> QED BY <2>1, <3>1, <3>2 DEF CrawlOK, CrawlTyped, Following
  <2> QED BY <2>2, <2>3
<1> QED BY <1>1, <1>2

LEMMA CrawlActs ==
  ASSUME AccessTypeOK, Base, BuildsOK, CrawlOK, NEW r \in Requests, Handle(r)
  PROVE  CrawlOK'
<1>1. Footprint(r) /\ Handlers(r)
  BY HandlePrint
<1>2. records' = records
  BY <1>1 DEF Footprint
<1>3. CASE crawl' = crawl
  BY <1>2, <1>3, CrawlStays
<1>4. CASE crawl' # crawl
  <2>1. PICK w \in Wards, asked \in Limits : OpenCollection(r, w, asked)
    BY <1>1, <1>4 DEF Footprint, Handlers, Items
  <2> QED BY <1>2, <2>1, CrawlOpens
<1> QED BY <1>3, <1>4

LEMMA CrawlFollows == CrawlOK => CrawlIsComplete
  BY DEF CrawlOK, CrawlTyped, Following, CrawlIsComplete

LEMMA AssemblyBuilds ==
  ASSUME BuildsOK, NEW w \in Wards, Assemble(w)
  PROVE  /\ records' = [records EXCEPT ![w] = @ + 1]
         /\ records' \in [Wards -> 1..LastVersion]
  BY LastVersionIsNat DEF BuildsOK, Assemble

-----------------------------------------------------------------------------
(* The whole. *)

LEMMA InitState == PortalInit => IInv
<1> SUFFICES ASSUME PortalInit PROVE IInv
  OBVIOUS
<1> USE DEF PortalInit, AccessInit, FieldInit, ReleaseInit, ChangesInit
<1>1. \A r \in Requests : /\ work[r] = Idle /\ call[r].at = "unsent" /\ call[r].status = "none"
                          /\ ~Built(r) /\ ~Exporting(r) /\ ~Voted(r)
                          /\ work[r].step = "start" /\ work[r].alone
  BY DEF Idle, Built, Exporting, Voted
<1>2. Base
  BY <1>1 DEF Base, Journey, Shape, Idle, Steps
<1>3. JobsOK
  BY DEF JobsOK
<1>4. VerifyingOK
  BY <1>1 DEF VerifyingOK, At, Verdicts
<1>5. TicketsOK
  BY <1>1 DEF TicketsOK, At
<1>6. RunsOK
  <2>1. runs \in [DOMAIN runs -> {"queued", "running", "done", "failed"}]
    OBVIOUS
  <2>2. \A d \in detections : d = [run |-> d.run, verdict |-> d.verdict] /\ d.run = OldRun /\ d.run \in DOMAIN runs
    OBVIOUS
  <2>3. \A r \in Requests : work[r].step = "start"
    BY <1>1
  <2>4. jobs = {}
    OBVIOUS
  <2> QED BY <2>1, <2>2, <2>3, <2>4 DEF RunsOK
<1>7. VotesOK
  BY <1>1 DEF VotesOK
<1>8. BuildsOK
  <2>1. 1 \in 1..LastVersion
    BY LastVersionIsNat DEF LastVersion
  <2>2. records \in [Wards -> 1..LastVersion] /\ minute \in 0..MaxMinute
    BY <2>1
  <2>3. \A r \in Requests : CsvBuilt(r) /\ GeojsonBuilt(r)
    BY <1>1 DEF CsvBuilt, GeojsonBuilt
  <2> QED BY <2>2, <2>3 DEF BuildsOK
<1>9. ShelfOK
  BY <1>1 DEF ShelfOK, Stored
<1>10. ExportsOK
  BY <1>1 DEF ExportsOK
<1>11. CrawlOK
  BY DEF CrawlOK, CrawlTyped, Following
<1> QED BY <1>2, <1>3, <1>4, <1>5, <1>6, <1>7, <1>8, <1>9, <1>10, <1>11 DEF IInv

\* Where no handler acts and the stores stay as they were.
LEMMA AsideKeeps ==
  ASSUME IInv, AccessTypeOK, AccessTypeOK', Base', AllKept,
         UNCHANGED <<jobs, fieldVars, releaseVars, changeVars>>, faults' \in 0..MaxFaults
  PROVE  IInv'
<1>1. \A s \in Requests : /\ Kept(s, {"verify"}) /\ Kept(s, {"createTicket", "reviewTicket"})
                          /\ Kept(s, {"runChanges"}) /\ Kept(s, {"verifyChange"})
                          /\ Kept(s, {"exportCsv", "geojson"}) /\ Kept(s, {"geojson", "gpkg"})
  BY KeptOfAll
<1> USE DEF IInv, fieldVars, releaseVars, deliveryVars, changeVars
<1>2. VerifyingOK' /\ TicketsOK'
  BY <1>1, VerifyingStays, TicketsStay
<1>3. RunsOK' /\ VotesOK'
  <2>1. \A d \in detections' : d = [run |-> d.run, verdict |-> d.verdict] /\ \E e \in detections : e.run = d.run
    BY DEF RunsOK
  <2> QED BY <1>1, <2>1, RunsStay, VotesStay
<1>4. BuildsOK' /\ ShelfOK'
  <2>1. records' \in [Wards -> 1..LastVersion] /\ minute' \in 0..MaxMinute
    BY DEF BuildsOK
  <2> QED BY <1>1, <2>1, BuildsStay, ShelfStays
<1>5. ExportsOK'
  <2>1. Shelved(Requests) /\ Undisturbed(Requests) /\ \A j \in jobs' : j \in Job
    BY DEF Shelved, Undisturbed, JobsOK
  <2> QED BY <1>1, <2>1, ExportsStay
<1>6. JobsOK' /\ CrawlOK'
  BY CrawlStays DEF JobsOK
<1> QED BY <1>2, <1>3, <1>4, <1>5, <1>6

LEMMA HandleKeeps ==
  ASSUME IInv, AccessTypeOK, NEW r \in Requests, Handle(r)
  PROVE  IInv'
<1>1. Base' /\ Only(r) /\ Footprint(r) /\ Handlers(r)
  BY HandleOnly, HandlePrint DEF IInv
<1> USE DEF IInv
<1>2. JobsOK' /\ CrawlOK'
  BY JobsAct, CrawlActs
<1>3. VerifyingOK'
  <2>1. CASE call[r].route = "verify"
    BY <2>1, VerifyingActs
  <2>2. CASE call[r].route # "verify"
    BY <1>1, <2>2, ElsewhereKept, VerifyingStays DEF Footprint
  <2> QED BY <2>1, <2>2
<1>4. TicketsOK'
  <2> DEFINE routes == {"createTicket", "reviewTicket"}
  <2>1. CASE call[r].route \in routes
    BY <2>1, TicketsAct
  <2>2. CASE call[r].route \notin routes
    BY <1>1, <2>2, ElsewhereKept, TicketsStay DEF Footprint
  <2> QED BY <2>1, <2>2
<1>5. RunsOK'
  <2>1. CASE call[r].route = "runChanges"
    BY <2>1, RunsAct
  <2>2. CASE call[r].route # "runChanges"
    <3>1. \A s \in Requests : Kept(s, {"runChanges"})
      BY <1>1, <2>2, ElsewhereKept
    <3>2. \A d \in detections' : d = [run |-> d.run, verdict |-> d.verdict] /\ \E e \in detections : e.run = d.run
      <4>1. CASE call[r].route = "verifyChange"
        BY <1>1, <4>1, VerdictKeepsRuns DEF Handlers
      <4>2. CASE call[r].route # "verifyChange"
        BY <1>1, <4>2 DEF Footprint, RunsOK
      <4> QED BY <4>1, <4>2
    <3>3. \A j \in jobs' : j.type = "DETECT_CHANGES" => j \in jobs
      BY <1>1, <2>2 DEF Footprint, QueueChanges, At
    <3> QED BY <1>1, <2>2, <3>1, <3>2, <3>3, RunsStay DEF Footprint
  <2> QED BY <2>1, <2>2
<1>6. VotesOK'
  <2>1. CASE call[r].route = "verifyChange"
    BY <2>1, VotesAct
  <2>2. CASE call[r].route # "verifyChange"
    BY <1>1, <2>2, ElsewhereKept, VotesStay DEF Footprint
  <2> QED BY <2>1, <2>2
<1>7. BuildsOK' /\ ShelfOK'
  <2>1. CASE call[r].route \in {"exportCsv", "geojson"}
    BY <2>1, BuildsAct, ShelfActs
  <2>2. CASE call[r].route \notin {"exportCsv", "geojson"}
    <3>1. \A s \in Requests : Kept(s, {"exportCsv", "geojson"})
      BY <1>1, <2>2, ElsewhereKept
    <3>2. shelf' = shelf /\ records' \in [Wards -> 1..LastVersion] /\ minute' \in 0..MaxMinute
      BY <1>1, <2>2 DEF Footprint, BuildsOK
    <3> QED BY <3>1, <3>2, BuildsStay, ShelfStays
  <2> QED BY <2>1, <2>2
<1>8. ExportsOK'
  <2>1. CASE call[r].route \in {"exportCsv", "geojson", "gpkg"}
    BY <2>1, ExportsAct
  <2>2. CASE call[r].route \notin {"exportCsv", "geojson", "gpkg"}
    <3>1. \A s \in Requests : Kept(s, {"geojson", "gpkg"})
      BY <1>1, <2>2, ElsewhereKept
    <3>2. Shelved(Requests) /\ exports' = exports
      BY <1>1, <2>2 DEF Footprint, Shelved
    <3>3. Undisturbed(Requests) /\ \A j \in jobs' : j \in Job
      BY <1>1, <1>2, <2>2 DEF Footprint, QueueGpkg, At, Undisturbed, JobsOK
    <3> QED BY <3>1, <3>2, <3>3, ExportsStay
  <2> QED BY <2>1, <2>2
<1> QED BY <1>1, <1>2, <1>3, <1>4, <1>5, <1>6, <1>7, <1>8

LEMMA WorkerKeeps ==
  ASSUME IInv, AccessTypeOK, AccessTypeOK', Worker
  PROVE  IInv'
<1> USE DEF IInv
<1>1. UNCHANGED <<work, call, property, tickets, records, minute, crawl>>
  BY DEF Worker, ExportJob, DetectionJob, accessVars, fieldVars, releaseVars, deliveryVars
<1>2. \A s \in Requests : \A routes \in {{"verify"}, {"createTicket", "reviewTicket"}, {"runChanges"},
                                         {"verifyChange"}, {"exportCsv", "geojson"}, {"geojson", "gpkg"}} :
        Kept(s, routes)
  BY <1>1 DEF Kept
<1>3. Base' /\ VerifyingOK' /\ TicketsOK' /\ BuildsOK' /\ CrawlOK'
  <2>1. records' \in [Wards -> 1..LastVersion] /\ minute' \in 0..MaxMinute
    BY <1>1 DEF BuildsOK
  <2>2. Base'
    BY <1>1, StillKept
  <2> QED BY <1>1, <1>2, <2>1, <2>2, VerifyingStays, TicketsStay, BuildsStay, CrawlStays
<1>4. PICK j \in jobs : (ExportJob(j) /\ UNCHANGED changeVars) \/ DetectionJob(j)
  BY DEF Worker
<1>5. CASE ExportJob(j) /\ UNCHANGED changeVars
  <2>1. ExportsOK' /\ JobsOK' /\ ShelfOK'
    BY <1>5, PackingWorks, PackingKeepsShelf
  <2>2. UNCHANGED <<runs, detections, repeated>>
    BY <1>5 DEF changeVars, ExportJob, deliveryVars
  <2>3. \A d \in detections' : d = [run |-> d.run, verdict |-> d.verdict] /\ \E e \in detections : e.run = d.run
    BY <2>2 DEF RunsOK
  <2>4. \A k \in jobs' : k.type = "DETECT_CHANGES" => k \in jobs
    <3>1. PICK at \in {"queued", "read", "uploaded", "finished"}, saw \in Nat : Advance(j, at, saw)
      <4>1. j \in Job
        BY DEF JobsOK
      <4>2. \A v \in 1..LastVersion : v \in Nat
        BY LastVersionIsNat
      <4>3. j.type = "EXPORT_HARMONIZED"
        BY <1>5 DEF ExportJob
      <4>4. exports[j.owner].ward \in Wards
        BY <4>3 DEF ExportsOK, PackingOK, Exporting, Export, JobsOK, Job
      <4>5. records[exports[j.owner].ward] \in Nat
        BY <4>2, <4>4 DEF BuildsOK
      <4> QED BY <1>5, <4>1, <4>5 DEF ExportJob, ReadRecords, UploadGpkg, MarkReady, ExportFails,
         Job
    <3>2. PICK n \in Job : n.type = j.type /\ jobs' = (jobs \ {j}) \cup {n}
      BY <3>1, AdvanceMoves
    <3> QED BY <1>5, <3>2 DEF ExportJob
  <2>5. RunsOK' /\ VotesOK'
    BY <1>2, <2>2, <2>3, <2>4, RunsStay, VotesStay
  <2> QED BY <1>3, <2>1, <2>5
<1>6. CASE DetectionJob(j)
  <2>1. RunsOK' /\ JobsOK' /\ VotesOK'
    BY <1>6, DetectionKeepsRuns, DetectionKeepsVotes
  <2>2. shelf' = shelf /\ exports' = exports /\ j.type = "DETECT_CHANGES"
    BY <1>6 DEF DetectionJob, releaseVars, deliveryVars
  <2>3. ShelfOK' /\ Shelved(Requests)
    BY <1>2, <2>2, ShelfStays DEF Shelved
  <2>4. Undisturbed(Requests)
    <3>1. PICK at \in {"queued", "read", "uploaded", "finished"} : Advance(j, at, 0)
      BY <1>6 DEF DetectionJob, BeginDetection, Replace, DetectionFails
    <3>2. PICK n \in Job : n.type = j.type /\ jobs' = (jobs \ {j}) \cup {n}
      BY <3>1, AdvanceMoves
    <3>3. UNCHANGED <<repeated, overlapped>>
      BY <1>6 DEF DetectionJob, releaseVars, deliveryVars
    <3> QED BY <2>2, <3>2, <3>3 DEF Undisturbed
  <2>5. ExportsOK'
    BY <1>2, <2>1, <2>2, <2>3, <2>4, ExportsStay DEF JobsOK
  <2> QED BY <1>3, <2>1, <2>3, <2>5
<1> QED BY <1>4, <1>5, <1>6

LEMMA RepeatKeeps ==
  ASSUME IInv, Repeat, UNCHANGED changeVars
  PROVE  IInv'
<1> USE DEF IInv
<1>1. PICK j \in jobs : Redeliver(j)
  BY DEF Repeat
<1>2. /\ UNCHANGED <<work, call, property, tickets, records, minute, shelf, crawl, detections>>
      /\ repeated \subseteq repeated'
  BY <1>1 DEF Redeliver, accessVars, fieldVars, changeVars
<1>3. \A s \in Requests : \A routes \in {{"verify"}, {"createTicket", "reviewTicket"},
                                         {"verifyChange"}, {"exportCsv", "geojson"}} : Kept(s, routes)
  BY <1>2 DEF Kept
<1>4. Base' /\ VerifyingOK' /\ TicketsOK' /\ BuildsOK' /\ CrawlOK' /\ ShelfOK' /\ VotesOK'
  <2>1. records' \in [Wards -> 1..LastVersion] /\ minute' \in 0..MaxMinute
    BY <1>2 DEF BuildsOK
  <2>2. Base'
    BY <1>2, StillKept
  <2> QED BY <1>2, <1>3, <2>1, <2>2, VerifyingStays, TicketsStay, BuildsStay, CrawlStays, ShelfStays, VotesStay
<1>5. RunsOK' /\ JobsOK'
  BY <1>1, RepeatKeepsRuns
<1>6. ExportsOK'
  BY <1>1, <1>5, RepeatKeepsExports
<1> QED BY <1>4, <1>5, <1>6

LEMMA SurroundingsKeep ==
  ASSUME IInv, Environment \/ Crawl, UNCHANGED changeVars
  PROVE  IInv'
<1> USE DEF IInv
<1>1. /\ UNCHANGED <<work, call, jobs, faults, shelf, exports>>
      /\ UNCHANGED <<property, tickets, tiles, runs, detections, repeats, repeated, overlapped>>
  BY DEF Environment, Crawl, accessVars, fieldVars, changeVars, deliveryVars
<1>2. \A s \in Requests : \A routes \in {{"verify"}, {"createTicket", "reviewTicket"}, {"runChanges"},
                                         {"verifyChange"}, {"exportCsv", "geojson"}, {"geojson", "gpkg"}} :
        Kept(s, routes)
  BY <1>1 DEF Kept
<1>3. Base' /\ JobsOK' /\ VerifyingOK' /\ TicketsOK' /\ VotesOK' /\ ShelfOK'
  <2>1. Base' /\ JobsOK'
    BY <1>1, StillKept DEF JobsOK
  <2> QED BY <1>1, <1>2, <2>1, VerifyingStays, TicketsStay, VotesStay, ShelfStays
<1>4. RunsOK'
  <2>1. \A d \in detections' : d = [run |-> d.run, verdict |-> d.verdict] /\ \E e \in detections : e.run = d.run
    BY <1>1 DEF RunsOK
  <2> QED BY <1>1, <1>2, <2>1, RunsStay
<1>5. ExportsOK'
  <2>1. Shelved(Requests) /\ Undisturbed(Requests)
    BY <1>1 DEF Shelved, Undisturbed
  <2> QED BY <1>1, <1>2, <1>3, <2>1, ExportsStay DEF JobsOK
<1>6. BuildsOK' /\ CrawlOK'
  <2>1. CASE Tick /\ UNCHANGED <<records, crawl>>
    <3>1. minute' \in 0..MaxMinute /\ records' \in [Wards -> 1..LastVersion]
      BY <2>1 DEF Tick, BuildsOK
    <3> QED BY <1>2, <2>1, <3>1, BuildsStay, CrawlStays
  <2>2. ASSUME NEW w \in Wards, Assemble(w), Disturb(w), UNCHANGED minute
        PROVE  BuildsOK' /\ CrawlOK'
    <3>1. records' = [records EXCEPT ![w] = @ + 1] /\ records' \in [Wards -> 1..LastVersion]
      BY <2>2, AssemblyBuilds
    <3>2. minute' \in 0..MaxMinute
      BY <2>2 DEF BuildsOK
    <3> QED BY <1>2, <2>2, <3>1, <3>2, BuildsStay, CrawlDisturbed
  <2>3. CASE Crawl
    <3>1. records' = records /\ minute' = minute
      BY <2>3 DEF Crawl
    <3>2. records' \in [Wards -> 1..LastVersion] /\ minute' \in 0..MaxMinute
      BY <3>1 DEF BuildsOK
    <3> QED BY <1>2, <2>3, <3>1, <3>2, BuildsStay, CrawlCounts, CrawlReads DEF Crawl
  <2> QED BY <2>1, <2>2, <2>3 DEF Environment
<1> QED BY <1>3, <1>4, <1>5, <1>6

LEMMA StepState == IInv /\ AccessTypeOK /\ AccessTypeOK' /\ [PortalNext]_portalVars => IInv'
<1> SUFFICES ASSUME IInv, AccessTypeOK, AccessTypeOK', [PortalNext]_portalVars PROVE IInv'
  OBVIOUS
<1>1. faults \in 0..MaxFaults /\ Base
  BY DEF IInv, JobsOK
<1>2. CASE UNCHANGED portalVars \/ (Boot /\ UNCHANGED <<work, jobs, faults, fieldVars, releaseVars, changeVars>>)
  <2>1. UNCHANGED <<work, call, jobs, faults, fieldVars, releaseVars, changeVars>>
    BY <1>2 DEF portalVars, accessVars, Boot
  <2>2. Base' /\ AllKept
    BY <1>1, <2>1, StillKept
  <2> QED BY <1>1, <2>1, <2>2, AsideKeeps
<1>3. ASSUME NEW r \in Requests, Guarded(r) \/ GuardStops(r)
      PROVE  IInv'
  <2>1. Base' /\ AllKept
    BY <1>1, <1>3, GuardKept
  <2>2. /\ UNCHANGED <<jobs, fieldVars, releaseVars, changeVars>>
        /\ faults' \in 0..MaxFaults
    BY <1>1, <1>3 DEF Guarded, GuardStops
  <2> QED BY <2>1, <2>2, AsideKeeps
<1>4. ASSUME NEW r \in Requests, HandlerFails(r), UNCHANGED <<releaseVars, changeVars>>
      PROVE  IInv'
  <2>1. Base' /\ AllKept
    BY <1>1, <1>4, FailureKept
  <2>2. /\ UNCHANGED <<jobs, fieldVars, releaseVars, changeVars>>
        /\ faults' \in 0..MaxFaults
    BY <1>1, <1>4 DEF HandlerFails
  <2> QED BY <2>1, <2>2, AsideKeeps
<1> QED BY <1>2, <1>3, <1>4, HandleKeeps, WorkerKeeps, RepeatKeeps, SurroundingsKeep DEF PortalNext, Serve

(* The inductive invariant of the whole API. *)
THEOREM StateInvariant == PortalSpec => [](IInv /\ AccessTypeOK)
<1>1. PortalSpec => []AccessTypeOK
  <2>1. AccessInv => AccessTypeOK
    BY DEF AccessInv
  <2> QED BY <2>1, ApiImplementsAccess, GuardInvariant, PTL
<1> QED BY <1>1, InitState, StepState, PTL DEF PortalSpec

(* Type correctness of the whole API, with what ties its tables together:   *)
(* an export names a ward and an object in storage, a detection its run.    *)
THEOREM PortalTyped == PortalSpec => []PortalTypeOK
<1>1. IInv /\ AccessTypeOK => PortalTypeOK
  <2> SUFFICES ASSUME IInv, AccessTypeOK PROVE PortalTypeOK
    OBVIOUS
  <2>1. /\ \A r \in Requests : work[r].step \in Steps /\ work[r].alone \in BOOLEAN
        /\ \A j \in jobs : j.at \in {"queued", "read", "uploaded", "finished"}
        /\ faults \in 0..MaxFaults /\ DOMAIN tiles \subseteq Requests
    BY DEF IInv, Base, Journey, Shape, JobsOK, Job
  <2>2. /\ property \in [status : Verdicts, verdict : Verdicts]
        /\ DOMAIN tickets \subseteq Requests \cup {FirstTicket}
    BY DEF IInv, VerifyingOK, TicketsOK
  <2>3. /\ runs \in [DOMAIN runs -> {"queued", "running", "done", "failed"}]
        /\ \A d \in detections : d.run \in DOMAIN runs
        /\ repeats \in 0..MaxRepeats /\ overlapped \subseteq repeated /\ repeated \subseteq Requests
    BY DEF IInv, RunsOK, JobsOK
  <2>4. /\ records \in [Wards -> 1..LastVersion] /\ minute \in 0..MaxMinute
        /\ crawl.offset \in Nat
    BY DEF IInv, BuildsOK, CrawlOK, CrawlTyped
  <2>5. /\ DOMAIN exports \subseteq Requests
        /\ \A r \in DOMAIN exports :
             exports[r] \in [ward : Wards, status : {"processing", "ready", "failed"},
                             key : {<<>>} \cup DOMAIN shelf, count : Nat]
    BY DEF IInv, ExportsOK, Export
  <2> QED BY <2>1, <2>2, <2>3, <2>4, <2>5 DEF PortalTypeOK
<1> QED BY <1>1, StateInvariant, PTL

(* A verdict in its two tables, and a ticket and what its author was told,  *)
(* agree but for requests that overlap or fail half-way (updateStatus,      *)
(* review), for any number of requests and faults.                          *)
THEOREM PapersAgreed == PortalSpec => []PapersAgree
<1>1. IInv => PapersAgree
  BY PapersFollow DEF IInv
<1> QED BY <1>1, StateInvariant, PTL

(* Verdicts on changes survive other runs and failed attempts (epochs.py),  *)
(* unless the job of their own run was delivered again.                     *)
THEOREM VerdictsKept == PortalSpec => []VerdictsSurvive
<1>1. IInv => VerdictsSurvive
  BY VerdictsFollow DEF IInv
<1> QED BY <1>1, StateInvariant, PTL

(* The link that exportCsv and exportGeojson return leads to what was read  *)
(* for it, but for another export of the same minute.                       *)
THEOREM LinksServed == PortalSpec => []LinksServeWhatWasAsked
<1>1. IInv => LinksServeWhatWasAsked
  BY LinksFollow DEF IInv
<1> QED BY <1>1, StateInvariant, PTL

(* A row of harmonized_exports that is offered for download has its object, *)
(* always of its ward, and with the features it counts (export_harmonized,  *)
(* exportGeojson), through failed attempts, new versions of the records and *)
(* any number of repeats - but while a repeat is under way, once two        *)
(* deliveries of its job overlapped, and for GeoJSON of one minute.         *)
THEOREM RowsTrue == PortalSpec => []ReadyRowsAreTrue
<1>1. IInv => ReadyRowsAreTrue
  BY RowsFollow DEF IInv
<1> QED BY <1>1, StateInvariant, PTL

(* Who follows the next links of a collection has all its records, in order *)
(* and once, for any limit and any number of records (pageLinks, items).    *)
THEOREM CrawlCompletes == PortalSpec => []CrawlIsComplete
<1>1. IInv => CrawlIsComplete
  BY CrawlFollows DEF IInv
<1> QED BY <1>1, StateInvariant, PTL
=============================================================================
