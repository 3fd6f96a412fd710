------------------------------ MODULE Release ------------------------------
(***************************************************************************)
(* How the golden records leave the system: the CSV of the detections, the *)
(* GeoJSON and GeoPackage of a ward with their rows in harmonized_exports, *)
(* the pages of the OGC API; and the administrator's refresh and           *)
(* configuration.  ASSEMBLE_WARD replaces the records of a ward meanwhile  *)
(* (WardRecord has it in detail): here it takes the ward to its next       *)
(* version, with other rows under other ids.                               *)
(***************************************************************************)
EXTENDS Field, Sequences, Folds, Functions

CONSTANTS
  Wards,
  Rows,        \* the number of records a ward has, per version
  MaxMinute,   \* minutes that pass
  MaxAssemblies, \* new versions of the records, over all wards
  MaxRepeats,  \* deliveries of jobs that have been delivered already
  Sizes,       \* of the wards whose readiness is asked for
  DefaultLimit, MaxLimit, Limits  \* of a page of the OGC API, and what a client asks for

VARIABLES
  records,     \* the version of the golden records of each ward
  minute,      \* the time that names a file in storage
  shelf,       \* the objects in storage: key -> the ward and version they hold
  exports,     \* harmonized_exports, by the request that inserted the row
  config,      \* admin_config: data_mode, pipeline_status, ndbi_threshold
  crawl,       \* a client that follows the pages of one collection
  repeats,     \* how many jobs were delivered again,
  repeated,    \* whose,
  overlapped   \* and whose beside a delivery that was still under way

deliveryVars == <<repeats, repeated, overlapped>>
releaseVars == <<records, minute, shelf, exports, config, crawl, deliveryVars>>

ReleaseRoles ==
  [exportCsv |-> {"official", "admin"}, geojson |-> {"official", "admin"},
   gpkg |-> {"official", "admin"}, refresh |-> {"admin"}, uploadCsv |-> {"admin"},
   dbConfig |-> {"admin"}, readiness |-> {}, items |-> {}]

City == "all wards"
LastVersion == Len(Rows)

\* A job is told from the others by its type, which for those of a refresh names the ward.
ASSUME ReleaseAssumption ==
  /\ City \notin Wards
  /\ Wards \cap {"NORMALIZE_SOURCE", "EXPORT_HARMONIZED", "DETECT_CHANGES"} = {}
  /\ Rows \in Seq(Nat) /\ Rows # <<>>
  /\ MaxMinute \in Nat /\ MaxAssemblies \in Nat /\ MaxRepeats \in Nat
  /\ Sizes \subseteq Nat
  /\ DefaultLimit \in Nat \ {0} /\ MaxLimit \in Nat \ {0} /\ Limits \subseteq Int

ReleaseInit ==
  /\ records \in {[w \in Wards |-> 1]}
  /\ minute = 0
  /\ shelf = [k \in {} |-> [ward |-> City, version |-> 1]]
  /\ exports = [r \in {} |-> [ward |-> City, status |-> "processing", key |-> <<>>, count |-> 0]]
  /\ config = [mode |-> "demo", pipeline |-> "idle", threshold |-> "default"]
  /\ crawl = [at |-> "idle", ward |-> City, limit |-> 1, offset |-> 0, matched |-> 0,
              got |-> <<>>, steady |-> TRUE]
  /\ repeats = 0 /\ repeated = {} /\ overlapped = {}

Tick == minute < MaxMinute /\ minute' = minute + 1
Assemblies == FoldFunction(+, 0, [w \in Wards |-> records[w] - 1])
Assemble(w) ==
  Assemblies < MaxAssemblies /\ records[w] < LastVersion /\ records' = [records EXCEPT ![w] = @ + 1]

\* A new version of the records of w under a client that is crawling them.
Disturb(w) ==
  crawl' = IF crawl.at # "idle" /\ crawl.ward = w THEN [crawl EXCEPT !.steady = FALSE] ELSE crawl

Environment ==
  /\ \/ Tick /\ UNCHANGED <<records, crawl>>
     \/ \E w \in Wards : Assemble(w) /\ Disturb(w) /\ UNCHANGED minute
  /\ UNCHANGED <<shelf, exports, config, deliveryVars, accessVars, work, jobs, faults, fieldVars>>

Put(key, w, v) ==
  shelf' = [k \in DOMAIN shelf \cup {key} |->
              IF k = key THEN [ward |-> w, version |-> v] ELSE shelf[k]]

-----------------------------------------------------------------------------
(* ExportService.exportCsv, of one ward or of all: the key names the minute. *)

CsvKey(w) == <<"csv", minute>>

\* The bytes leave for storage under the key of the minute in which they were
\* put together; the link to that key is the answer.
Csv(r) ==
  /\ At(r, "exportCsv", "start")
  /\ \/ \E w \in Wards \cup {City} :
          Move(r, [Idle EXCEPT !.step = "built", !.on = w, !.saw = <<CsvKey(w), 1>>])
     \/ Fails(r, "badRequest")         \* no rows to export
  /\ UNCHANGED <<jobs, faults, fieldVars, releaseVars>>

PutCsv(r) ==
  /\ At(r, "exportCsv", "built")
  /\ Put(work[r].saw[1], work[r].on, work[r].saw[2])
  /\ Done(r, [work[r] EXCEPT !.step = "linked"])
  /\ UNCHANGED <<jobs, faults, fieldVars, records, minute, exports, config, crawl, deliveryVars>>

-----------------------------------------------------------------------------
(* HarmonizedService.exportGeojson. *)

(* Mutant: the key of a GeoJSON names no ward. *)
GeojsonKeyOfAll(w) == <<"geojson", City, minute>>

GeojsonKey(w) == <<"geojson", w, minute>>

Geojson(r) ==
  /\ At(r, "geojson", "start")
  /\ \/ \E w \in Wards :
          /\ Rows[records[w]] > 0
          /\ Move(r, [Idle EXCEPT !.step = "built", !.on = w,
                                  !.saw = <<GeojsonKey(w), records[w]>>])
     \/ /\ Fails(r, "badRequest")      \* no wardId, another format, no records
  /\ UNCHANGED <<jobs, faults, fieldVars, releaseVars>>

\* Without storage, or when it refuses, the collection is the answer.
Inline(r, step) ==
  /\ At(r, "geojson", step)
  /\ Done(r, [work[r] EXCEPT !.step = "inline"])
  /\ UNCHANGED <<jobs, faults, fieldVars, releaseVars>>

PutGeojson(r) ==
  /\ At(r, "geojson", "built")
  /\ Put(work[r].saw[1], work[r].on, work[r].saw[2])
  /\ Move(r, [work[r] EXCEPT !.step = "put"])
  /\ UNCHANGED <<jobs, faults, fieldVars, records, minute, exports, config, crawl, deliveryVars>>

NewExport(r, row) ==
  exports' = [s \in DOMAIN exports \cup {r} |-> IF s = r THEN row ELSE exports[s]]

(* Mutant: the key is made again when the row is written. *)
RecordGeojsonRekeyed(r) ==
  /\ At(r, "geojson", "put")
  /\ NewExport(r, [ward |-> work[r].on, status |-> "ready", key |-> GeojsonKey(work[r].on),
                   count |-> Rows[work[r].saw[2]]])
  /\ Done(r, [work[r] EXCEPT !.step = "linked"])
  /\ UNCHANGED <<jobs, faults, fieldVars, records, minute, shelf, config, crawl, deliveryVars>>

RecordGeojson(r) ==
  /\ At(r, "geojson", "put")
  /\ NewExport(r, [ward |-> work[r].on, status |-> "ready", key |-> work[r].saw[1],
                   count |-> Rows[work[r].saw[2]]])
  /\ Done(r, [work[r] EXCEPT !.step = "linked"])
  /\ UNCHANGED <<jobs, faults, fieldVars, records, minute, shelf, config, crawl, deliveryVars>>

-----------------------------------------------------------------------------
(* enqueueGpkgExport, and EXPORT_HARMONIZED in the worker. *)

Gpkg(r) ==
  /\ At(r, "gpkg", "start")
  /\ \/ \E w \in Wards :
          /\ NewExport(r, [ward |-> w, status |-> "processing", key |-> <<>>, count |-> 0])
          /\ Move(r, [Idle EXCEPT !.step = "inserted", !.on = w])
     \/ Fails(r, "badRequest") /\ UNCHANGED exports
  /\ UNCHANGED <<jobs, faults, fieldVars, records, minute, shelf, config, crawl, deliveryVars>>

(* Mutant: the row is inserted and nothing is queued. *)
QueueGpkgForgotten(r) ==
  /\ At(r, "gpkg", "inserted")
  /\ Done(r, [work[r] EXCEPT !.step = "queued"])
  /\ UNCHANGED <<jobs, faults, fieldVars, releaseVars>>

QueueGpkg(r) ==
  /\ At(r, "gpkg", "inserted")
  /\ Push("EXPORT_HARMONIZED", r)
  /\ Done(r, [work[r] EXCEPT !.step = "queued"])
  /\ UNCHANGED <<faults, fieldVars, releaseVars>>

\* The worker takes job j from one step to the next.
Advance(j, at, saw) == jobs' = (jobs \ {j}) \cup {[j EXCEPT !.at = at, !.saw = saw]}

(* Mutant: the key of a GeoPackage names the ward alone. *)
GpkgKeyOfWard(r) == <<"gpkg", exports[r].ward, "gpkg">>

GpkgKey(r) == <<"gpkg", exports[r].ward, r>>

ReadRecords(j) ==
  /\ j.at = "queued"
  /\ Advance(j, "read", records[exports[j.owner].ward])
  /\ UNCHANGED <<shelf, exports, faults>>

UploadGpkg(j) ==
  /\ j.at = "read"
  /\ Put(GpkgKey(j.owner), exports[j.owner].ward, j.saw)
  /\ Advance(j, "uploaded", j.saw)
  /\ UNCHANGED <<exports, faults>>

MarkReady(j) ==
  /\ j.at = "uploaded"
  /\ exports' = [exports EXCEPT ![j.owner].status = "ready", ![j.owner].key = GpkgKey(j.owner),
                                ![j.owner].count = Rows[j.saw]]
  /\ Advance(j, "finished", j.saw)
  /\ UNCHANGED <<shelf, faults>>

\* An exception, of the first statement on, marks the row, and the job comes
\* again (fewer faults than attempts: JobQueue has the dead letters).
ExportFails(j) ==
  /\ j.at \in {"queued", "read", "uploaded"} /\ faults < MaxFaults
  /\ faults' = faults + 1
  /\ exports' = [exports EXCEPT ![j.owner].status = "failed"]
  /\ Advance(j, "queued", 0)
  /\ UNCHANGED shelf

ExportJob(j) ==
  /\ j.type = "EXPORT_HARMONIZED"
  /\ ReadRecords(j) \/ UploadGpkg(j) \/ MarkReady(j) \/ ExportFails(j)
  /\ UNCHANGED <<accessVars, work, fieldVars, records, minute, config, crawl, deliveryVars>>

\* A job is delivered at least once (JobQueue has how).  A worker that dies
\* before its acknowledgement leaves it to be begun again; one whose heartbeat
\* lapsed goes on beside the delivery that replaces its own.
Redeliver(j) ==
  /\ j.at # "queued" /\ repeats < MaxRepeats
  /\ repeats' = repeats + 1 /\ repeated' = repeated \cup {j.owner}
  /\ \/ Advance(j, "queued", 0) /\ UNCHANGED overlapped
     \/ /\ j.at # "finished"
        /\ jobs' = jobs \cup {[j EXCEPT !.copy = repeats + 1, !.at = "queued", !.saw = 0]}
        /\ overlapped' = overlapped \cup {j.owner}
  /\ UNCHANGED <<accessVars, work, faults, fieldVars, records, minute, shelf, exports, config, crawl>>

\* listExports: a row is offered for download when it is ready and has a key.
Downloadable(r) == exports[r].status = "ready" /\ exports[r].key # <<>>

-----------------------------------------------------------------------------
(* HarmonizedService.readiness, of records given by what blocks them. *)

Classify(rec) ==
  CASE rec.conflicts > 0 -> "blocked_conflict"
    [] rec.conflicts = 0 /\ rec.topology > 0 -> "blocked_topology"
    [] rec.conflicts = 0 /\ rec.topology = 0 /\ rec.confidence < 85 -> "low_confidence"
    [] OTHER -> "ready"

\* summarizeReadiness: the share of ready records in tenths of a percent,
\* rounded half up.
ReadyShare(ready, total) ==
  IF total = 0 THEN 0 ELSE (2000 * ready + total) \div (2 * total)

\* A ward of n records of which one is rec and the others are clean.
Readiness(r) ==
  /\ At(r, "readiness", "start")
  /\ \E n \in Sizes, rec \in [conflicts : 0..1, topology : 0..1, confidence : {84, 85}] :
       LET ready == IF n = 0 \/ Classify(rec) = "ready" THEN n ELSE n - 1 IN
       Done(r, [Idle EXCEPT !.step = "classified", !.saw = <<ReadyShare(ready, n), ready, n>>])
  /\ UNCHANGED <<jobs, faults, fieldVars, releaseVars>>

-----------------------------------------------------------------------------
(* AdminService. *)

UploadCsv(r) ==
  /\ At(r, "uploadCsv", "start")
  /\ config' = [config EXCEPT !.mode = "live"]
  /\ Done(r, [Idle EXCEPT !.step = "stored"])
  /\ UNCHANGED <<jobs, faults, fieldVars, records, minute, shelf, exports, crawl, deliveryVars>>

DbConfig(r) ==
  /\ At(r, "dbConfig", "start")
  /\ config' = [config EXCEPT !.threshold = "set"]
  /\ Done(r, [Idle EXCEPT !.step = "stored"])
  /\ UNCHANGED <<jobs, faults, fieldVars, records, minute, shelf, exports, crawl, deliveryVars>>

\* refresh queues every ward at once; when one push fails the others may have
\* gone through, but the status is left alone.
Unqueued(r) == {w \in Wards : ~\E j \in jobs : j.owner = r /\ j.type = w}

QueueWard(r, w) ==
  /\ At(r, "refresh", "start") /\ w \in Unqueued(r)
  /\ Push(w, r)
  /\ UNCHANGED <<accessVars, work, faults, fieldVars, releaseVars>>

SetRunning(r) ==
  /\ At(r, "refresh", "start") /\ Unqueued(r) = {}
  /\ config' = [config EXCEPT !.pipeline = "running"]
  /\ Done(r, [Idle EXCEPT !.step = "running"])
  /\ UNCHANGED <<jobs, faults, fieldVars, records, minute, shelf, exports, crawl, deliveryVars>>

-----------------------------------------------------------------------------
(* The OGC API: /collections/{id}/items, one page per request.  The client *)
(* of an admitted request follows the next links of its collection.        *)

\* parsePaging: what is not a number, and 0, is the default.
Limit(asked) ==
  LET wanted == IF asked = 0 THEN DefaultLimit ELSE asked
      positive == IF wanted < 1 THEN 1 ELSE wanted
  IN  IF positive > MaxLimit THEN MaxLimit ELSE positive

Table(w) == [i \in 1..Rows[records[w]] |-> <<records[w], i>>]   \* ORDER BY id
Page(w, limit, offset) ==
  LET t == Table(w)
      last == IF offset + limit < Len(t) THEN offset + limit ELSE Len(t)
  IN  SubSeq(t, offset + 1, last)

(* Mutant: off by one. *)
HasNextButOne(limit, offset, matched) == offset + limit + 1 < matched

\* pageLinks: a next link as long as the page does not reach the last match.
HasNext(limit, offset, matched) == offset + limit < matched

OpenCollection(r, w, asked) ==
  /\ At(r, "items", "start") /\ crawl.at = "idle"
  /\ Done(r, [Idle EXCEPT !.step = "opened", !.on = w])
  /\ crawl' = [crawl EXCEPT !.at = "count", !.ward = w, !.limit = Limit(asked)]

\* items counts and reads in two statements; the records may change between.
CountMatches ==
  /\ crawl.at = "count"
  /\ crawl' = [crawl EXCEPT !.at = "rows", !.matched = Rows[records[crawl.ward]]]

ReadPage ==
  LET c == crawl IN
  /\ c.at = "rows"
  /\ crawl' = [c EXCEPT !.got = c.got \o Page(c.ward, c.limit, c.offset),
                        !.at = IF HasNext(c.limit, c.offset, c.matched) THEN "count" ELSE "complete",
                        !.offset = IF HasNext(c.limit, c.offset, c.matched) THEN @ + c.limit ELSE @]

Items(r) ==
  /\ \/ \E w \in Wards, asked \in Limits : OpenCollection(r, w, asked)
     \/ Fails(r, "notFound") /\ At(r, "items", "start") /\ UNCHANGED crawl   \* no such collection
     \/ Fails(r, "badRequest") /\ At(r, "items", "start") /\ UNCHANGED crawl \* a malformed bbox
  /\ UNCHANGED <<jobs, faults, fieldVars, records, minute, shelf, exports, config, deliveryVars>>

Crawl ==
  /\ CountMatches \/ ReadPage
  /\ UNCHANGED <<accessVars, work, jobs, faults, fieldVars, records, minute, shelf, exports, config, deliveryVars>>

ReleaseStep(r) ==
  \/ Csv(r) \/ PutCsv(r) \/ Geojson(r) \/ PutGeojson(r) \/ RecordGeojson(r)
  \/ Inline(r, "built") \/ Inline(r, "put")
  \/ Gpkg(r) \/ QueueGpkg(r)
  \/ Items(r) \/ Readiness(r) \/ UploadCsv(r) \/ DbConfig(r) \/ SetRunning(r)
  \/ \E w \in Wards : QueueWard(r, w)

-----------------------------------------------------------------------------
\* Two exports were built in the same minute, for what shares a key by design:
\* the whole city for a CSV, a ward for a GeoJSON.
SameMinute(r, s) ==
  /\ r # s /\ call[r].route = call[s].route
  /\ work[r].saw[1][Len(work[r].saw[1])] = work[s].saw[1][Len(work[s].saw[1])]
  /\ call[r].route = "geojson" => work[r].on = work[s].on

Built(r) == call[r].route \in {"exportCsv", "geojson"} /\ work[r].step # "start"

\* The link a client gets leads to what it asked for, the ward and the records
\* as they were read, unless another export was built in the same minute: the
\* key of a CSV names no ward, that of a GeoJSON no version.
LinksServeWhatWasAsked ==
  \A r \in Requests :
    Built(r) /\ work[r].step = "linked" =>
      \/ shelf[work[r].saw[1]] = [ward |-> work[r].on, version |-> work[r].saw[2]]
      \/ \E s \in Requests : Built(s) /\ SameMinute(r, s)

\* A delivery of the export of r is under way, or still to come.
Outstanding(r) ==
  \E j \in jobs : j.owner = r /\ j.type = "EXPORT_HARMONIZED" /\ j.at # "finished"

\* A row that says ready has its object in storage, always of its ward, and
\* with as many features as the row says, through failed attempts, new versions
\* of the records, other exports and repeats that came to their end.  The count
\* may be another's while a repeat has put its file over the first and not yet
\* updated the row (export_harmonized uploads, then updates), for good once two
\* deliveries ran beside each other, and for a second GeoJSON of the ward in
\* the same minute.
ReadyRowsAreTrue ==
  \A r \in DOMAIN exports :
    LET x == exports[r] IN
    Downloadable(r) =>
      /\ x.key \in DOMAIN shelf
      /\ shelf[x.key].ward = x.ward
      /\ \/ Rows[shelf[x.key].version] = x.count
         \/ r \in repeated /\ Outstanding(r)
         \/ r \in overlapped
         \/ \E s \in Requests : Built(r) /\ Built(s) /\ SameMinute(r, s)

\* Who follows the next links to the end has every record once, unless the
\* ward was assembled again meanwhile.
CrawlIsComplete ==
  crawl.at = "complete" /\ crawl.steady => crawl.got = Table(crawl.ward)

\* An export whose request was answered leaves processing, and every delivery of
\* its job comes to an end (harmonized.service inserts the row before the push:
\* only a refused push strands it).
ExportsEnd ==
  \A r \in Requests :
    (r \in DOMAIN exports /\ call[r].status = "ok" /\ (exports[r].status = "processing" \/ Outstanding(r)))
      ~> (r \in DOMAIN exports /\ exports[r].status # "processing" /\ ~Outstanding(r))

\* Every crawl ends, whatever limit the client asks for and however often the
\* records change under it.
CrawlsEnd == (crawl.at = "count") ~> (crawl.at = "complete")
=============================================================================
