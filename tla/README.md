# A TLA+ model of NAKSHA

NAKSHA harmonises the land records of a city's wards: it ingests parcel
layers, scanned sheets, revenue records, imagery and survey points, matches the
records of different sources that describe the same parcel, finds where they
disagree, and assembles one golden record per parcel, while officers label
matches, settle conflicts and accept corrections. A NestJS API (`src/backend`),
Python workers (`src/worker`), PostgreSQL/PostGIS (`src/database`), Redis and an
object store share the work; a React frontend (`src/frontend`) shows it.

Almost everything that is hard to test here happens *between* statements: the
API and several workers write the same rows under READ COMMITTED with few
locks, Redis and PostgreSQL are changed one after the other with nothing that
spans both, jobs are delivered at least once, and workers are killed. The
models therefore take one SQL statement (or one transaction, where nobody can
look inside), one Redis command or one upload as one step. In the browser it is
answers that come late and out of order: there a step is a click, an answer or a timer.

| module | what it models |
|---|---|
| `JobQueue` | the Redis queue and the worker loop: delivery, retries, dead letters, heartbeats, recovery, coalescing |
| `Delivery` | what the queue promises: a box of messages, delivered at least once; `JobQueue` implements it |
| `WardRecord` | one ward: match, detect conflicts, assemble, validate, against officers' decisions |
| `SourceLife` | one source: upload, ingestion, georeferencing, OCR, extraction, with retries |
| `Topology` | the topology issues of one source: detection, automatic and accepted fixes |
| `Access` | how a request reaches a handler: boot check, AuthGuard, roles, exception filter |
| `Field` | handlers of field work: verification, tickets, alerts, explanations, drone tiles |
| `Release` | handlers of release: CSV, GeoJSON, GeoPackage, OGC pages, readiness, administration |
| `Changes` | change detection: request, job, officers' verdicts |
| `Portal` | the API: `Access`, `Field`, `Release` and `Changes` with one database and one worker; it implements `Access` |
| `Demo` | the server as the browser meets it: the demo server of the frontend |
| `Store` | the Redux store: thunks, reducers, calls in flight |
| `Pages` | every page of the portal over `Store` and `Demo`: loads, polls, buttons, timers |
| `JobQueue_proofs`, `Delivery_proofs`, `WardRecord_proofs`, `SourceLife_proofs`, `Topology_proofs`, `Access_proofs`, `Portal_proofs`, `Pages_proofs` | theorems, checked by TLAPS |
| `MCJobQueue`, `MCWardRecord`, `MCSourceLife`, `MCTopology`, `MCPortal`, `MCPages` | the small instances TLC checks |

    JobQueue --implements--> Delivery        Portal --implements--> Access
    JobQueue <-assumed by- WardRecord, SourceLife, Topology, Release, Changes
    Access <- Field <- Release <- Changes <- Portal        (each EXTENDS the one before)
    Demo <- Store <- Pages

`PROJECT.json` lists components, runs, the line ranges each definition
stands for, the mutants that show each property can fail, findings, hazards and
theorems.

Run `tlc -config JobQueue_delivery.cfg MCJobQueue` (and likewise the other
configurations) to check a model, `tlapm JobQueue_proofs.tla` (and likewise the other
proof modules) to check the proofs.

## 1. Inventory

### The parts that change state together

**Job queue and worker loop** (`worker/src/queue_client.py`, `worker/src/main.py`,
`backend/src/infra/queue.client.ts`). State: the list `queue:ingest`, a sorted
set of delayed retries, one `processing` list and one heartbeat key per worker, a
dead-letter list; one `pipeline_jobs` row per job. Operations: enqueue (row, then
push), reserve (BLMOVE), handler, retry with back-off, bury, acknowledge (LREM),
heartbeat, recovery of the lists of dead workers, promotion of due retries, the
sweep of stale rows, and coalescing of ward jobs (an older job is skipped when a
newer one of the same ward is queued). Hard: crashes between any two commands; a
heartbeat that lapses while the worker lives; two writers of one row; exceptions
that leave `_process`. Correct when: no pushed job is lost; an acknowledgement
never removes the only trace of a job; a worker holds only the job it works on;
a skipped job really is covered; every job settles and no row says running for
ever.

**Ward chain** (`worker/src/harmonize`, `worker/src/validate/report.py`). State:
`matches`, `conflicts`, `harmonized_parcels`, validation findings. Four jobs that
queue each other (HARMONIZE_WARD, DETECT_CONFLICTS, ASSEMBLE_WARD,
VALIDATE_WARD), each one transaction under the ward's advisory lock. **Officers'
decisions** (`backend/src/harmonization`, `backend/src/conflicts`): labels on
pairs and verdicts on conflicts, without that lock. Hard: statements of the two
interleave under READ COMMITTED; rejecting a match is three statements without a
transaction; a worker dies between its commit and the push of the next job.
Correct when, once nothing is queued or running: rejected matches are gone, every
disagreement has its conflict, and the golden record is that of the matches.

**Sources** (`backend/src/sources`, `backend/src/georef`, `backend/src/extraction`,
`worker/src/ingest`, `worker/src/georef`, `worker/src/ocr`, `worker/src/extract`).
State: `data_sources` (status, key, CRS), `source_features`, `ocr_results`,
`extraction_runs`, files in the object store. Operations: register, complete,
apply control points, digitize, extract, and the handlers NORMALIZE_SOURCE,
GEOREFERENCE, DIGITIZE_SOURCE and EXTRACT_FEATURES with the jobs they queue.
Hard: each handler commits several transactions and may fail between them; the
API sets a status before or after it pushes, and looks at no status before it does; jobs of
one source overlap. Correct when: what normalization made ready has its successors queued and a
CRS; a source waits for control points with a preview to place them on; a
finished run names what it made; processing and running end.

**Topology correction** (`worker/src/spatial/topology_fabric.py`,
`backend/src/topology`). State: `topology_issues`, the geometries. Operations:
FIX_TOPOLOGY (delete unresolved issues, detect, fix or propose), accept, accept
all, ignore, reopen. Hard: fixes are applied long after they were found, to
parcels that have changed, by transactions that share no lock. Correct when: an
accepted overlap stays healed, no ground is lost, an automatic run leaves neither
overlaps nor gaps, and what was fixed is matched again.

**API handlers** (`backend/src/common`, `auth`, `verify`, `tickets`, `alerts`, `drone`,
`export`, `harmonized`, `admin`, `ogc`, `changes`, `properties`). State: `profiles`,
`properties` and `verification_status`, `tickets`, `alerts`, `harmonized_exports`,
`admin_config`, `change_runs` and `change_detections`, files in the object store. A
request passes the global guard, which makes a profile for whom it does not know,
then its handler's statements, of which none holds a lock beyond itself. Hard: requests
interleave at every statement, any statement may fail, a job may be delivered again,
file keys name the minute, the records change under a client that pages through
them. Correct when: no stranger becomes more than a citizen once there is an administrator;
a handler runs only for a role its route allows; two tables that say the
same agree unless requests overlapped; a link and a ready row lead to what they say;
what was begun comes to its end.

**Portal in the browser** (`frontend/src/Redux`, `views`, `components`,
`mocks`). State: one slice per subject (status and data), the ward chosen, the row picked
in a page, timers. Operations: load on appearing, on a change of ward, on a pick; poll while
something looks unfinished; buttons and what follows their answers. Hard: answers
come in any order and after the question has changed; timers outlive what they were
set for; a poll is refused. Correct when: what is drawn belongs to what is
chosen now; a decision is sent once; a page stops showing finished work as
unfinished.

They meet in the queue: an ingestion queues FIX_TOPOLOGY and HARMONIZE_WARD, a
fix queues HARMONIZE_WARD, a rejected match queues HARMONIZE_WARD. `JobQueue`
models how a job is delivered; `WardRecord`, `SourceLife` and `Topology` take that for granted (a job
that is queued is taken, and taken again after a crash or an exception) and
model what it does. That is the division `JobQueue` justifies:
`DeliverySpec` and `EveryJobSettles` are what the others assume. `Portal` takes the
chains for granted in turn: that a ward is assembled again is one step there.

### The other parts

Schema mapping: the best canonical field per column, kept if reviewed. Confidence
scoring, twice: in Python and in TypeScript. Wards, villages, statistics and the lists of
most controllers are queries. The machine-learning matcher, the footprint model, projections and
the open-data builder are numerical or offline. `PROJECT.json` "components" names each with its
files and status, and "hazards" the places where they are hard to test.

## 2. How the models correspond to the code

### JobQueue

A worker is a program counter (`pc`) through `run`, `_reap`, `promote_due` and
`_process`; every Redis command and every `_track` is a step of it. `raw` is the
text it has in hand; two texts are equal exactly when job, attempts and error
are, and that is what LREM compares. `processing[w]` is the worker's list,
`alive` the set of heartbeat keys. `stage` is how far the producer of a job came:
`inserted` (row written), `pushed`, or `refused` (the push failed).

| code | action |
|---|---|
| `Queue.enqueue` / `enqueue` | `InsertRow`, `Push`, `PushRefused` |
| `reserve` | `Reserve`, `ReserveTimeout` |
| `_superseded` | `FindSuperseded`, `SkipSuperseded`, `Accept` |
| `_process` | `RejectUnknown`, `Begin`, `HandlerReturns`, `HandlerRaises`, `Finish`, `RetryLater`, `MarkQueued`, `MarkFailed`, `Bury` |
| `ack` in `finally` | `Ack`, `AckAndLeave` |
| `promote_due` | `TakeDelayed` (ZREM), `Repush` (LPUSH), `PromoteDone` |
| `recover_orphans`, `_reap` | `ReapDue`, `FindOrphans`, `RecoverOne`, `Drained`, `ScanDone`, `Relabel`, `SnapshotHeld`, `SweepRows` |
| heartbeat thread and key | `Heartbeat`, `Lapse`, `Expire` |
| SIGKILL; an exception `_process` does not catch | `Crash`; `Unwind` |

Time is abstract: a back-off may have elapsed or not, a heartbeat of a dead
worker expires at some point, a heartbeat of a live one may lapse (bounded by
`FaultBound`, as every fault is).

### Delivery

No lists, workers or rows: `box` holds the messages that will still be delivered (a job and
its attempts so far), `settled` the jobs that are done with, `lost` those whose last
message a worker took with it. `Discard` is the clause that matters: a message may go only when its
job is settled or lost, or a later attempt is in the box. `JobQueue!Mailbox` is the refinement mapping:
`box` is what is in `Copies` (lists, sorted set, and what a promoter has in hand), `settled` is `ran`,
`skipped`, `rejected` and what is buried, `lost` is the history variable `dropped`.

### WardRecord

Features, their sources, and the candidate pairs `match_ward.sql` returns are
constants; scores are abstracted to a choice: any maximal one-to-one selection
(`Selections`) may be what `select_one_to_one` keeps. `snapshot` holds what the
transaction in progress has read, so a statement that uses stale data does so in
the model. `Clusters` are the connected components `_UF` computes. Queued jobs of
the ward are a set, since `_superseded` coalesces those of one type.

`ReadDecided`, `ReadLabels`, `Rewrite` are `match_ward`; `ReadUnexamined`,
`InsertConflicts`, `ForeignKeyFails` are `detect_conflicts`; `ReadMatches`,
`Compose` are `assemble_ward`; `BeginValidation`, `Report` are `validate_ward`;
`Chain` is the push after the commit. `Confirm`, `Reject`, `DeleteMatch`,
`Rematch` are the statements of `labelMatch`, `Abandon` the request that dies
between them, `Resolve` is the verdict on a conflict. `Crash` rolls the
transaction back, frees the lock and delivers the job again.

### SourceLife

One source of one of four kinds: a parcel layer and imagery that carry a CRS, a
scanned sheet that does not, a scanned revenue record. Each handler is a chain of
`pc` values, one per transaction, upload or push, in the code's order: status
`ready` is published *before* the successors are queued, and the features are
committed before that. `Raise` is an exception at that step: whether the
handler records `failed` depends on which `try` the step is in (`Normalizing`,
`Georeferencing`, `Extracting`, `Uncaught`). `Crash` delivers the job again as it
was. API requests of two statements are two steps (`ApplyEnqueue`,
`DigitizeStatus`, `ExtractEnqueue`), between which they may die (`Abandon`).

*What the API does not check.* The pages offer OCR for a scanned revenue record only
(`SourcesPage.jsx:141`) and control points for a parked source only (`GeorefPage.jsx:211`). The
API knows neither rule: `enqueueOcr` (`sources.service.ts:99`) and `apply` (`georef.controller.ts:58`) ask
whether the source exists and no more. `Digitize` and `Apply` are therefore enabled for every source that is
registered, of any kind and in any status: a parcel layer may be sent to OCR, which cannot read it
(`Unreadable`: it raises at every attempt, whatever the bounds), a sheet without a CRS may become ready
by OCR, a source that nobody previewed may be georeferenced and parked when that fails.

Four variables are history. `due`: the successors that have not been queued since the
last insertion of features. `readied`: which handler set the status to ready last. `blind`: control
points were applied before there was a preview. `stranded`: the source (0) or the runs for which
the code itself leaves nothing that would bring them further; every place that adds
to it is commented. A 0 stays there: once a source has been stranded, what is handed over later is excused too.

### Topology

The ground is a row of cells and a parcel a set of them: enough for overlaps,
gaps, sizes and shared boundaries, which is all `_detect` decides on. The
geometry table is READ COMMITTED: `geom` is committed, `dirty` and `owner` are a
transaction's uncommitted version. The fix `UPDATE ... FROM k` reads the parcel
that stays at the start of the statement and then waits for the row it clips and
applies to its newest version: `ReadKept`, then `Write`. `FixTopology` is a run of the
worker in one transaction; `Accept`, `Begin`, `Refuse`, `Apply`, `Accepted`,
`Answer` are `resolve` and `acceptAll`, each issue a transaction; `Chain` queues
HARMONIZE_WARD. A statement that fails in `resolve` (the victim of a deadlock for one) is `Throws`: the
transaction of that issue is rolled back, `acceptAll` catches it, goes on with the rest of the batch and still
queues the match. A request that dies, or whose push is refused, is `Abort`; the worker's failures are `Fail`.
A finding with autoFix is fixed in any order within overlaps and gaps, the order
of the rows of a query without ORDER BY. Which neighbour a gap is merged into is one of
those with the longest common boundary (`Neighbours`), since the query breaks no ties.
`filled` is a history variable: how many issues there were when the fix of a gap last claimed each cell. So
is `crossed`, which is set when a fix is written although the parcel that stays is no longer what the statement has
read, or another transaction is changing it (`Crossing`), and stays set, also when one of the two is rolled back: `GroundIsKept`
excuses a little more than two opposite clips.

### Access, Field, Release, Changes, Portal

`call[r]` is a request: the stage of the guard it is in and what the guard knows of it;
`work[r]` is its handler: the next statement and what the earlier ones have read. Two
history fields say that an administrator existed when the request came (`adminThen`) and that the guard
made the profile of its user (`stranger`).

| code | action |
|---|---|
| `assertSafeAuthConfig`, `bootstrap` | `Boot` |
| `AuthGuard.canActivate` | `PassPublic`, `PassOpen` (bypass), `RejectToken`, `RoleFromSupabase`; local profiles: `RememberUser`, `LookForAdmin`, `Provision`; `Admit`, `Forbid` |
| `HttpExceptionFilter.catch` | `StatusOf`, `GuardFails`, `HandlerFails` |
| `VerifyService.updateStatus` | `Verify`, `RecordVerdict` |
| `TicketsService.create`, `.review` | `CreateTicket`; `Review`, `MailAuthor` |
| `AlertsService.generateAndStore`, `LlmService` | `ReadWardData`, `StoreAlert`; `AlertText`, `AlertScore`, `Severity`; `Explain`, `ChatReply` |
| `DroneController.ingestFlaggedTile` | `RegisterTile`, `StoreTile`, `QueueTile` |
| `ExportService.exportCsv` | `Csv`, `PutCsv` |
| `HarmonizedService.exportGeojson` | `Geojson`, `PutGeojson`, `RecordGeojson`, `Inline` |
| `enqueueGpkgExport`, EXPORT_HARMONIZED | `Gpkg`, `QueueGpkg`; `ReadRecords`, `UploadGpkg`, `MarkReady`, `ExportFails` |
| `readiness`, `summarizeReadiness` | `Readiness`, `Classify`, `ReadyShare` |
| `AdminService` | `UploadCsv`, `DbConfig`, `QueueWard` (one push of many), `SetRunning` |
| `OgcController.items`, `paging.ts` | `Items`, `CountMatches`, `ReadPage`; `Limit`, `Page`, `HasNext` |
| `ChangesController` | `RunChanges`, `QueueChanges`, `AuditRun`; `VerifyChange`, `AuditVerdict` |
| DETECT_CHANGES | `BeginDetection`, `Replace`, `DetectionFails` |
| `recover_orphans`, for the jobs of exports and change runs | `Redeliver`, `Repeat` |

Which roles a route asks for is a constant of `Access` and given, decorator by decorator, by `FieldRoles`,
`ReleaseRoles`, `ChangeRoles` and `OpenRoles`. `traffic` is the routes the clients of a
behaviour call: routes that share state are called together, so that two requests meet on
what they share and not on what they do not. A new version of a ward's records
(`Assemble`) and the passing of a minute are the environment. `Redeliver` delivers a job of an export or a change
run again, under way or finished: after the death of its worker from the start, after a lapse of its
heartbeat as a second copy that runs beside the first. The history variables `repeated` and `overlapped` name the
requests whose job this happened to, and those of them that had two deliveries at a time. A client of the OGC API (`crawl`)
follows the next links to the end, one request per page, two statements each.

### Demo, Store, Pages

The browser is modelled as data plus one interpreter. `Demo` has one definition per
endpoint: which rows its answer shows, which work it begins and who ends it
(`makeTracker`, a timer, nobody). `Store` has one definition per thunk (the endpoints it asks, in order)
and per reducer (whether `pending` turns it to loading, what an answer puts in, what a refusal
leaves, which lists it marks). `Pages` has one definition per component: what it loads once, for each
ward, for the picked row; what it polls and while what; its buttons, when they are
disabled and what follows; its timers and whether a clean-up clears them. Payloads are
reduced to two things the code decides on: *of what* they are (a ward, a row, everything) and whether
they show unfinished work.

The steps: `SelectWard`, `Open`, `Pick`, `Close`, `Operate` are the user's; `Serve` and `Refuse`
the server's; `Deliver` takes any call that has been answered, in any order; `Polls`, `Ticks`, `Fades`,
`TimerFires` are timers; `WorkEnds` is the work on the server. Calls in flight are a
bag: two equal calls are two calls.

## 3. What the runs check

### Runs that pass

* **`queue_delivery`** - two jobs of one ward, two workers, one crash, one
  refused push. `NothingElseIsLost`: a pushed job has run, was skipped, rejected
  or buried, or a copy of it will be delivered. `OneJobPerWorker`: LREM always
  removes the job it means. `OneLiveCopy`: without a crash or theft there are
  never two deliveries of a job. `SkipsAreCovered`: a job skipped as superseded
  leaves a newer one that runs or will run, unless the push of that one was refused.
* **`queue_takeover`** - the same with a heartbeat that lapses under a live
  worker, whose job is then taken and run by another, an exception that leaves
  `_process`, a refused push, a lost row write and a job of unknown type.
  `AckIsSafe`: when a worker is about to acknowledge, the job is settled or its
  next attempt is somewhere in Redis, whatever the thief did meanwhile.
  `DeliverySpec`: the queue implements `Delivery`.
* **`queue_progress`** - under fairness, one crash and one lost row write:
  `EveryJobSettles`, `NoRowRunsForever`.
* **`ward_quiet`** - two workers, two decisions, one extra request, one crash.
  When the ward is quiet: `RejectedIsGone`, `ConflictsAreFound`,
  `RecordsFollowMatches`, `CountsAreRight`; at all times `ClashesAreDecided` (two
  matches share a feature only where an officer decided one of them); under
  fairness `ComesToRest`. The quiet properties except those of the clashes
  assume that no rejecting request died halfway (`broken`): that is a known window of
  three statements without a transaction.
* **`source_life`** - all four kinds, two workers, up to three client requests in any state of the source,
  one exception or one crash. `ReadyIsChained`: in a quiet source that normalization made ready, every
  successor has been queued since the last insertion of features. `SheetsAreLocated`: what normalization made ready
  has a CRS; what is parked has a preview, unless control points were applied before there was one. Both are
  restricted to what the code keeps to: OCR makes any source ready that it can read, with or without a
  CRS, and also one whose normalization was buried between its insertion and its successors. `RunsAreTruthful`: a
  run that is done names a source with its features and successors.
* **`source_end`** - one worker, two faults (two exceptions, enough to bury a job, or one and a
  crash), under fairness: `HandoversEnd`, that is `ProcessingEnds` and `RunsEnd`, except
  where `stranded` says why not.
* **`topo_fixes`** - two workers with and without autoFix, one officer with two
  decisions, one fault, three fabrics. `GroundIsKept`: no claimed ground becomes
  unclaimed, unless two transactions clipped the same pair in opposite directions
  at the same time (`crossed`, see section 2). `AcceptedIsHealed`: once the fix of an overlap is
  applied its two parcels never share ground again, except what the fix of a gap claimed
  after that overlap was found. `AutoFixHeals`: an
  automatic run leaves no overlap and no gap, if nobody changed the fabric
  meanwhile, although all is detected before the first fix. `FixesAreMatched`:
  what was fixed is matched again, also when issues of a batch are refused or throw,
  unless a fault strikes between commit and push (`severed`).
* **`portal_api`** - two requests of two users, any two handlers that share state, the worker,
  one failing statement, one repeated delivery, from seventeen starts: a deployment that is
  empty or has an administrator and strangers; an administrator and an official on each group of routes; an
  administrator who exports a GeoPackage twice, or runs and verifies change detections; the four
  configurations, one of which must refuse to boot. `StrangersBecomeCitizens`: the guard looks for an administrator in one statement and
  inserts in another, and still nobody who came after there was one becomes more than
  a citizen. `HandlersAreEntitled`: in a handler, the role is that of the row and one the
  route allows, also when two first requests of one user both insert it.
  `PapersAgree`: the two copies of a verdict, and a ticket and what its author
  was mailed, part only if requests overlapped or one broke off. `LinksServeWhatWasAsked`,
  `ReadyRowsAreTrue`: links and rows lead to the ward and records they promise, unless another
  export was built in the same minute; failed attempts and new records do not matter. A repeated delivery does:
  it uploads newer records under the key of a row that says ready, and only then updates the count
  (`assemble.py:152`). TLC reaches that state, and without either exception the property is violated; what it promises is
  that file and count agree again when the repeat is over, unless two deliveries ran side by side, whose
  uploads and updates may end in different orders.
  `CrawlIsComplete`: following the links gives every record once, unless the ward was
  assembled meanwhile. `VerdictsSurvive`: an officer's verdict on a change stays through other runs,
  failed attempts and repeats of other jobs; only a second delivery of its own run deletes it. `AccessSpec`: all this
  implements `Access`. `ErrandsEnd`: exports with every delivery of their jobs, runs and crawls that were begun end.
* **`client`** - every page, from 24 starts that each watch the slots whose interplay they are
  about; up to five steps of the user, two calls of a thunk at once, one refusal. `AnswersAreWanted`:
  villages drawn are of the ward chosen, the property shown is the row selected, however late
  answers come. `OneAtATime`: decisions on a match, matching runs, configuration changes and
  transformations are not sent twice at a time, although panels close and open while one is under
  way. `PollsCatchUp`: no page shows finished work as unfinished for ever.

### Runs that show a disagreement

Each checks one statement a comment or message of the repository makes, and finds
a behaviour of the code that contradicts it.

| run | statement | behaviour |
|---|---|---|
| `ward_labels` | "a confirmed pair is always kept" (`0020_match_labels.sql:9`) | a pair confirmed after `match_ward` read the labels is displaced, and nothing matches the ward again |
| `topo_reopen` | "an applied fix cannot be reopened" (`topology.service.ts:62`) | accept, ignore, reopen |
| `client_ward` | "every page then shows only that ward's data" (`AppShell.jsx:36`) | on the overview, the list of the old ward is answered after that of the new one, replaces it, and nothing asks again |

Others were met while modelling. They are not runs of their own, because the models contain them as
named exceptions of the properties above, or leave them out:

* *Queue.* `promote_due` takes a retry out of the sorted set before it pushes it (`queue_client.py:90`, against "Delivery
  is at-least-once", line 6), and `finally` acknowledges also when `_process` ended without an outcome
  (`main.py:161`): these are the two windows `dropped` names. A refused push
  leaves a queued row that supersedes older jobs of the ward (exempted in `SkipsAreCovered`). The late `queued` a reaper
  writes may leave a settled job's row queued (`main.py:101`), and the sweep compares with a
  snapshot of the held jobs taken before its UPDATE (`main.py:105`).
* *Ward.* A conflict set back to `pending` does not change the stored `conflict_count`, so
  readiness counts the record as free of conflicts (`conflicts.service.ts:34`).
* *Sources.* A failure between the commit of the features and the status makes the retry insert them
  again (`adapters.py:179`, against line 174). The API takes OCR and control points for any source (section 2). A
  normalization of the original key that is delivered again after
  GEOREFERENCE inserts pixel coordinates beside the georeferenced ones.
* *Topology.* A worker that dies after the commit of FIX_TOPOLOGY is retried, finds nothing to fix and
  queues no matching (`severed`).
* *API.* Two first users at once both become administrators (`auth.guard.ts:82`). `pipeline_status` is set to
  running and never reset (`admin.service.ts:33`). CSV keys name no ward (`export.service.ts:23`), GeoJSON keys ward and
  minute (`harmonized.service.ts:91`). 1999 ready records of 2000 show as 100.0 %. The prompt of
  an alert calls `toFixed` on the text PostgreSQL returns for a numeric, inside the `try`: every ward with
  detections gets the template (`AlertText`). Of two reviews of a ticket the older one's mail may go last.
* *Browser.* A late answer about a conflict or match leaves the loader of its panel for ever. The
  timers of `RecordsPage.jsx:128` and `OverviewPage.jsx:143` are not cleared and reload the ward they were
  set for. The preview of another sheet is taken (`previewGeoref`). `renews` of `ConflictDetail` resets
  the status of a decision under way, so two may fly (which is why `OneAtATime` does not name `resolveConflict`). A list of
  properties that comes late drops the row selected. `uploadSource` counts as done although `/complete` was
  refused (`sourcesSlice.js:116`).

### Bounds

| bound | value | why it is enough |
|---|---|---|
| jobs, workers | 2, 2 | coalescing needs an older and a newer job; theft, recovery and promotion need one other worker. every safety property of the queue, the ward, a source, a fabric, the API and the browser is proved without its bounds |
| `MaxAttempts` | 2 | one retry and one burial; the code's 3 adds a second retry like the first |
| faults | 0 or 1 of each kind; `MaxFaults` in all: 1 in `source_life`, 2 in `source_end` | each hazard is one fault in a bad place; two are needed to bury a job. (`source_life` also passes with 2, at 17 million states, in more time than a routine run should take.) |
| ward | 4 features, 3 candidates | two pairs that compete for a feature, and a pair that joins their cluster |
| decisions, requests | 2, 1 | a decision before and one during a run; a job that overlaps the chain |
| client requests for a source | 3 (`Thrice`; 2 for imagery, and in `source_end` for records) | complete, georeference and digitize in any order, or one of them twice and another |
| fabrics | 3 parcels on at most 6 cells | nested (a parcel vanishes), equal sizes (the tie of `Smaller`), a chain (a parcel is clipped and clips); each with a gap |
| requests, users of the API | 2, 2 | two statements of one actor around one of another; three requests add a second interloper |
| routes called together | 1 to 3 of the 19 | the routes that write a table in common; `traffic` names them |
| failed statements, redeliveries | 1, 1 | each hazard is one of them in a bad place; one of each may meet |
| minutes, new versions | 1, 1 | two exports in one minute or in two; the records change once under an export or a crawl |
| records of a ward, page limits | 2 then 3; default 3, at most 4, asked -1, 0, 2 | a last page that is full, and one that is not; a limit below, at and above the number of records |
| ward sizes for readiness | 0, 1, 1999, 2000 | the empty ward, and the rounding at the top |
| browser: wards, rows | 2 and none chosen, one row in each | leave and come back; a row of another ward |
| browser: steps, calls, refusals | 2 to 5, 2 of a thunk, 1 | an answer overtaken by a newer one and a refused one; more of the same reorder likewise |
| browser: repetitions of a timer | 2 for the code's 6 or 7 | one that repeats and one that is the last |
| topology runs, decisions | 2, 2 | two runs overlap, or an issue of the first is accepted during the second; ignore and reopen |

Workers are interchangeable, so the runs of the queue, of a source and of a fabric that check no
liveness reduce by their symmetry; runs with fairness do not. Deadlock is checked in the
queue. The ward, a source, a fabric, the requests of the API and the browser come to rest when the
bounds are used up, so their runs do not check it; `ComesToRest`, `HandoversEnd`,
`ErrandsEnd` and `PollsCatchUp` say what should be reached there.

The largest runs: `topo_fixes` 3.1 million distinct states, `source_life` 3.0 million, `queue_takeover` 1.9 million, `source_end` 1.9 million,
`client` 450 thousand, `portal_api` 365 thousand (three minutes, for its liveness).

### Fairness

*Queue.* `railway.json` restarts workers always, so `Start` is weakly fair; a
worker that is up takes its next step (`Work`), its heartbeat thread beats, the
key of a dead one expires by its TTL, a row ages. `ReapDue`, `FindOrphans` and
`TakeDelayed` are enabled again and again rather than always - the loop passes by
them - and strongly fair: the reaper is due by the clock, SCAN returns every key
that is there throughout, and a back-off elapses. Crashes, lapses, refused pushes
are never required and are bounded.
*Ward.* Workers take steps; a request that has begun goes on. No officer has to
decide anything.
*Source.* Workers take steps; the API goes on with its second statement. No
client has to call anything, so `ProcessingEnds` speaks of sources that were handed
over.
*API.* A request that was begun goes on (Node runs the next continuation of a promise that is
settled; a statement that fails is a step too), the worker takes a queued job (`EveryJobSettles`), the
client of the OGC API follows the next link. No request has to come, no minute to pass.
*Browser.* Each thunk's calls are answered and answers taken, timers fire, intervals tick, the server's
work ends. The user need do nothing, and the one refusal is never required. Work that lost its job
(`Demo!WorkLost`) never ends, and `PollsCatchUp` asks nothing of pages that show it.
*Topology.* No liveness is claimed: two fixes may wait for each other and only
PostgreSQL's deadlock detection ends it.

## 4. What is proved

`JobQueue_proofs` proves six theorems for any sets of jobs and workers, any
number of attempts and any bounds on the faults, from the assumptions named in
`JobQueue` (`JobQueueAssumption`: at least one attempt is allowed, coalesced types are
known, the model values are distinct; `NoEntryAssumption`).

* `TypeCorrect == Spec => []TypeOK`. `TypeOK` alone is not inductive: `RetryLater`
  queues the job in hand with one attempt more and must find that there is room for
  it, and `Bury` that there is none. `Types == TypeOK /\ HandOK` is, where `HandOK` says, phase by phase, which raw job and
  how many attempts a worker has in hand.
* `OneJobHeld == Spec => []OneJobPerWorker`. Inductive together with `Types`.
  The point is what the *other* workers do to a list: they may take its one
  entry while the owner works, and LREM must then remove nothing.
* `AckLosesNothing == Spec => []AckIsSafe`. Inductive with `Types`. It rests on
  `StepKeepsCopies` - a step forgets nothing that was settled, and a copy stays, is
  dropped in one of the two named windows, or is the one a worker acknowledges -
  from which `SafeStable` shows that what is `Safe` stays
  so, and on `ClosingStep`, which shows that a worker enters a closing phase
  only when its job is safe.
* `NoJobIsLost == Spec => []NothingElseIsLost`. Inductive with `Types` and
  `AckIsSafe`: an acknowledgement removes a copy, and only `AckIsSafe` says that
  another, or a settlement, remains.

* `SkipsCovered == Spec => []SkipsAreCovered`. `Rows`: no row is younger than the clock, and a
  row once written keeps its age (`Aging`). `Outdated`: whatever is skipped, or about to be, is superseded by a
  row, queued when the worker looked, whatever became of it since. `Sent`: whatever is on a list of Redis or in a hand was
  pushed. Of the jobs that supersede a skipped one the youngest is not skipped itself
  (`LastIsNotSkipped`, from a greatest element of a bounded set of numbers), nor rejected
  (`Unknowns`), and `NothingElseIsLost` says where it is.
* `OneCopyLives == Spec => []OneLiveCopy`. `Solitary`: while nothing disturbs the workers, none is dead or leaving, and
  `OnePlace` holds: a job is at one index of the queue, or parked, or with one worker. A job moves in
  five ways only, one lemma each (`PlacesStay`, `PlaceQueued`, `PlaceTaken`, `PlacePromoted`,
  `PlaceParked`). `Sent` makes a new job differ from all of them, and `OneJobPerWorker` shows that there is
  nothing to recover from a worker that has not died.

The lemmas on sequences (`RemoveFirstProperties`, `PushSet`, `AppendSet`, `SequenceSets`,
`SequenceHeadTail`) say what LREM, LPUSH and BLMOVE do to the set of entries.

`WardRecord_proofs` proves the type invariant and the five safety properties of
`ward_quiet` for any finite set of features, any candidates, any number of workers
and any bounds, from `WardRecordAssumption` (a candidate joins two features of
different sources; the feature set is finite, so that conflicts can be counted).

The properties speak of a quiet ward, which a step may reach from nearly any state,
so none of them is inductive. Each follows from an invariant of the form *the
wrong is not there, or what rights it is still due*: `DueMatching`,
`DueDetection`, `DueAssembly` say that a job is queued or a worker is on its way to
queue it, and a quiet ward has nothing due (`QuietIsDone`). `IInv` is their conjunction:

* `OneTransaction`: a worker is inside a transaction exactly while it holds the
  lock. Hence (`Alone`) no other worker's statement touches `snapshot`.
* `ConflictsOfMatches`: the foreign key.
* `DecisionsAreTouched`: what the transaction has read as locked, officers have
  decided on. With the selection one-to-one it gives `ClashesDecided`.
* `LabelsAreRead`, `VerdictsOverrule`, `RejectionsArePending`: a rejected match has its
  POST in progress or a job queued; or the rewrite in progress has read the label, and
  nothing that locks the match; a verdict older than the rejection is on a
  match the POST is about to delete. They give `RejectedStayOut`.
* `ConflictsArePending`: a match without its conflict is due to be examined, or is in the
  rows `detect_conflicts` has read. It gives `ConflictsFound`.
* `RecordsArePending`: an assembly is due, or the one in progress has read the
  matches as they are, or the records are theirs. It gives `RecordsFollow`; the second case is
  why an assembly that read older matches is never the last.
* `CountsArePending`: likewise for the counts, until somebody decides. It gives
  `CountsRight`.

`InvariantInitially`, `InvariantStep` and one lemma per conjunct, with one step per action,
establish it. TLC checked the conjuncts on the instance of `ward_quiet` first.

`SourceLife_proofs` proves `TypeCorrect`, `SheetsLocated`, `ReadyChained` and `RunsTruthful` for any kinds
of source, any number of workers, attempts, client requests, failures and crashes (`SourceLifeAssumption`). As
in the ward, what should hold in the end is turned into *what is missing has somebody on his way to supply it*:

* `Typing` and `Handed`: a worker inside a handler holds a job of that handler's type, and a job
  of the kind of its source (`Possible`).
* `Placed`, `Handed` and `SheetsAreLocated`: a file is inserted only when it is located, a worker parks a source only after its preview, and
  where there is a georeferencing, queued or at work, whose failure parks the source too, there is a preview or `blind` is set. They are inductive together.
* `Chained`: in a source that normalization made ready and that is not stranded, each successor in `due` has a NORMALIZE_SOURCE ahead of it, queued or
  at a step that still pushes it (`Ahead`). A quiet source has nothing ahead, so nothing due.
* `OneJobPerRun`: of an extraction run there is one job, in the queue, in one hand, or
  promised by one worker or request that is about to queue it. Without it a second worker could redo a run that is
  `done` and leave it with half a derived source.
* `Deriving` and `Concluded`: what a handler has derived so far, and that a run which is done names a
  filled source whose successors are queued or attended to.

`Topology_proofs` proves `TypeCorrect`, `FixesMatched`, `AcceptedHealed` and the action properties
`GroundKept` and `AutoFixHealed` for any finite set of parcels on any number of cells, any workers, officers, runs and faults
(`TopologyAssumption`). A row has a committed version and perhaps one transaction's uncommitted
one, transactions commit in any order, and some never do. An invariant on the committed rows
alone is not inductive: a commit would have to restore it at one blow. The invariants therefore quantify
over every set `T` of transactions that might commit: `After(T, f)` is the parcel `f` then, `Ground(T)` all of them.

* `Growing`: the more transactions commit, the more ground is claimed, as long as no pair clipped each other at the same
  time (`crossed`). `GroundKept` follows, since a step moves from one `T` to another or changes one uncommitted row.
* `Covering`: a transaction that has read the parcel which stays and waits for the row it
  clips has in `kept` what that parcel will be, whoever commits meanwhile; the exception is what a gap's fix fills.
* `Parting`, `Parted`: a clip that is written, or committed, has parted its two parcels (`Apart`), under
  every `T`. `Additions` says that transactions add only gaps, so nothing later undoes it.
* `Attended`: whoever fixed something is on his way to queue HARMONIZE_WARD.
* `AutoFixHealed` rests on `Healing`: of the fabric as an undisturbed run sees it and the findings it has still to
  fix, every two parcels that overlap have a clip among them (`Listed`), what is still to be filled is unclaimed and
  claimed by one finding only (`Vacant`), and with it the fabric has no gap (`Whole`). `FixHeals`, a lemma about
  sets alone, shows that any one fix keeps the three, so the order of the fixes does not matter; `Bystanders` shows
  that the steps of others leave a run alone or count as a disturbance.

A stronger form of `AcceptedIsHealed`, without the exception for gaps, is not true of every fabric: the fix of
a gap may give one of the two parcels a cell that the other has come to claim. The property names that
exception, and `filled` is there to state it.

`Delivery_proofs` proves `QueueImplementsDelivery == Spec => DeliverySpec`: for any jobs, workers and bounds
the queue implements the box of messages. Nothing of Redis is left in the statement, so the proof first
brings the actions of the queue to six *shapes* (`Shaped`): a step leaves all copies where they are or moves them
between lists (`Idles`), accepts a job, settles the one in hand, adds its next attempt, discards a copy while closing, or
loses one. `EveryStepIsShaped` has one case per action. `StepDelivers` then maps each shape
to a step of `Delivery` or a stutter; the one that needs more than its shape is `Discards`: that
the discarded message is settled or followed by a later attempt is `AckIsSafe` (`AckedIsFollowed`), and
that it was in the box at all needs `Types` and `AllPushed` (what is in Redis was pushed).

`Access_proofs` proves `TypeCorrect`, `Strangers` and `Entitled` for any requests, users, routes, roles and
starts, from `AccessAssumption`. `AccessInv` adds to the types what the guard may still
rely on at each stage. It rests on two facts about `profiles` that every step keeps: a row never vanishes and
its role never changes, so that an administrator once seen stays one (`StrangerOK`: who came
when there was one also finds one in `LookForAdmin`), and the role a request took from its row is that of the row later
(`StageOK`). `OneRequestMoves` says that a step which moves one request and no row need only
be examined for that request; `ProvisionKeeps` is the step that writes a row, and has to be examined
for all.

`Portal_proofs` proves `ApiImplementsAccess == PortalSpec => AccessSpec`: each handler, failing statement, job, page of a crawl and
environment step is a step of `Access` or leaves its variables alone (`Quiet`; one lemma per module, one case per
action). `ApiStrangers` and `ApiEntitled` follow: what is proved of the guard holds of the whole API.

The other safety properties of the API are six theorems of the same module (`PortalTyped`, `PapersAgreed`,
`VerdictsKept`, `LinksServed`, `RowsTrue`, `CrawlCompletes`), for any requests, users, wards, versions, page limits and bounds,
from the assumptions of `Access`, `Field`, `Release`, `Changes` and `Portal` (the constants have their types, model values are
distinct, limits are positive, `PortalAssumption` gives the routes their decorators). All follow from one invariant,

    IInv == Base /\ JobsOK /\ VerifyingOK /\ TicketsOK /\ RunsOK /\ VotesOK
            /\ BuildsOK /\ ShelfOK /\ ExportsOK /\ CrawlOK

one conjunct per table. With nineteen routes, three jobs and four modules, a proof by action and conjunct would
not end. Three facts cut it down: `Only(r)`, a handler acts for its own request; `Footprint(r)`, which tables a
route may write; and `Kept(s, routes)`, the request `s` has not moved as far as the handlers of `routes`
are concerned. Each conjunct then has a lemma that it stays when its table and its requests do (`TicketsStay`), and one for the few
handlers that write it (`TicketsAct`); `StepState` puts them together. What they rest on:

* `VerifyingOK`, `TicketsOK`: as long as no two requests of a route overlapped and none broke off, the one that stands
  between its statements has written the first copy last.
* `RunsOK`, `VotesOK`: a change run has one job until that job is delivered again (`repeated`), so nothing replaces its
  detections once there is a verdict on them.
* `BuildsOK`, `ShelfOK`: a file that was put is there with its ward and version, or another export of the same minute has
  replaced it; `OneKey` says that two builds share a key only in one minute.
* `ExportsOK`: the row and the stored object of an export, phase by phase of its job. An export that never had
  two deliveries at a time has one job, which finds in storage what it has put there; one that was never repeated
  has a ready row only when that job has finished. `RepeatKeeps` is the step that delivers again.
* `CrawlOK`: what the client has got is the prefix of the table up to its offset. That the next page
  prolongs the prefix is `ConcatAdjacentSubSeq`; that it does not stop early is the arithmetic of `HasNext`.

`Pages_proofs` proves `ClientTyped`, `AnswersWanted` and `DecisionsAlone` for any wards, rows, starts, bounds and
refusals (`DemoAssumption`, `PagesAssumption`: every start names a route, a timer fires at least once). The model is data
and one interpreter, and so is the proof. First the data: `RootReducerSound` says of each of the reducers, and
`ComponentsFit` of each of the components, what the interpreter relies on (`Sound`: only two slots filter their answers, and
they do; a decision's slot belongs to it alone and turns to loading at once. `Fits`: pages read by reading, clear no
decision's slot, let only messages of finished operations fade, and disable the button of a decision while it waits). A
change to a slice or a page breaks its own step there. Then the interpreter: what each reducer does to a cell
(`BegunShape`, `TakenShape`, ...), what the bag of calls becomes (`BagJoined`, `BagLeft`), and
`ReadStep`, which leaves of a step that only reads what it does to the ward, the row and the cleared slots. The invariant is

    ClientInv == ClientFits /\ VillagesOf(store, ward)
                 /\ (page = "alerts" => PropertyOf(store, pick)) /\ Alone(calls, store)

* `ClientFits`: the types, and what a call will do when it is answered (`CallFits`): the follow-up it was sent
  with is one its component has, and an answered call of a filtering slot brings what it was asked for.
* `VillagesOf`, `PropertyOf`: the slot holds nothing, or what is wanted now. A late answer is taken only for the
  ward chosen or the row held; what changes the ward or the row empties or refills the slot in the same step.
  Nothing else may close the panel of an alert (`DeliverInv`): a rejected match closes panels on its own page only.
* `Alone`: a decision in flight is the only one of its kind, once in the bag, and its slot says loading. Uniqueness
  is what keeps it true when it is answered: no other call is left for which the slot would then be wrong.

Only model-checked: the liveness properties `EveryJobSettles`, `NoRowRunsForever`, `ComesToRest`, `HandoversEnd`,
`ErrandsEnd` and `PollsCatchUp`: fairness and ENABLED are out of the prover's reach.

## 5. What is not modelled, and why

*In the queue*: text that is not JSON (no producer writes any); jobs without a
`jobId`; the column `attempts` and the error text beyond its identity; the length of
back-offs; `held_job_ids` reads the lists one by one, the model in one step; the
dead-letter list is a set.
*In the ward*: scores, geometry, provenance and the attributes of the golden
record; of the validation report only the drift findings; one rejecting request per
pair at a time; a job that is queued is delivered.
*In the source*: utility and survey layers (no topology job); parsing, reprojection and
the fit of control points; a failure of the statement that records a failure; the
fields of the pages of a record are inserted in one step; a browser that never
calls `/complete` (`sourcesSlice.js:116` swallows the failure) leaves the source in
processing, which is why `ProcessingEnds` asks for `handed`.
*In the API*: rate limits, CORS, validation pipes and logging; lists and other queries; the upload
link of a ticket's photo; bounding boxes and serialisation in the OGC API; the refresh of a token; which
structures a change run finds (one per run stands for them, so that two overlapping deliveries which each insert
theirs, neither seeing the other's, leave the same set as one); `Redeliver` stands for what `JobQueue` has in
detail, for the jobs of exports and change runs, which are the ones executed here; role names in `profiles` are edited nowhere in the code, so they do not change.
`Readiness` with its rounded share, `AlertScore` and the texts of `Explain` have no other state to agree
with: they are there because their handlers are, and no property depends on their figures.
*In the browser*: markup, maps, charts, filters, what is typed; thunks no page dispatches; what the
text of a row is; reloading the page; that the real API answers like the demo server is not claimed - pages are
modelled over what they are developed against.
*In topology*: repeated vertices and the log of geometries repaired at ingestion,
whose fixes involve no other parcel; thresholds and units; the audit log. On the
line no parcel surrounds another gap, so shapes that need two dimensions are out.
That fixes only ever reduce overlaps is not claimed, because it is false: the
issue of a gap that was ignored during a re-run and reopened after it may be
accepted when the ground belongs to another parcel already, and `merge_into` then
creates an overlap, which the next run finds.
*Altogether*: the parts listed as `not_modelled` in `PROJECT.json`: rendering, file
formats, external services, numerical code and read-only queries.

Schema mapping, the matcher, confidence scores, coordinate systems, image processing: their
results are sums, distances and regressions in floating point, for which neither tool has
arithmetic. Where such a result decides something, the models choose it freely (`Selections`).

## 6. Plan

Done, in this order: `JobQueue` with its proofs, `WardRecord` with its proofs, `SourceLife`,
`Topology`, `Delivery` and its refinement, `Access` with its proofs, `Field`, `Release` and `Changes` composed in
`Portal` and its refinement, `Demo`, `Store` and `Pages`; then the proofs of every safety property of a passing run.

Left, the most useful first:

1. A composition of `WardRecord` with `Delivery`, in place of its own delivery.
2. `PollsCatchUp` over an API whose jobs may be buried, instead of the demo server.
