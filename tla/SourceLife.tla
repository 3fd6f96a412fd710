----------------------------- MODULE SourceLife -----------------------------
(***************************************************************************)
(* The life of one data source: registered and uploaded through            *)
(* backend/src/sources, parked for control points or for OCR, normalized   *)
(* by worker/src/ingest/adapters.py, georeferenced by worker/src/georef,   *)
(* digitized by worker/src/ocr, and, if it is imagery, the parent of the   *)
(* sources that worker/src/extract derives from it.                        *)
(*                                                                         *)
(* A handler runs as a sequence of transactions and uploads, each a step;  *)
(* between two of them it may raise, which some of the handlers record in  *)
(* the status of the source, or its worker may die.  That a queued job is  *)
(* delivered, perhaps twice, is JobQueue's concern.                        *)
(***************************************************************************)
EXTENDS Integers, Sequences

CONSTANTS
  Kind,         \* the kinds of source that are considered
  Worker,
  NoJob,        \* a worker that is idle
  MaxAttempts,  \* MAX_ATTEMPTS
  MaxRequests,  \* how often clients call the API for a source of each kind
  MaxFailures,  \* how often a handler raises
  MaxRuns,      \* how many runs RunsEnd follows
  MaxCrashes,   \* how often a worker or an API request dies
  MaxFaults     \* how often either happens

(* A parcel layer and a GeoTIFF that carry a CRS; a scanned sheet of parcels *)
(* and a scanned revenue record, which carry none.                           *)
AnyKind == {"parcels", "imagery", "sheet", "record"}

Status == {"processing", "pending_ocr", "needs_georef", "ready", "failed"}
File == {"upload", "geotiff"}
JobType == {"NORMALIZE_SOURCE", "GEOREFERENCE", "DIGITIZE_SOURCE", "EXTRACT_FEATURES"}

ASSUME SourceLifeAssumption ==
  /\ Kind \subseteq AnyKind
  /\ NoJob \notin [id : Nat, type : JobType, key : File, run : Nat, attempts : Nat]
  /\ MaxAttempts \in Nat \ {0}
  /\ MaxRequests \in [Kind -> Nat]
  /\ MaxFailures \in Nat /\ MaxCrashes \in Nat /\ MaxFaults \in Nat /\ MaxRuns \in Nat

VARIABLES
  kind,         \* what was uploaded
  status,       \* data_sources.status, "none" before registration
  handed,       \* a client has asked for the source to be processed
  key,          \* data_sources.r2_key: the upload, or the GeoTIFF made of it
  located,      \* data_sources.crs is set, or the file has one
  preview,      \* metadata.preview_key is set
  readied,      \* history: the handler that set the status to ready last
  blind,        \* history: control points were applied before any preview
  runs,         \* extraction_runs of the source: status and result
  derived,      \* the sources extraction made: filled, and what is due to them
  due,          \* history: successors not queued since the last insertion
  jobs,         \* the queued jobs
  made,         \* the number of jobs queued so far: their ids
  pc, job,      \* where each worker stands, and its job
  mine,         \* the derived source the handler has made
  halfway,      \* API requests between their two statements
  requests, failures, crashes,
  stranded      \* history: 0, or a run, which no job will bring further

row == <<kind, handed, key, located, preview, blind>>
source == <<row, status, readied>>
extraction == <<runs, derived>>
queued == <<jobs, made>>
hands == <<job, mine>>
local == <<pc, hands>>
bounds == <<requests, failures, crashes>>
outside == <<halfway, bounds, stranded>>
vars == <<source, extraction, due, queued, local, outside>>

Job == [id : Nat, type : JobType, key : File, run : Nat, attempts : 0 .. MaxAttempts - 1]

(* The steps of the handlers, by what an exception there leaves behind. *)
Normalizing   == {"insert", "publish", "chain topology", "chain match", "chain run",
                  "chain extract", "preview", "park"}
Georeferencing == {"warp", "locate", "chain normalize"}
Extracting    == {"derive", "fill", "conclude", "derived topology", "derived match"}
Uncaught      == {"fetch", "run", "read", "digitized", "chain mapping"}

SourceOK ==
  /\ kind \in Kind
  /\ status \in Status \cup {"none"}
  /\ handed \in BOOLEAN
  /\ key \in File
  /\ located \in BOOLEAN
  /\ preview \in BOOLEAN
  /\ readied \in {"nobody", "normalize", "digitize"}
  /\ blind \in BOOLEAN

ExtractionOK ==
  /\ runs \in Seq([status : {"queued", "running", "done", "failed"}, result : Nat])
  /\ derived \in Seq([filled : BOOLEAN, due : SUBSET {"topology", "match"}])
  /\ due \in SUBSET {"topology", "match", "extract"}

QueueOK ==
  /\ jobs \in SUBSET Job
  /\ made \in Nat
  /\ halfway \in SUBSET [request : {"apply", "digitize", "extract"}, run : Nat]

HandsOK ==
  /\ pc \in [Worker -> {"idle", "return"} \cup Normalizing \cup Georeferencing \cup Extracting \cup Uncaught]
  /\ job \in [Worker -> Job \cup {NoJob}]
  /\ mine \in [Worker -> Nat]

BoundsOK ==
  /\ requests \in Nat /\ failures \in Nat /\ crashes \in Nat
  /\ stranded \in SUBSET Nat

TypeOK == SourceOK /\ ExtractionOK /\ QueueOK /\ HandsOK /\ BoundsOK

Init ==
  /\ kind \in Kind
  /\ status = "none"
  /\ handed = FALSE
  /\ key = "upload"
  /\ located = (kind \in {"parcels", "imagery"})
  /\ preview = FALSE
  /\ readied = "nobody"
  /\ blind = FALSE
  /\ runs = <<>>
  /\ derived = <<>>
  /\ due = {}
  /\ jobs = {}
  /\ made = 0
  /\ pc = [w \in Worker |-> "idle"]
  /\ job = [w \in Worker |-> NoJob]
  /\ mine = [w \in Worker |-> 0]
  /\ halfway = {}
  /\ requests = 0 /\ failures = 0 /\ crashes = 0
  /\ stranded = {}

NewRun == [status |-> "queued", result |-> 0]

Half(request, run) == [request |-> request, run |-> run]

Enqueue(type, file, run) ==
  /\ made' = made + 1
  /\ jobs' = jobs \cup {[id |-> made + 1, type |-> type, key |-> file, run |-> run, attempts |-> 0]}

-----------------------------------------------------------------------------
(* The API, each statement of a request on its own. *)

Ask == requests < MaxRequests[kind] /\ requests' = requests + 1 /\ UNCHANGED <<failures, crashes>>

(* registerAndPresign, after which the client uploads the file. *)
Register ==
  /\ status = "none"
  /\ status' = IF kind = "record" THEN "pending_ocr" ELSE "processing"
  /\ UNCHANGED <<row, readied, extraction, due, queued, local, outside>>

(* completeUpload, which answers without a job for a scanned record; nothing *)
(* keeps a client from calling it again.                                     *)
Complete ==
  /\ status # "none"
  /\ kind # "record"
  /\ Ask
  /\ handed' = TRUE
  /\ Enqueue("NORMALIZE_SOURCE", key, 0)
  /\ UNCHANGED <<kind, status, readied, key, located, preview, blind, extraction, due, local,
                 halfway, stranded>>

(* apply: the page offers it for a source that is parked, the controller    *)
(* takes it for any source that exists.                                     *)
Apply ==
  /\ status # "none"
  /\ Half("apply", 0) \notin halfway
  /\ Ask
  /\ status' = "processing"
  /\ handed' = TRUE
  /\ blind' = (blind \/ ~ preview)
  /\ halfway' = halfway \cup {Half("apply", 0)}
  /\ UNCHANGED <<kind, key, located, preview, readied, extraction, due, queued, local, stranded>>

ApplyEnqueue ==
  /\ Half("apply", 0) \in halfway
  /\ halfway' = halfway \ {Half("apply", 0)}
  /\ Enqueue("GEOREFERENCE", "upload", 0)
  /\ UNCHANGED <<source, extraction, due, local, bounds, stranded>>

(* enqueueOcr: the job first; the page offers it for a scanned record, the  *)
(* service takes it for any source that exists; ...                         *)
Digitize ==
  /\ status # "none"
  /\ Half("digitize", 0) \notin halfway
  /\ Ask
  /\ handed' = TRUE
  /\ halfway' = halfway \cup {Half("digitize", 0)}
  /\ Enqueue("DIGITIZE_SOURCE", "upload", 0)
  /\ UNCHANGED <<kind, key, located, preview, blind, status, readied, extraction, due, local, stranded>>

(* Some DIGITIZE_SOURCE will still set the status. *)
OcrAhead ==
  \/ \E j \in jobs : j.type = "DIGITIZE_SOURCE"
  \/ \E w \in Worker : job[w] # NoJob /\ job[w].type = "DIGITIZE_SOURCE" /\ pc[w] \notin {"chain mapping", "return"}

(* ... then the status, which may be that of a source already read. *)
DigitizeStatus ==
  /\ Half("digitize", 0) \in halfway
  /\ halfway' = halfway \ {Half("digitize", 0)}
  /\ status' = "processing"
  /\ stranded' = IF OcrAhead THEN stranded ELSE stranded \cup {0}
  /\ UNCHANGED <<row, readied, extraction, due, queued, local, bounds>>

(* run: a new extraction run of a source that is ready ... *)
Extract ==
  /\ kind = "imagery"
  /\ status = "ready"
  /\ Ask
  /\ runs' = Append(runs, NewRun)
  /\ halfway' = halfway \cup {Half("extract", Len(runs) + 1)}
  /\ UNCHANGED <<source, derived, due, queued, local, stranded>>

(* ... and its job. *)
ExtractEnqueue(n) ==
  /\ Half("extract", n) \in halfway
  /\ halfway' = halfway \ {Half("extract", n)}
  /\ Enqueue("EXTRACT_FEATURES", "upload", n)
  /\ UNCHANGED <<source, extraction, due, local, bounds, stranded>>

(* A push is refused, or the API dies: the first statement stays. *)
Abandon(r) ==
  /\ r \in halfway
  /\ crashes < MaxCrashes /\ failures + crashes < MaxFaults
  /\ crashes' = crashes + 1
  /\ halfway' = halfway \ {r}
  /\ stranded' = IF r.request = "digitize" THEN stranded ELSE stranded \cup {r.run}
  /\ UNCHANGED <<source, extraction, due, queued, local, requests, failures>>

-----------------------------------------------------------------------------
(* The handlers. *)

Take(w, j) ==
  /\ pc[w] = "idle"
  /\ j \in jobs
  /\ jobs' = jobs \ {j}
  /\ job' = [job EXCEPT ![w] = j]
  /\ pc' = [pc EXCEPT ![w] = IF j.type = "EXTRACT_FEATURES" THEN "run" ELSE "fetch"]
  /\ UNCHANGED <<source, extraction, due, made, mine, outside>>

At(w, from, to) == pc[w] = from /\ pc' = [pc EXCEPT ![w] = to]

LetGo(w) ==
  /\ pc' = [pc EXCEPT ![w] = "idle"]
  /\ job' = [job EXCEPT ![w] = NoJob]
  /\ mine' = [mine EXCEPT ![w] = 0]

(* The handler has returned and its job is acknowledged; a worker that dies *)
(* before this leaves the job to be done again.                             *)
Return(w) ==
  /\ pc[w] = "return"
  /\ LetGo(w)
  /\ UNCHANGED <<source, extraction, due, queued, outside>>

(* Mutant: a file without a CRS is inserted as it is. *)
FetchAnyway(w) ==
  /\ At(w, "fetch", CASE job[w].type = "NORMALIZE_SOURCE" -> "insert"
                      [] job[w].type = "GEOREFERENCE" -> "warp"
                      [] job[w].type = "DIGITIZE_SOURCE" -> "read"
                      [] job[w].type = "EXTRACT_FEATURES" -> "derive")
  /\ UNCHANGED <<source, extraction, due, queued, hands, outside>>

(* The row of the source is read and the file downloaded. *)
Fetch(w) ==
  /\ At(w, "fetch", CASE job[w].type = "NORMALIZE_SOURCE" -> (IF located THEN "insert" ELSE "preview")
                      [] job[w].type = "GEOREFERENCE" -> "warp"
                      [] job[w].type = "DIGITIZE_SOURCE" -> "read"
                      [] job[w].type = "EXTRACT_FEATURES" -> "derive")
  /\ UNCHANGED <<source, extraction, due, queued, hands, outside>>

(* _await_georeferencing: the preview is published, then the status set. *)
Preview(w) ==
  /\ At(w, "preview", "park")
  /\ preview' = TRUE
  /\ UNCHANGED <<kind, handed, key, located, blind, status, readied, extraction, due, queued, hands, outside>>

(* Mutant: the status is taken to be set already. *)
ParkQuietly(w) ==
  /\ At(w, "park", "return")
  /\ UNCHANGED <<source, extraction, due, queued, hands, outside>>

Park(w) ==
  /\ At(w, "park", "return")
  /\ status' = "needs_georef"
  /\ UNCHANGED <<row, readied, extraction, due, queued, hands, outside>>

Successors == CASE kind = "imagery" -> {"extract"}
                [] kind = "record" -> {"match"}
                [] OTHER -> {"topology", "match"}

(* Where _chain begins: a revenue record has no topology to be checked. *)
FirstLink == CASE kind = "imagery" -> "chain run"
               [] kind = "record" -> "chain match"
               [] OTHER -> "chain topology"

(* normalize_source: the features of the whole file in one transaction, ... *)
Insert(w) ==
  /\ At(w, "insert", "publish")
  /\ due' = Successors
  /\ UNCHANGED <<source, extraction, queued, hands, outside>>

(* Mutant: a word that is not one of source_status. *)
PublishMisnamed(w) ==
  /\ At(w, "publish", FirstLink)
  /\ status' = "normalized"
  /\ readied' = "normalize"
  /\ UNCHANGED <<row, extraction, due, queued, hands, outside>>

(* Mutant: only the first attempt queues the jobs that follow. *)
PublishOnce(w) ==
  /\ At(w, "publish", IF job[w].attempts > 0 THEN "return" ELSE FirstLink)
  /\ status' = "ready"
  /\ readied' = "normalize"
  /\ UNCHANGED <<row, extraction, due, queued, hands, outside>>

(* ... the status, ... *)
Publish(w) ==
  /\ At(w, "publish", FirstLink)
  /\ status' = "ready"
  /\ readied' = "normalize"
  /\ UNCHANGED <<row, extraction, due, queued, hands, outside>>

(* ... and _chain: FIX_TOPOLOGY and HARMONIZE_WARD for parcels, ... *)
ChainTopology(w) ==
  /\ At(w, "chain topology", "chain match")
  /\ due' = due \ {"topology"}
  /\ UNCHANGED <<source, extraction, queued, hands, outside>>

ChainMatch(w) ==
  /\ At(w, "chain match", "return")
  /\ due' = due \ {"match"}
  /\ UNCHANGED <<source, extraction, queued, hands, outside>>

(* ... an extraction run and its job for imagery. *)
ChainRun(w) ==
  /\ At(w, "chain run", "chain extract")
  /\ runs' = Append(runs, NewRun)
  /\ mine' = [mine EXCEPT ![w] = Len(runs) + 1]
  /\ UNCHANGED <<source, derived, due, queued, job, outside>>

ChainExtract(w) ==
  /\ At(w, "chain extract", "return")
  /\ Enqueue("EXTRACT_FEATURES", "upload", mine[w])
  /\ due' = due \ {"extract"}
  /\ UNCHANGED <<source, extraction, hands, outside>>

(* A layer of vectors is no image: neither the warp nor the OCR can read it. *)
Readable == kind # "parcels"

(* georeference: the GeoTIFF is stored, becomes the file of the source ... *)
Warp(w) ==
  /\ Readable
  /\ At(w, "warp", "locate")
  /\ UNCHANGED <<source, extraction, due, queued, hands, outside>>

Locate(w) ==
  /\ At(w, "locate", "chain normalize")
  /\ key' = "geotiff"
  /\ located' = TRUE
  /\ status' = "processing"
  /\ UNCHANGED <<kind, handed, preview, blind, readied, extraction, due, queued, hands, outside>>

(* ... and is normalized by a job of its own. *)
ChainNormalize(w) ==
  /\ At(w, "chain normalize", "return")
  /\ Enqueue("NORMALIZE_SOURCE", "geotiff", 0)
  /\ UNCHANGED <<source, extraction, due, hands, outside>>

(* digitize: the fields of the pages, the status, the schema mapping. *)
ReadFields(w) ==
  /\ Readable
  /\ At(w, "read", "digitized")
  /\ UNCHANGED <<source, extraction, due, queued, hands, outside>>

Digitized(w) ==
  /\ At(w, "digitized", "chain mapping")
  /\ status' = "ready"
  /\ readied' = "digitize"
  /\ UNCHANGED <<row, extraction, due, queued, hands, outside>>

ChainMapping(w) ==
  /\ At(w, "chain mapping", "return")
  /\ UNCHANGED <<source, extraction, due, queued, hands, outside>>

(* extract_features: the run is marked running before the download, ... *)
BeginRun(w) ==
  /\ At(w, "run", "fetch")
  /\ runs' = [runs EXCEPT ![job[w].run].status = "running"]
  /\ UNCHANGED <<source, derived, due, queued, hands, outside>>

(* ... a source, ready from the start, is derived, ... *)
Derive(w) ==
  /\ At(w, "derive", "fill")
  /\ derived' = Append(derived, [filled |-> FALSE, due |-> {"topology", "match"}])
  /\ mine' = [mine EXCEPT ![w] = Len(derived) + 1]
  /\ UNCHANGED <<source, runs, due, queued, job, outside>>

(* ... its features inserted, ... *)
Fill(w) ==
  /\ At(w, "fill", "conclude")
  /\ derived' = [derived EXCEPT ![mine[w]].filled = TRUE]
  /\ UNCHANGED <<source, runs, due, queued, hands, outside>>

(* Mutant: the run keeps the source that an earlier attempt derived. *)
ConcludeStale(w) ==
  /\ At(w, "conclude", "derived topology")
  /\ runs' = [runs EXCEPT ![job[w].run] =
                [status |-> "done", result |-> IF @.result = 0 THEN mine[w] ELSE @.result]]
  /\ UNCHANGED <<source, derived, due, queued, hands, outside>>

(* ... the run concluded, and the new source's own successors queued. *)
Conclude(w) ==
  /\ At(w, "conclude", "derived topology")
  /\ runs' = [runs EXCEPT ![job[w].run] = [status |-> "done", result |-> mine[w]]]
  /\ UNCHANGED <<source, derived, due, queued, hands, outside>>

DerivedTopology(w) ==
  /\ At(w, "derived topology", "derived match")
  /\ derived' = [derived EXCEPT ![mine[w]].due = @ \ {"topology"}]
  /\ UNCHANGED <<source, runs, due, queued, hands, outside>>

DerivedMatch(w) ==
  /\ At(w, "derived match", "return")
  /\ derived' = [derived EXCEPT ![mine[w]].due = @ \ {"match"}]
  /\ UNCHANGED <<source, runs, due, queued, hands, outside>>

-----------------------------------------------------------------------------
(* What goes wrong. *)

(* The queued run of _chain whose job has not been pushed stays queued. *)
LeftBehind(w) == IF pc[w] = "chain extract" THEN {mine[w]} ELSE {}

(* The last attempt ends where nothing records that it failed. *)
Unrecorded(w) ==
  IF pc[w] \in Uncaught \ {"chain mapping"} /\ job[w].attempts + 1 = MaxAttempts
  THEN {job[w].run}
  ELSE {}

Retry(w) ==
  IF job[w].attempts + 1 < MaxAttempts THEN {[job[w] EXCEPT !.attempts = @ + 1]} ELSE {}

(* The handler raises instead of taking its next step: what it records, and *)
(* what run makes of the exception, a retry or a buried job.                *)
Fails(w) ==
  /\ status' = CASE pc[w] \in Normalizing -> "failed"
                 [] pc[w] \in Georeferencing -> "needs_georef"
                 [] OTHER -> status
  /\ runs' = IF pc[w] \in Extracting THEN [runs EXCEPT ![job[w].run].status = "failed"] ELSE runs
  /\ jobs' = jobs \cup Retry(w)
  /\ stranded' = stranded \cup LeftBehind(w) \cup Unrecorded(w)
  /\ LetGo(w)
  /\ UNCHANGED <<row, readied, derived, due, made, halfway, requests, crashes>>

Raise(w) ==
  /\ pc[w] \notin {"idle", "return"}
  /\ failures < MaxFailures /\ failures + crashes < MaxFaults
  /\ failures' = failures + 1
  /\ Fails(w)

(* A file that is no image raises at every attempt. *)
Unreadable(w) ==
  /\ ~ Readable
  /\ pc[w] \in {"warp", "read"}
  /\ Fails(w)
  /\ UNCHANGED failures

(* The worker dies; its job is handed to another as it was. *)
Crash(w) ==
  /\ pc[w] # "idle"
  /\ crashes < MaxCrashes /\ failures + crashes < MaxFaults
  /\ crashes' = crashes + 1
  /\ jobs' = jobs \cup {job[w]}
  /\ stranded' = stranded \cup LeftBehind(w)
  /\ LetGo(w)
  /\ UNCHANGED <<source, extraction, due, made, halfway, requests, failures>>

-----------------------------------------------------------------------------
Normalize(w) ==
  \/ Insert(w) \/ Publish(w) \/ ChainTopology(w) \/ ChainMatch(w) \/ ChainRun(w) \/ ChainExtract(w)
  \/ Preview(w) \/ Park(w)

Georeference(w) == Warp(w) \/ Locate(w) \/ ChainNormalize(w)

DigitizeSource(w) == ReadFields(w) \/ Digitized(w) \/ ChainMapping(w)

ExtractFeatures(w) ==
  BeginRun(w) \/ Derive(w) \/ Fill(w) \/ Conclude(w) \/ DerivedTopology(w) \/ DerivedMatch(w)

Work(w) ==
  \/ \E j \in jobs : Take(w, j)
  \/ Fetch(w) \/ Normalize(w) \/ Georeference(w) \/ DigitizeSource(w) \/ ExtractFeatures(w)
  \/ Unreadable(w) \/ Return(w)

SecondStatement == ApplyEnqueue \/ DigitizeStatus \/ \E n \in DOMAIN runs : ExtractEnqueue(n)

Next ==
  \/ Register \/ Complete \/ Apply \/ Digitize \/ Extract
  \/ SecondStatement
  \/ \E r \in halfway : Abandon(r)
  \/ \E w \in Worker : Work(w) \/ Raise(w) \/ Crash(w)

Spec == Init /\ [][Next]_vars

(* The API goes on with a request it has begun, a worker with its loop; no  *)
(* client has to call anything.                                             *)
Fairness ==
  /\ WF_vars(SecondStatement)
  /\ \A w \in Worker : WF_vars(Work(w))

FairSpec == Spec /\ Fairness

-----------------------------------------------------------------------------
Quiet == jobs = {} /\ halfway = {} /\ \A w \in Worker : pc[w] = "idle"

(* normalize_source says ready before it queues what follows, and a retry   *)
(* inserts the features anew.  However often it is called, redelivered and  *)
(* retried, a source that normalize_source has made ready has, once         *)
(* everything is quiet, had its successors queued since the last insertion: *)
(* no layer it shows as ready has escaped topology, matching or extraction. *)
(* (The exception needs a crash after the status and then last attempts     *)
(* that cannot download.  A source that digitize says is ready is another   *)
(* matter: the API takes any source for OCR, so it may be one whose         *)
(* normalization was buried between its insertion and its successors.)      *)
ReadyIsChained ==
  Quiet /\ status = "ready" /\ readied = "normalize" => due = {} \/ 0 \in stranded

(* A scan without a CRS waits for control points, and may be completed,     *)
(* georeferenced, digitized, failed and redelivered in any order: whatever  *)
(* normalize_source has made ready has a CRS, and a source is parked with a *)
(* preview to place the points on, unless a client has applied control      *)
(* points before there was one.  Neither clause could be without its        *)
(* condition: the API checks the state of the source for neither request,   *)
(* and digitize makes any source ready that it can read.                    *)
SheetsAreLocated ==
  /\ status = "ready" /\ readied = "normalize" => located
  /\ status = "needs_georef" => preview \/ blind

(* extract_features commits the derived source, its features and the run in *)
(* three transactions, and every attempt derives a source of its own: a run *)
(* that is done names one that has features, and whose topology check and   *)
(* matching were queued once everything is quiet, whichever attempt it was. *)
RunsAreTruthful ==
  \A n \in DOMAIN runs : runs[n].status = "done" =>
    /\ runs[n].result \in DOMAIN derived
    /\ derived[runs[n].result].filled
    /\ Quiet => derived[runs[n].result].due = {} \/ n \in stranded

(* A source that has been handed over does not stay in processing, nor a    *)
(* run queued or running, but where the code leaves it there: the push of   *)
(* the request is refused, the late update of enqueueOcr, a run of _chain   *)
(* that got no job, a last attempt that fails outside the try of its        *)
(* handler.                                                                 *)
ProcessingEnds ==
  status = "processing" /\ handed ~> status # "processing" \/ 0 \in stranded

Ended(n) == n \in DOMAIN runs /\ runs[n].status \in {"done", "failed"}
RunsEnd ==
  \A n \in 1 .. MaxRuns : n \in DOMAIN runs /\ ~ Ended(n) ~> Ended(n) \/ n \in stranded

(* What was handed over ends: the source and its runs. *)
HandoversEnd == ProcessingEnds /\ RunsEnd
=============================================================================
