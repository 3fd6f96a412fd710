-------------------------------- MODULE Demo --------------------------------
(***************************************************************************)
(* The server as the portal's pages meet it: the demo server of            *)
(* src/frontend/src/mocks, one definition per endpoint.  Rows are told     *)
(* apart only by whether work on them is unfinished: an endpoint says      *)
(* which kinds of work its answer shows and which work it begins.          *)
(***************************************************************************)
EXTENDS Naturals, FiniteSets

CONSTANTS Wards, AllWards,   \* a ward, or no ward chosen: every ward
          Ids, WardOf        \* the rows a page may pick, and the ward of each

ASSUME DemoAssumption ==
  /\ AllWards \notin Wards
  /\ WardOf \in [Ids -> Wards]

VARIABLE work                \* unfinished work: [of, ward, job]

\* A row that only the upload has begun has no job yet, or lost it for good.
Kinds == {"sources", "runs", "changeRuns", "exports", "refresh", "pipeline"}
Jobs == {"none", "lost", "timed", "tracked"}

Scope(arg) == IF arg \in Ids THEN {WardOf[arg]} ELSE IF arg \in Wards THEN {arg} ELSE Wards

\* An endpoint answers for the ward it is asked for, for one row, or for all.
OfRow         == [by |-> "row", shows |-> {}, asJobs |-> FALSE, begins |-> {}, job |-> "none"]
OfWard(kinds) == [OfRow EXCEPT !.by = "ward", !.shows = kinds]
OfAll(kinds)  == [OfRow EXCEPT !.by = "all", !.shows = kinds]
BeginsOn(kind, job) == [OfRow EXCEPT !.begins = {kind}, !.job = job]
BeginsIn(kind, job) == [BeginsOn(kind, job) EXCEPT !.by = "ward"]

\* handlers.js
computeStats     == OfWard({"refresh"})
getHealth        == OfAll({})
getWards         == OfAll({})
getWardVillages  == OfWard({})
getVillages      == OfAll({})
getSources       == OfWard({"sources"})
getFeatures      == OfRow
getSource        == [OfRow EXCEPT !.shows = {"sources"}]
postUpload       == BeginsIn("sources", "none")
putUpload        == OfRow
postDigitize     == BeginsOn("sources", "timed")
postHarmonize    == BeginsIn("pipeline", "tracked")
getMatch         == OfRow
postLabel        == OfRow
getMatches       == OfWard({})
getSchemaMap     == OfRow
postSchemaMap    == OfRow
getConflicts     == OfWard({})
postResolve      == OfRow
postAssemble     == BeginsIn("pipeline", "tracked")
getExports       == OfWard({"exports"})
getGeojson       == OfWard({})
postGpkg         == BeginsIn("exports", "timed")
getRecords       == OfWard({})
getUnassessed    == OfWard({})
getExplanation   == OfRow
getProperty      == OfRow
postVerify       == OfRow
getStats         == computeStats
postConfig       == OfAll({})
postRefresh      == [BeginsOn("refresh", "timed") EXCEPT !.by = "all"]
postChat         == OfAll({})

\* pipelineHandlers.js
getJobs          == [OfAll(Kinds) EXCEPT !.asJobs = TRUE]
getAudit         == OfAll({})
getRuns          == OfWard({"runs"})
postExtraction   == BeginsOn("runs", "tracked")
getIssues        == OfWard({})
postTopology     == BeginsOn("pipeline", "tracked")
postIssue        == BeginsOn("pipeline", "tracked")
postAcceptAll    == OfRow
getCrs           == OfAll({})
transform        == OfAll({})
postPreview      == OfRow
postGeoref       == BeginsOn("sources", "tracked")
getChangeRuns    == OfWard({"changeRuns"})
postChangeRun    == BeginsIn("changeRuns", "tracked")
getChanges       == OfWard({})
postChange       == OfRow
postValidation   == BeginsIn("pipeline", "tracked")
getReports       == OfWard({})
getFindings      == OfWard({})
getReadiness     == OfWard({})
getItems         == OfWard({})
getCollections   == OfAll({})
postComplete     == [OfRow EXCEPT !.job = "tracked"]

-----------------------------------------------------------------------------
\* What an endpoint answers: of which scope, and whether it shows unfinished work.
Answer(e, arg) ==
  [of |-> IF e.by = "all" THEN AllWards ELSE arg,
   busy |-> \E x \in work : /\ x.of \in e.shows
                            /\ x.ward \in Scope(arg)
                            /\ e.asJobs => x.job = "tracked"]

\* The upload registers a row; its completion gives the row a job.
Completes(e) == e = postComplete

Registered(x, arg) == x.of = "sources" /\ x.job = "none" /\ x.ward \in Scope(arg)

WorkAfter(e, arg) ==
  IF Completes(e)
    THEN {IF Registered(x, arg) THEN [x EXCEPT !.job = "tracked"] ELSE x : x \in work}
    ELSE work \cup {[of |-> k, ward |-> w, job |-> e.job] : k \in e.begins, w \in Scope(arg)}

\* An upload that breaks off leaves the row it registered without a job.
WorkLost(arg) == {IF Registered(x, arg) THEN [x EXCEPT !.job = "lost"] ELSE x : x \in work}

\* A tracked job is queued, runs and ends; a timed change ends by itself.
track(x) == x.job = "tracked" /\ work' = work \ {x}
timed(x) == x.job = "timed" /\ work' = work \ {x}

Ends == \E x \in work : track(x) \/ timed(x)
=============================================================================
