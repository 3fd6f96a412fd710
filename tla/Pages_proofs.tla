---------------------------- MODULE Pages_proofs ----------------------------
(* Proofs about Pages, for any wards, rows, starts, bounds and refusals.   *)
EXTENDS Pages, SequenceTheorems, TLAPS

-----------------------------------------------------------------------------
(* The tables: what the definitions of endpoints, thunks and reducers have *)
(* in common.                                                              *)

Endpoint == [by : {"row", "ward", "all"}, shows : SUBSET Kinds, asJobs : BOOLEAN,
             begins : SUBSET Kinds, job : Jobs]

LEMMA EndpointShapes ==
  /\ OfRow \in Endpoint /\ [OfRow EXCEPT !.shows = {"sources"}] \in Endpoint
  /\ [OfRow EXCEPT !.job = "tracked"] \in Endpoint
  /\ \A kinds \in SUBSET Kinds : /\ OfWard(kinds) \in Endpoint /\ OfAll(kinds) \in Endpoint
                                 /\ [OfAll(kinds) EXCEPT !.asJobs = TRUE] \in Endpoint
  /\ \A kind \in Kinds, job \in Jobs : /\ BeginsOn(kind, job) \in Endpoint /\ BeginsIn(kind, job) \in Endpoint
                                       /\ [BeginsOn(kind, job) EXCEPT !.by = "all"] \in Endpoint
<1>1. OfRow \in Endpoint /\ [OfRow EXCEPT !.shows = {"sources"}] \in Endpoint
      /\ [OfRow EXCEPT !.job = "tracked"] \in Endpoint
  BY DEF OfRow, Endpoint, Jobs, Kinds
<1>2. \A kinds \in SUBSET Kinds : OfWard(kinds) \in Endpoint
  BY DEF OfWard, OfRow, Endpoint, Jobs
<1>3. \A kinds \in SUBSET Kinds : OfAll(kinds) \in Endpoint /\ [OfAll(kinds) EXCEPT !.asJobs = TRUE] \in Endpoint
  BY DEF OfAll, OfRow, Endpoint, Jobs
<1>4. \A kind \in Kinds, job \in Jobs : /\ BeginsOn(kind, job) \in Endpoint /\ BeginsIn(kind, job) \in Endpoint
                                       /\ [BeginsOn(kind, job) EXCEPT !.by = "all"] \in Endpoint
  BY DEF BeginsOn, BeginsIn, OfRow, Endpoint, Jobs
<1> QED BY <1>1, <1>2, <1>3, <1>4

Requests == {s \in Seq(Endpoint) : s # <<>>}

LEMMA RequestShapes ==
  /\ \A e \in Endpoint : <<e>> \in Requests
  /\ \A d, e, f \in Endpoint : <<d, e, f>> \in Requests
BY DEF Requests

LEMMA AsksShape == \A es : Asks(es).asks = es
BY DEF Asks

LEMMA EndpointKinds ==
  /\ {} \in SUBSET Kinds /\ Kinds \in SUBSET Kinds
  /\ \A k \in {"sources", "runs", "changeRuns", "exports", "refresh"} : {k} \in SUBSET Kinds
  /\ {"sources", "runs", "changeRuns", "exports", "refresh", "pipeline"} \subseteq Kinds
  /\ {"none", "lost", "timed", "tracked"} \subseteq Jobs
BY DEF Kinds, Jobs

(* What is sent one at a time, and the slot that keeps its status. *)
Decisions == {"labelMatch", "runMatching", "saveConfig", "transformCoordinates"}
Deciding == {"label", "run", "save", "transformed"}

Sound(t, r) ==
  /\ r.asks \in Requests
  /\ r.loading \in {"always", "fromIdle", "afresh", "never"}
  /\ r.marks \subseteq {"sources", "source", "runs", "changeRuns", "config"}
  /\ r.slot = "villages" => r.takes = "ofWard"
  /\ r.slot = "property" => r.takes = "ofHeld"
  /\ r.slot \in {"villages", "property"} => \A i \in DOMAIN r.asks : r.asks[i].by # "all"
  /\ r.slot = "label" <=> t = "labelMatch"
  /\ r.slot = "run" <=> t = "runMatching"
  /\ r.slot = "save" <=> t = "saveConfig"
  /\ r.slot = "transformed" <=> t = "transformCoordinates"
  /\ t \in Decisions => r.loading = "always"

LEMMA EndpointsTyped ==
  /\ {postRefresh, getJobs} \subseteq Endpoint
  /\ {computeStats, getHealth, getWards, getWardVillages, getVillages, getSources}
    \subseteq Endpoint
  /\ {getFeatures, getSource, postUpload, putUpload, postDigitize, postHarmonize} \subseteq Endpoint
  /\ {getMatch, postLabel, getMatches, getSchemaMap, postSchemaMap, getConflicts} \subseteq Endpoint
  /\ {postResolve, postAssemble, getExports, getGeojson, postGpkg, getRecords} \subseteq Endpoint
  /\ {getUnassessed, getExplanation, getProperty, postVerify, getStats, postConfig}
    \subseteq Endpoint
  /\ {postChat, getAudit, getRuns, postExtraction, getIssues, postTopology} \subseteq Endpoint
  /\ {postIssue, postAcceptAll, getCrs, transform, postPreview, postGeoref} \subseteq Endpoint
  /\ {getChangeRuns, postChangeRun, getChanges, postChange, postValidation, getReports}
    \subseteq Endpoint
  /\ {getFindings, getReadiness, getItems, getCollections, postComplete} \subseteq Endpoint
<1>1. {computeStats, getHealth, getWards, getWardVillages, getVillages, getSources}
        \subseteq Endpoint
  BY EndpointShapes, EndpointKinds DEF computeStats, getHealth, getWards, getWardVillages,
    getVillages, getSources
<1>2. {getFeatures, getSource, postUpload, putUpload, postDigitize, postHarmonize}
        \subseteq Endpoint
  BY EndpointShapes, EndpointKinds DEF getFeatures, getSource, postUpload, putUpload, postDigitize,
    postHarmonize
<1>3. {getMatch, postLabel, getMatches, getSchemaMap, postSchemaMap, getConflicts}
        \subseteq Endpoint
  BY EndpointShapes, EndpointKinds DEF getMatch, postLabel, getMatches, getSchemaMap,
    postSchemaMap, getConflicts
<1>4. {postResolve, postAssemble, getExports, getGeojson, postGpkg, getRecords} \subseteq Endpoint
  BY EndpointShapes, EndpointKinds DEF postResolve, postAssemble, getExports, getGeojson, postGpkg,
    getRecords
<1>5. {getUnassessed, getExplanation, getProperty, postVerify, getStats, postConfig}
        \subseteq Endpoint
  BY EndpointShapes, EndpointKinds DEF getUnassessed, getExplanation, getProperty, postVerify,
    getStats, postConfig, computeStats
<1>6. {postChat, getAudit, getRuns, postExtraction, getIssues, postTopology} \subseteq Endpoint
  BY EndpointShapes, EndpointKinds DEF postChat, getAudit, getRuns, postExtraction, getIssues,
    postTopology
<1>7. {postIssue, postAcceptAll, getCrs, transform, postPreview, postGeoref} \subseteq Endpoint
  BY EndpointShapes, EndpointKinds DEF postIssue, postAcceptAll, getCrs, transform, postPreview,
    postGeoref
<1>8. {getChangeRuns, postChangeRun, getChanges, postChange, postValidation, getReports}
        \subseteq Endpoint
  BY EndpointShapes, EndpointKinds DEF getChangeRuns, postChangeRun, getChanges, postChange,
    postValidation, getReports
<1>9. {getFindings, getReadiness, getItems, getCollections, postComplete} \subseteq Endpoint
  BY EndpointShapes, EndpointKinds DEF getFindings, getReadiness, getItems, getCollections,
    postComplete
<1>20. postRefresh \in Endpoint
  BY EndpointKinds DEF postRefresh, BeginsOn, OfRow, Endpoint
<1>21. getJobs \in Endpoint
  BY EndpointKinds DEF getJobs, OfAll, OfRow, Endpoint
<1> QED BY <1>1, <1>2, <1>3, <1>4, <1>5, <1>6, <1>7, <1>8, <1>9, <1>20, <1>21

LEMMA WantedRequests ==
  \A e \in {getWardVillages, getProperty} : \A i \in DOMAIN <<e>> : <<e>>[i].by # "all"
<1>1. getWardVillages.by # "all" /\ getProperty.by # "all"
  BY DEF getWardVillages, getProperty, OfWard, OfRow
<1>2. \A e : \A i \in DOMAIN <<e>> : <<e>>[i] = e
  OBVIOUS
<1> QED BY <1>1, <1>2

LEMMA SourcesSliceSound == \A t \in DOMAIN sourcesSlice : Sound(t, sourcesSlice[t])
<1>1. Sound("fetchSources", Cases(fetchSources, Loads("sources")))
  BY EndpointsTyped, RequestShapes DEF Sound, Decisions, Cases, fetchSources, Asks, Loads
<1>2. Sound("fetchSourceDetail", Cases(fetchSourceDetail, Loads("source")))
  BY EndpointsTyped, RequestShapes DEF Sound, Decisions, Cases, fetchSourceDetail, Asks, Loads
<1>3. Sound("fetchSourceFeatures", Cases(fetchSourceFeatures, [Drops("features") EXCEPT !.loading = "afresh"]))
  BY EndpointsTyped, RequestShapes DEF Sound, Decisions, Cases, fetchSourceFeatures, Asks, Drops,
    Loads
<1>4. Sound("digitizeSource", Cases(digitizeSource, Marks("digitize", {"sources", "source"})))
  BY EndpointsTyped, RequestShapes DEF Sound, Decisions, Cases, digitizeSource, Asks, Acts, Loads,
    Marks
<1>5. Sound("uploadSource", Cases(uploadSource, Acts("upload")))
  BY EndpointsTyped, RequestShapes DEF Sound, Decisions, Cases, uploadSource, Asks, Acts, Loads
<1> QED BY <1>1, <1>2, <1>3, <1>4, <1>5 DEF sourcesSlice

LEMMA HarmonizationSliceSound == \A t \in DOMAIN harmonizationSlice : Sound(t, harmonizationSlice[t])
<1>1. Sound("runMatching", Cases(runMatching, Acts("run")))
  BY EndpointsTyped, RequestShapes DEF Sound, Decisions, Cases, runMatching, Asks, Acts, Loads
<1>2. Sound("fetchMatches", Cases(fetchMatches, Loads("matches")))
  BY EndpointsTyped, RequestShapes DEF Sound, Decisions, Cases, fetchMatches, Asks, Loads
<1>3. Sound("fetchMatchDetail", Cases(fetchMatchDetail, Drops("match")))
  BY EndpointsTyped, RequestShapes DEF Sound, Decisions, Cases, fetchMatchDetail, Asks, Drops, Loads
<1>4. Sound("labelMatch", Cases(labelMatch, Acts("label")))
  BY EndpointsTyped, RequestShapes DEF Sound, Decisions, Cases, labelMatch, Asks, Acts, Loads
<1>5. Sound("fetchMappings", Cases(fetchMappings, Loads("mappings")))
  BY EndpointsTyped, RequestShapes DEF Sound, Decisions, Cases, fetchMappings, Asks, Loads
<1>6. Sound("suggestMappings", Cases(suggestMappings, Loads("suggested")))
  BY EndpointsTyped, RequestShapes DEF Sound, Decisions, Cases, suggestMappings, Asks, Loads
<1> QED BY <1>1, <1>2, <1>3, <1>4, <1>5, <1>6 DEF harmonizationSlice

LEMMA ProcessingSliceSound == \A t \in DOMAIN processingSlice : Sound(t, processingSlice[t])
<1>1. Sound("fetchExtractionRuns", Cases(fetchExtractionRuns, Renews("runs")))
  BY EndpointsTyped, RequestShapes DEF Sound, Decisions, Cases, fetchExtractionRuns, Asks, Loads,
    Renews
<1>2. Sound("runExtraction", Cases(runExtraction, Marks("extract", {"runs"})))
  BY EndpointsTyped, RequestShapes DEF Sound, Decisions, Cases, runExtraction, Asks, Acts, Loads,
    Marks
<1>3. Sound("fetchTopologyIssues", Cases(fetchTopologyIssues, Renews("issues")))
  BY EndpointsTyped, RequestShapes DEF Sound, Decisions, Cases, fetchTopologyIssues, Asks, Loads,
    Renews
<1>4. Sound("runTopology", Cases(runTopology, Acts("topology")))
  BY EndpointsTyped, RequestShapes DEF Sound, Decisions, Cases, runTopology, Asks, Acts, Loads
<1>5. Sound("resolveIssue", Cases(resolveIssue, Quietly("resolveIssue")))
  BY EndpointsTyped, RequestShapes DEF Sound, Decisions, Cases, resolveIssue, Asks, Acts, Loads,
    Quietly
<1>6. Sound("acceptAllIssues", Cases(acceptAllIssues, Quietly("acceptAll")))
  BY EndpointsTyped, RequestShapes DEF Sound, Decisions, Cases, acceptAllIssues, Asks, Acts, Loads,
    Quietly
<1>7. Sound("fetchCrsList", Cases(fetchCrsList, Fills("crsList")))
  BY EndpointsTyped, RequestShapes DEF Sound, Decisions, Cases, fetchCrsList, Asks, Fills, Loads
<1>8. Sound("transformCoordinates", Cases(transformCoordinates, Loads("transformed")))
  BY EndpointsTyped, RequestShapes DEF Sound, Decisions, Cases, transformCoordinates, Asks, Loads
<1>9. Sound("previewGeoref", Cases(previewGeoref, Loads("preview")))
  BY EndpointsTyped, RequestShapes DEF Sound, Decisions, Cases, previewGeoref, Asks, Loads
<1>10. Sound("applyGeoref", Cases(applyGeoref, Acts("apply")))
  BY EndpointsTyped, RequestShapes DEF Sound, Decisions, Cases, applyGeoref, Asks, Acts, Loads
<1> QED BY <1>1, <1>2, <1>3, <1>4, <1>5, <1>6, <1>7, <1>8, <1>9, <1>10 DEF processingSlice

LEMMA QualitySliceSound == \A t \in DOMAIN qualitySlice : Sound(t, qualitySlice[t])
<1>1. Sound("runValidation", Cases(runValidation, Acts("validate")))
  BY EndpointsTyped, RequestShapes DEF Sound, Decisions, Cases, runValidation, Asks, Acts, Loads
<1>2. Sound("fetchReports", Cases(fetchReports, Renews("reports")))
  BY EndpointsTyped, RequestShapes DEF Sound, Decisions, Cases, fetchReports, Asks, Loads, Renews
<1>3. Sound("fetchFindings", Cases(fetchFindings, Fills("findings")))
  BY EndpointsTyped, RequestShapes DEF Sound, Decisions, Cases, fetchFindings, Asks, Fills, Loads
<1>4. Sound("runChangeDetection", Cases(runChangeDetection, Marks("detect", {"changeRuns"})))
  BY EndpointsTyped, RequestShapes DEF Sound, Decisions, Cases, runChangeDetection, Asks, Acts,
    Loads, Marks
<1>5. Sound("fetchChangeRuns", Cases(fetchChangeRuns, Renews("changeRuns")))
  BY EndpointsTyped, RequestShapes DEF Sound, Decisions, Cases, fetchChangeRuns, Asks, Loads, Renews
<1>6. Sound("fetchChanges", Cases(fetchChanges, Loads("changes")))
  BY EndpointsTyped, RequestShapes DEF Sound, Decisions, Cases, fetchChanges, Asks, Loads
<1>7. Sound("verifyChange", Cases(verifyChange, Quietly("verifyChange")))
  BY EndpointsTyped, RequestShapes DEF Sound, Decisions, Cases, verifyChange, Asks, Acts, Loads,
    Quietly
<1>8. Sound("fetchReadiness", Cases(fetchReadiness, Drops("readiness")))
  BY EndpointsTyped, RequestShapes DEF Sound, Decisions, Cases, fetchReadiness, Asks, Drops, Loads
<1>9. Sound("fetchCollections", Cases(fetchCollections, Loads("collections")))
  BY EndpointsTyped, RequestShapes DEF Sound, Decisions, Cases, fetchCollections, Asks, Loads
<1>10. Sound("fetchCollectionItems", Cases(fetchCollectionItems, Drops("items")))
  BY EndpointsTyped, RequestShapes DEF Sound, Decisions, Cases, fetchCollectionItems, Asks, Drops,
    Loads
<1> QED BY <1>1, <1>2, <1>3, <1>4, <1>5, <1>6, <1>7, <1>8, <1>9, <1>10 DEF qualitySlice

LEMMA HarmonizedSliceSound == \A t \in DOMAIN harmonizedSlice : Sound(t, harmonizedSlice[t])
<1>1. Sound("fetchHarmonized", Cases(fetchHarmonized, Loads("records")))
  BY EndpointsTyped, RequestShapes DEF Sound, Decisions, Cases, fetchHarmonized, Asks, Loads
<1>2. Sound("assembleWard", Cases(assembleWard, Acts("assemble")))
  BY EndpointsTyped, RequestShapes DEF Sound, Decisions, Cases, assembleWard, Asks, Acts, Loads
<1>3. Sound("fetchHarmonizedGeoJSON", Cases(fetchHarmonizedGeoJSON, Drops("geojson")))
  BY EndpointsTyped, RequestShapes DEF Sound, Decisions, Cases, fetchHarmonizedGeoJSON, Asks,
    Drops, Loads
<1>4. Sound("exportHarmonized", Cases(exportHarmonized, Acts("export")))
  BY EndpointsTyped, RequestShapes DEF Sound, Decisions, Cases, exportHarmonized, Asks, Acts, Loads
<1>5. Sound("fetchExports", Cases(fetchExports, Loads("exports")))
  BY EndpointsTyped, RequestShapes DEF Sound, Decisions, Cases, fetchExports, Asks, Loads
<1> QED BY <1>1, <1>2, <1>3, <1>4, <1>5 DEF harmonizedSlice

LEMMA ConflictsSliceSound == \A t \in DOMAIN conflictsSlice : Sound(t, conflictsSlice[t])
<1>1. Sound("fetchConflicts", Cases(fetchConflicts, Loads("conflicts")))
  BY EndpointsTyped, RequestShapes DEF Sound, Decisions, Cases, fetchConflicts, Asks, Loads
<1>2. Sound("resolveConflict", Cases(resolveConflict, Acts("resolve")))
  BY EndpointsTyped, RequestShapes DEF Sound, Decisions, Cases, resolveConflict, Asks, Acts, Loads
<1> QED BY <1>1, <1>2 DEF conflictsSlice

LEMMA PropertiesSliceSound == \A t \in DOMAIN propertiesSlice : Sound(t, propertiesSlice[t])
<1>1. Sound("fetchProperties", Cases(fetchProperties, Drops("properties")))
  BY EndpointsTyped, RequestShapes DEF Sound, Decisions, Cases, fetchProperties, Asks, Drops, Loads
<1>2. Sound("fetchPropertyById", Cases(fetchPropertyById, [Loads("property") EXCEPT !.takes = "ofHeld"]))
  BY EndpointsTyped, RequestShapes, WantedRequests DEF Sound, Decisions, Cases, fetchPropertyById,
    Asks, Loads
<1>3. Sound("fetchPropertyExplanation", Cases(fetchPropertyExplanation, Acts("explanation")))
  BY EndpointsTyped, RequestShapes DEF Sound, Decisions, Cases, fetchPropertyExplanation, Asks,
    Acts, Loads
<1>4. Sound("verifyProperty", Cases(verifyProperty, Acts("verify")))
  BY EndpointsTyped, RequestShapes DEF Sound, Decisions, Cases, verifyProperty, Asks, Acts, Loads
<1> QED BY <1>1, <1>2, <1>3, <1>4 DEF propertiesSlice

LEMMA StatsSliceSound == \A t \in DOMAIN statsSlice : Sound(t, statsSlice[t])
<1>1. Sound("fetchStats", Cases(fetchStats, Loads("stats")))
  BY EndpointsTyped, RequestShapes DEF Sound, Decisions, Cases, fetchStats, Asks, Loads
<1> QED BY <1>1 DEF statsSlice

LEMMA WardsSliceSound == \A t \in DOMAIN wardsSlice : Sound(t, wardsSlice[t])
<1>1. Sound("fetchWards", Cases(fetchWards, Loads("wards")))
  BY EndpointsTyped, RequestShapes DEF Sound, Decisions, Cases, fetchWards, Asks, Loads
<1>2. Sound("fetchWardVillages", Cases(fetchWardVillages, [Fills("villages") EXCEPT !.takes = "ofWard"]))
  BY EndpointsTyped, RequestShapes, WantedRequests DEF Sound, Decisions, Cases, fetchWardVillages,
    Asks, Fills, Loads
<1>3. Sound("fetchAllVillages", Cases(fetchAllVillages, Fills("allVillages")))
  BY EndpointsTyped, RequestShapes DEF Sound, Decisions, Cases, fetchAllVillages, Asks, Fills, Loads
<1> QED BY <1>1, <1>2, <1>3 DEF wardsSlice

LEMMA AdminSliceSound == \A t \in DOMAIN adminSlice : Sound(t, adminSlice[t])
<1>1. Sound("fetchAdminConfig", Cases(fetchAdminConfig, Renews("config")))
  BY EndpointsTyped, RequestShapes DEF Sound, Decisions, Cases, fetchAdminConfig, Asks, Loads,
    Renews
<1>2. Sound("fetchHealth", Cases(fetchHealth, Drops("health")))
  BY EndpointsTyped, RequestShapes DEF Sound, Decisions, Cases, fetchHealth, Asks, Drops, Loads
<1>3. Sound("saveConfig", Cases(saveConfig, Acts("save")))
  BY EndpointsTyped, RequestShapes DEF Sound, Decisions, Cases, saveConfig, Asks, Acts, Loads
<1>4. Sound("triggerRefresh", Cases(triggerRefresh, [Quietly("refresh") EXCEPT !.marks = {"config"}, !.from = "click"]))
  BY EndpointsTyped, RequestShapes DEF Sound, Decisions, Cases, triggerRefresh, Asks, Acts, Loads,
    Quietly
<1> QED BY <1>1, <1>2, <1>3, <1>4 DEF adminSlice

LEMMA JobsSliceSound == \A t \in DOMAIN jobsSlice : Sound(t, jobsSlice[t])
<1>1. Sound("fetchJobs", Cases(fetchJobs, Renews("jobs")))
  BY EndpointsTyped, RequestShapes DEF Sound, Decisions, Cases, fetchJobs, Asks, Loads, Renews
<1>2. Sound("fetchAudit", Cases(fetchAudit, Loads("audit")))
  BY EndpointsTyped, RequestShapes DEF Sound, Decisions, Cases, fetchAudit, Asks, Loads
<1> QED BY <1>1, <1>2 DEF jobsSlice

LEMMA ChatSliceSound == \A t \in DOMAIN chatSlice : Sound(t, chatSlice[t])
<1>1. Sound("sendChatMessage", Cases(sendChatMessage, Acts("chat")))
  BY EndpointsTyped, RequestShapes DEF Sound, Decisions, Cases, sendChatMessage, Asks, Acts, Loads
<1> QED BY <1>1 DEF chatSlice

LEMMA RootReducerSound == \A t \in DOMAIN rootReducer : Sound(t, rootReducer[t])
BY SourcesSliceSound, HarmonizationSliceSound, ProcessingSliceSound, QualitySliceSound,
  HarmonizedSliceSound, ConflictsSliceSound, PropertiesSliceSound, StatsSliceSound,
  WardsSliceSound, AdminSliceSound, JobsSliceSound, ChatSliceSound
DEF rootReducer, combineReducers

-----------------------------------------------------------------------------
(* What components read, and what they do. *)

Reads ==
  {"fetchSources", "fetchSourceDetail", "fetchSourceFeatures", "fetchMatches",
   "fetchMatchDetail", "fetchMappings", "fetchExtractionRuns", "fetchTopologyIssues",
   "fetchCrsList", "fetchReports", "fetchFindings", "fetchChangeRuns", "fetchChanges",
   "fetchReadiness", "fetchCollections", "fetchCollectionItems", "fetchHarmonized",
   "fetchHarmonizedGeoJSON", "fetchExports", "fetchConflicts", "fetchProperties",
   "fetchPropertyById", "fetchPropertyExplanation", "fetchStats", "fetchWards",
   "fetchWardVillages", "fetchAllVillages", "fetchAdminConfig", "fetchHealth",
   "fetchJobs", "fetchAudit"}

LEMMA ThunksNamed ==
  DOMAIN rootReducer = Reads \cup
    {"digitizeSource", "uploadSource", "runMatching", "labelMatch", "suggestMappings",
     "runExtraction", "runTopology", "resolveIssue", "acceptAllIssues",
     "transformCoordinates", "previewGeoref", "applyGeoref", "runValidation",
     "runChangeDetection", "verifyChange", "assembleWard", "exportHarmonized",
     "resolveConflict", "verifyProperty", "saveConfig", "triggerRefresh",
     "sendChatMessage"}
<1>1. DOMAIN sourcesSlice =
        {"fetchSources", "fetchSourceDetail", "fetchSourceFeatures", "digitizeSource",
         "uploadSource"}
  BY DEF sourcesSlice
<1>2. DOMAIN harmonizationSlice =
        {"runMatching", "fetchMatches", "fetchMatchDetail", "labelMatch",
         "fetchMappings", "suggestMappings"}
  BY DEF harmonizationSlice
<1>3. DOMAIN processingSlice =
        {"fetchExtractionRuns", "runExtraction", "fetchTopologyIssues", "runTopology",
         "resolveIssue", "acceptAllIssues", "fetchCrsList", "transformCoordinates",
         "previewGeoref", "applyGeoref"}
  BY DEF processingSlice
<1>4. DOMAIN qualitySlice =
        {"runValidation", "fetchReports", "fetchFindings", "runChangeDetection",
         "fetchChangeRuns", "fetchChanges", "verifyChange", "fetchReadiness",
         "fetchCollections", "fetchCollectionItems"}
  BY DEF qualitySlice
<1>5. DOMAIN harmonizedSlice =
        {"fetchHarmonized", "assembleWard", "fetchHarmonizedGeoJSON",
         "exportHarmonized", "fetchExports"}
  BY DEF harmonizedSlice
<1>6. DOMAIN conflictsSlice =
        {"fetchConflicts", "resolveConflict"}
  BY DEF conflictsSlice
<1>7. DOMAIN propertiesSlice =
        {"fetchProperties", "fetchPropertyById", "fetchPropertyExplanation",
         "verifyProperty"}
  BY DEF propertiesSlice
<1>8. DOMAIN statsSlice =
        {"fetchStats"}
  BY DEF statsSlice
<1>9. DOMAIN wardsSlice =
        {"fetchWards", "fetchWardVillages", "fetchAllVillages"}
  BY DEF wardsSlice
<1>10. DOMAIN adminSlice =
        {"fetchAdminConfig", "fetchHealth", "saveConfig", "triggerRefresh"}
  BY DEF adminSlice
<1>11. DOMAIN jobsSlice =
        {"fetchJobs", "fetchAudit"}
  BY DEF jobsSlice
<1>12. DOMAIN chatSlice =
        {"sendChatMessage"}
  BY DEF chatSlice
<1>13. DOMAIN rootReducer = UNION {DOMAIN s : s \in {sourcesSlice, harmonizationSlice, processingSlice, qualitySlice,
           harmonizedSlice, conflictsSlice, propertiesSlice,
           statsSlice, wardsSlice, adminSlice, jobsSlice, chatSlice}}
  BY DEF rootReducer, combineReducers
<1> QED BY <1>1, <1>2, <1>3, <1>4, <1>5, <1>6, <1>7, <1>8, <1>9, <1>10, <1>11, <1>12,
           <1>13 DEF Reads

(* What may follow an operation of component m, what its buttons may do,   *)
(* and what it may load, clear and set to fade.                             *)
Follows(m, does) ==
  /\ does.calls \subseteq Reads /\ does.later \subseteq Reads
  /\ does.drops \subseteq {"features"} /\ does.fades \subseteq {"upload"}
  /\ does.times \in 0..Repeats
  /\ does.closes => m = "OfficerDecision"

Operates(m, t, op) ==
  /\ t \in DOMAIN rootReducer
  /\ t \in Decisions => op.waits
  /\ Follows(m, op.then)

Clearable == {"source", "digitize", "match", "suggested", "resolve", "assemble", "export", "validate",
              "detect", "property", "explanation", "verify", "preview", "apply", "extract", "topology"}

Fits(m, c) ==
  /\ c.once \cup c.loads \cup c.inWard \cup c.unpicked \cup c.picked \cup c.ticks \subseteq Reads
  /\ \A s \in DOMAIN c.reacts : c.reacts[s] \in Reads
  /\ \A s \in DOMAIN c.polls : c.polls[s].calls \subseteq Reads
  /\ \A t \in DOMAIN c.ops : Operates(m, t, c.ops[t])
  /\ \A s \in DOMAIN c.fades : c.fades[s] \subseteq {"succeeded", "failed"}
  /\ c.rewinds \cup c.renews \cup c.clears \subseteq Clearable
  /\ c.closes => m \in {"SourceDetail", "MatchDetail"}
  /\ c.keeps => m = "GeorefPage"

LEMMA FollowsShapes ==
  /\ \A m : Follows(m, NothingMore)
  /\ \A m : \A ts \in SUBSET Reads : Follows(m, Then(ts)) /\ Follows(m, Often(1, ts)) /\ Follows(m, Often(Repeats, ts))
  /\ \A m : Follows(m, refreshGeometry)
  /\ \A m : \A ts \in SUBSET Reads : Follows(m, [Then(ts) EXCEPT !.fades = {"upload"}, !.times = 1])
  /\ Follows("OfficerDecision", [NothingMore EXCEPT !.closes = TRUE])
BY PagesAssumption DEF Follows, NothingMore, Then, Often, refreshGeometry, Reads


LEMMA OpShapes ==
  /\ ~Link.waits /\ Link.then = NothingMore /\ Button.waits /\ Button.then = NothingMore
  /\ InWard(Button).waits /\ InWard(Button).then = NothingMore
  /\ InWard(Link).then = NothingMore
  /\ \A others \in {{"source"}, {"config"}} :
       /\ [Button EXCEPT !.rests = others].waits /\ [Button EXCEPT !.rests = others].then = NothingMore
       /\ [Link EXCEPT !.rests = others].then = NothingMore
  /\ [Link EXCEPT !.fills = TRUE].then = NothingMore
  /\ \A does : /\ Does(Button, does).waits /\ Does(Button, does).then = does
                /\ Does(InWard(Button), does).then = does
                /\ Does(Link, does).then = does
                /\ Choice(Button, does).waits /\ Choice(Button, does).then = does
                /\ Choice(Link, does).then = does
BY DEF Link, Button, InWard, Does, Choice

LEMMA ComponentsFit == \A m \in DOMAIN Components : Fits(m, Components[m])
<1>1. Fits("App", App)
  BY DEF Fits, Reads, Clearable, App, Blank
<1>2. Fits("AppShell", AppShell)
  BY DEF Fits, Reads, Clearable, AppShell, Blank
<1>3. Fits("PipelineActivity", PipelineActivity)
  BY DEF Fits, Reads, Clearable, PipelineActivity, Blank
<1>4. Fits("ChatPanel", ChatPanel)
  <2>1. ChatPanel.ops = [sendChatMessage |-> Button]
    BY DEF ChatPanel, Blank
  <2>2. Operates("ChatPanel", "sendChatMessage", Button)
    BY FollowsShapes, OpShapes, ThunksNamed DEF Operates, Decisions, Reads
  <2>3. \A t \in DOMAIN ChatPanel.ops : Operates("ChatPanel", t, ChatPanel.ops[t])
    BY <2>1, <2>2
  <2>4. /\ ChatPanel.once = {}
        /\ ChatPanel.loads = {}
        /\ ChatPanel.inWard = {}
        /\ ChatPanel.unpicked = {}
        /\ ChatPanel.picked = {}
        /\ ChatPanel.ticks = {}
        /\ ChatPanel.reacts = <<>>
        /\ ChatPanel.polls = <<>>
        /\ ChatPanel.fades = <<>>
        /\ ChatPanel.rewinds = {}
        /\ ChatPanel.renews = {}
        /\ ChatPanel.clears = {}
        /\ ChatPanel.closes = FALSE
        /\ ChatPanel.keeps = FALSE
    BY DEF ChatPanel, Blank
  <2> QED BY <2>3, <2>4 DEF Fits, Reads, Clearable
<1>5. Fits("OverviewPage", OverviewPage)
  <2>1. OverviewPage.ops = [runMatching |-> Does(Button, Often(1, overviewLoads \cup {"fetchHarmonizedGeoJSON"}))]
    BY DEF OverviewPage, Blank
  <2>2. overviewLoads \cup {"fetchHarmonizedGeoJSON"} \in SUBSET Reads
    BY DEF Reads, overviewLoads
  <2>3. Follows("OverviewPage", Often(1, overviewLoads \cup {"fetchHarmonizedGeoJSON"}))
    BY <2>2, FollowsShapes
  <2>4. "runMatching" \in DOMAIN rootReducer /\ Does(Button, Often(1, overviewLoads
          \cup {"fetchHarmonizedGeoJSON"})).waits
    BY ThunksNamed, OpShapes
  <2>5. Operates("OverviewPage", "runMatching", Does(Button, Often(1, overviewLoads
          \cup {"fetchHarmonizedGeoJSON"})))
    BY OpShapes, <2>3, <2>4 DEF Operates
  <2>6. \A t \in DOMAIN OverviewPage.ops : Operates("OverviewPage", t, OverviewPage.ops[t])
    BY <2>1, <2>5
  <2>7. /\ OverviewPage.once = {}
        /\ OverviewPage.loads = overviewLoads
        /\ OverviewPage.inWard = {"fetchHarmonizedGeoJSON"}
        /\ OverviewPage.unpicked = {}
        /\ OverviewPage.picked = {}
        /\ OverviewPage.ticks = {}
        /\ OverviewPage.reacts = <<>>
        /\ OverviewPage.polls = <<>>
        /\ OverviewPage.fades = [run |-> {"failed"}]
        /\ OverviewPage.rewinds = {}
        /\ OverviewPage.renews = {}
        /\ OverviewPage.clears = {}
        /\ OverviewPage.closes = FALSE
        /\ OverviewPage.keeps = FALSE
    BY DEF OverviewPage, Blank
  <2> QED BY <2>6, <2>7 DEF Fits, Reads, Clearable, overviewLoads
<1>6. Fits("UploadPanel", UploadPanel)
  <2>1. UploadPanel.ops = [uploadSource |-> Does(Button, [Then({"fetchSources"}) EXCEPT !.fades = {"upload"}, !.times = 1])]
    BY DEF UploadPanel, Blank
  <2>2. {"fetchSources"} \in SUBSET Reads
    BY DEF Reads
  <2>3. Follows("UploadPanel", [Then({"fetchSources"}) EXCEPT !.fades = {"upload"}, !.times = 1])
    BY <2>2, FollowsShapes
  <2>4. "uploadSource" \in DOMAIN rootReducer /\ "uploadSource" \notin Decisions
    BY ThunksNamed DEF Decisions
  <2>5. Operates("UploadPanel", "uploadSource", Does(Button,
          [Then({"fetchSources"}) EXCEPT !.fades = {"upload"}, !.times = 1]))
    BY OpShapes, <2>3, <2>4 DEF Operates
  <2>6. \A t \in DOMAIN UploadPanel.ops : Operates("UploadPanel", t, UploadPanel.ops[t])
    BY <2>1, <2>5
  <2>7. /\ UploadPanel.once = {}
        /\ UploadPanel.loads = {}
        /\ UploadPanel.inWard = {}
        /\ UploadPanel.unpicked = {}
        /\ UploadPanel.picked = {}
        /\ UploadPanel.ticks = {}
        /\ UploadPanel.reacts = <<>>
        /\ UploadPanel.polls = <<>>
        /\ UploadPanel.fades = <<>>
        /\ UploadPanel.rewinds = {}
        /\ UploadPanel.renews = {}
        /\ UploadPanel.clears = {}
        /\ UploadPanel.closes = FALSE
        /\ UploadPanel.keeps = FALSE
    BY DEF UploadPanel, Blank
  <2> QED BY <2>6, <2>7 DEF Fits, Reads, Clearable
<1>7. Fits("SourceDetail", SourceDetail)
  <2>1. SourceDetail.ops = [digitizeSource |-> [Button EXCEPT !.rests = {"source"}]]
    BY DEF SourceDetail, Blank
  <2>2. Operates("SourceDetail", "digitizeSource", [Button EXCEPT !.rests = {"source"}])
    BY FollowsShapes, OpShapes, ThunksNamed DEF Operates, Decisions, Reads
  <2>3. \A t \in DOMAIN SourceDetail.ops : Operates("SourceDetail", t, SourceDetail.ops[t])
    BY <2>1, <2>2
  <2>4. /\ SourceDetail.once = {}
        /\ SourceDetail.loads = {}
        /\ SourceDetail.inWard = {}
        /\ SourceDetail.unpicked = {}
        /\ SourceDetail.picked = {"fetchSourceDetail", "fetchSourceFeatures"}
        /\ SourceDetail.ticks = {}
        /\ SourceDetail.reacts = <<>>
        /\ SourceDetail.polls = <<>>
        /\ SourceDetail.fades = <<>>
        /\ SourceDetail.rewinds = {}
        /\ SourceDetail.renews = {}
        /\ SourceDetail.clears = {"source", "digitize"}
        /\ SourceDetail.closes = TRUE
        /\ SourceDetail.keeps = FALSE
    BY DEF SourceDetail, Blank
  <2> QED BY <2>3, <2>4 DEF Fits, Reads, Clearable
<1>8. Fits("SourcesPage", SourcesPage)
  BY DEF Fits, Reads, Clearable, SourcesPage, Blank, Poll
<1>9. Fits("IntegrationMapPage", IntegrationMapPage)
  <2>1. IntegrationMapPage.ops = [fetchAllVillages |-> [Link EXCEPT !.fills = TRUE]]
    BY DEF IntegrationMapPage, Blank
  <2>2. Operates("IntegrationMapPage", "fetchAllVillages", [Link EXCEPT !.fills = TRUE])
    BY FollowsShapes, OpShapes, ThunksNamed DEF Operates, Decisions, Reads
  <2>3. /\ DOMAIN IntegrationMapPage.ops = {"fetchAllVillages"}
        /\ IntegrationMapPage.ops["fetchAllVillages"] = [Link EXCEPT !.fills = TRUE]
    BY <2>1
  <2>4. \A t \in DOMAIN IntegrationMapPage.ops : Operates("IntegrationMapPage", t,
          IntegrationMapPage.ops[t])
    BY <2>2, <2>3, Zenon
  <2>5. /\ IntegrationMapPage.once = {}
        /\ IntegrationMapPage.loads = {}
        /\ IntegrationMapPage.inWard = {"fetchSources", "fetchHarmonizedGeoJSON",
          "fetchTopologyIssues", "fetchFindings", "fetchWardVillages"}
        /\ IntegrationMapPage.unpicked = {}
        /\ IntegrationMapPage.picked = {}
        /\ IntegrationMapPage.ticks = {}
        /\ IntegrationMapPage.reacts = [sources |-> "fetchSourceFeatures"]
        /\ IntegrationMapPage.polls = <<>>
        /\ IntegrationMapPage.fades = <<>>
        /\ IntegrationMapPage.rewinds = {}
        /\ IntegrationMapPage.renews = {}
        /\ IntegrationMapPage.clears = {}
        /\ IntegrationMapPage.closes = FALSE
        /\ IntegrationMapPage.keeps = FALSE
    BY DEF IntegrationMapPage, Blank
  <2> QED BY <2>4, <2>5 DEF Fits, Reads, Clearable
<1>10. Fits("OfficerDecision", OfficerDecision)
  <2>1. OfficerDecision.ops = [labelMatch |-> Choice(Button, [NothingMore EXCEPT !.closes = TRUE])]
    BY DEF OfficerDecision, Blank
  <2>2. Operates("OfficerDecision", "labelMatch", Choice(Button,
          [NothingMore EXCEPT !.closes = TRUE]))
    BY FollowsShapes, OpShapes, ThunksNamed DEF Operates, Decisions, Reads
  <2>3. \A t \in DOMAIN OfficerDecision.ops : Operates("OfficerDecision", t, OfficerDecision.ops[t])
    BY <2>1, <2>2
  <2>4. /\ OfficerDecision.once = {}
        /\ OfficerDecision.loads = {}
        /\ OfficerDecision.inWard = {}
        /\ OfficerDecision.unpicked = {}
        /\ OfficerDecision.picked = {}
        /\ OfficerDecision.ticks = {}
        /\ OfficerDecision.reacts = <<>>
        /\ OfficerDecision.polls = <<>>
        /\ OfficerDecision.fades = <<>>
        /\ OfficerDecision.rewinds = {}
        /\ OfficerDecision.renews = {}
        /\ OfficerDecision.clears = {}
        /\ OfficerDecision.closes = FALSE
        /\ OfficerDecision.keeps = FALSE
    BY DEF OfficerDecision, Blank
  <2> QED BY <2>3, <2>4 DEF Fits, Reads, Clearable
<1>11. Fits("MatchDetail", MatchDetail)
  BY DEF Fits, Reads, Clearable, MatchDetail, Blank
<1>12. Fits("MatchingPage", MatchingPage)
  <2>1. MatchingPage.ops = [runMatching |-> Does(Button, Often(1, {"fetchMatches"}))]
    BY DEF MatchingPage, Blank
  <2>2. {"fetchMatches"} \in SUBSET Reads
    BY DEF Reads
  <2>3. Follows("MatchingPage", Often(1, {"fetchMatches"}))
    BY <2>2, FollowsShapes
  <2>4. "runMatching" \in DOMAIN rootReducer /\ Does(Button, Often(1, {"fetchMatches"})).waits
    BY ThunksNamed, OpShapes
  <2>5. Operates("MatchingPage", "runMatching", Does(Button, Often(1, {"fetchMatches"})))
    BY OpShapes, <2>3, <2>4 DEF Operates
  <2>6. \A t \in DOMAIN MatchingPage.ops : Operates("MatchingPage", t, MatchingPage.ops[t])
    BY <2>1, <2>5
  <2>7. /\ MatchingPage.once = {}
        /\ MatchingPage.loads = {"fetchMatches"}
        /\ MatchingPage.inWard = {}
        /\ MatchingPage.unpicked = {}
        /\ MatchingPage.picked = {}
        /\ MatchingPage.ticks = {}
        /\ MatchingPage.reacts = <<>>
        /\ MatchingPage.polls = <<>>
        /\ MatchingPage.fades = <<>>
        /\ MatchingPage.rewinds = {}
        /\ MatchingPage.renews = {}
        /\ MatchingPage.clears = {}
        /\ MatchingPage.closes = FALSE
        /\ MatchingPage.keeps = FALSE
    BY DEF MatchingPage, Blank
  <2> QED BY <2>6, <2>7 DEF Fits, Reads, Clearable
<1>13. Fits("AttributeMappingPage", AttributeMappingPage)
  <2>1. AttributeMappingPage.ops = [suggestMappings |-> Does(Button, Then({"fetchMappings"}))]
    BY DEF AttributeMappingPage, Blank
  <2>2. {"fetchMappings"} \in SUBSET Reads
    BY DEF Reads
  <2>3. Follows("AttributeMappingPage", Then({"fetchMappings"}))
    BY <2>2, FollowsShapes
  <2>4. "suggestMappings" \in DOMAIN rootReducer /\ "suggestMappings" \notin Decisions
    BY ThunksNamed DEF Decisions
  <2>5. Operates("AttributeMappingPage", "suggestMappings", Does(Button, Then({"fetchMappings"})))
    BY OpShapes, <2>3, <2>4 DEF Operates
  <2>6. \A t \in DOMAIN AttributeMappingPage.ops : Operates("AttributeMappingPage", t,
          AttributeMappingPage.ops[t])
    BY <2>1, <2>5
  <2>7. /\ AttributeMappingPage.once = {}
        /\ AttributeMappingPage.loads = {"fetchSources"}
        /\ AttributeMappingPage.inWard = {}
        /\ AttributeMappingPage.unpicked = {"fetchMappings"}
        /\ AttributeMappingPage.picked = {"fetchMappings", "fetchSourceFeatures"}
        /\ AttributeMappingPage.ticks = {}
        /\ AttributeMappingPage.reacts = <<>>
        /\ AttributeMappingPage.polls = <<>>
        /\ AttributeMappingPage.fades = <<>>
        /\ AttributeMappingPage.rewinds = {"suggested"}
        /\ AttributeMappingPage.renews = {"suggested"}
        /\ AttributeMappingPage.clears = {}
        /\ AttributeMappingPage.closes = FALSE
        /\ AttributeMappingPage.keeps = FALSE
    BY DEF AttributeMappingPage, Blank
  <2> QED BY <2>6, <2>7 DEF Fits, Reads, Clearable
<1>14. Fits("ConflictDetail", ConflictDetail)
  <2>1. ConflictDetail.ops = [resolveConflict |-> Button]
    BY DEF ConflictDetail, Blank
  <2>2. Operates("ConflictDetail", "resolveConflict", Button)
    BY FollowsShapes, OpShapes, ThunksNamed DEF Operates, Decisions, Reads
  <2>3. \A t \in DOMAIN ConflictDetail.ops : Operates("ConflictDetail", t, ConflictDetail.ops[t])
    BY <2>1, <2>2
  <2>4. /\ ConflictDetail.once = {}
        /\ ConflictDetail.loads = {}
        /\ ConflictDetail.inWard = {}
        /\ ConflictDetail.unpicked = {}
        /\ ConflictDetail.picked = {"fetchMatchDetail"}
        /\ ConflictDetail.ticks = {}
        /\ ConflictDetail.reacts = <<>>
        /\ ConflictDetail.polls = <<>>
        /\ ConflictDetail.fades = <<>>
        /\ ConflictDetail.rewinds = {}
        /\ ConflictDetail.renews = {"resolve"}
        /\ ConflictDetail.clears = {"match"}
        /\ ConflictDetail.closes = FALSE
        /\ ConflictDetail.keeps = FALSE
    BY DEF ConflictDetail, Blank
  <2> QED BY <2>3, <2>4 DEF Fits, Reads, Clearable
<1>15. Fits("ConflictsPage", ConflictsPage)
  <2>1. ConflictsPage.ops = [fetchConflicts |-> Link]
    BY DEF ConflictsPage, Blank
  <2>2. Operates("ConflictsPage", "fetchConflicts", Link)
    BY FollowsShapes, OpShapes, ThunksNamed DEF Operates, Decisions, Reads
  <2>3. \A t \in DOMAIN ConflictsPage.ops : Operates("ConflictsPage", t, ConflictsPage.ops[t])
    BY <2>1, <2>2
  <2>4. /\ ConflictsPage.once = {}
        /\ ConflictsPage.loads = {}
        /\ ConflictsPage.inWard = {}
        /\ ConflictsPage.unpicked = {}
        /\ ConflictsPage.picked = {}
        /\ ConflictsPage.ticks = {}
        /\ ConflictsPage.reacts = <<>>
        /\ ConflictsPage.polls = <<>>
        /\ ConflictsPage.fades = <<>>
        /\ ConflictsPage.rewinds = {}
        /\ ConflictsPage.renews = {}
        /\ ConflictsPage.clears = {}
        /\ ConflictsPage.closes = FALSE
        /\ ConflictsPage.keeps = FALSE
    BY DEF ConflictsPage, Blank
  <2> QED BY <2>3, <2>4 DEF Fits, Reads, Clearable
<1>16. Fits("RecordsPage", RecordsPage)
  <2>1. RecordsPage.ops = [assembleWard |-> Does(Button, Often(1, recordsLoads \cup recordsInWard)),
                         exportHarmonized |-> Does(InWard(Button), Then({"fetchExports"}))]
    BY DEF RecordsPage, Blank
  <2>2. recordsLoads \cup recordsInWard \in SUBSET Reads
    BY DEF Reads, recordsLoads, recordsInWard
  <2>3. Follows("RecordsPage", Often(1, recordsLoads \cup recordsInWard))
    BY <2>2, FollowsShapes
  <2>4. "assembleWard" \in DOMAIN rootReducer /\ "assembleWard" \notin Decisions
    BY ThunksNamed DEF Decisions
  <2>5. Operates("RecordsPage", "assembleWard", Does(Button, Often(1, recordsLoads
          \cup recordsInWard)))
    BY OpShapes, <2>3, <2>4 DEF Operates
  <2>6. {"fetchExports"} \in SUBSET Reads
    BY DEF Reads
  <2>7. Follows("RecordsPage", Then({"fetchExports"}))
    BY <2>6, FollowsShapes
  <2>8. "exportHarmonized" \in DOMAIN rootReducer /\ "exportHarmonized" \notin Decisions
    BY ThunksNamed DEF Decisions
  <2>9. Operates("RecordsPage", "exportHarmonized", Does(InWard(Button), Then({"fetchExports"})))
    BY OpShapes, <2>7, <2>8 DEF Operates
  <2>10. \A t \in DOMAIN RecordsPage.ops : Operates("RecordsPage", t, RecordsPage.ops[t])
    BY <2>1, <2>5, <2>9
  <2>11. /\ RecordsPage.once = {}
        /\ RecordsPage.loads = recordsLoads
        /\ RecordsPage.inWard = recordsInWard
        /\ RecordsPage.unpicked = {}
        /\ RecordsPage.picked = {}
        /\ RecordsPage.ticks = {}
        /\ RecordsPage.reacts = <<>>
        /\ RecordsPage.polls = [exports |-> PollInWard({"fetchExports"})]
        /\ RecordsPage.fades = <<>>
        /\ RecordsPage.rewinds = {"assemble", "export"}
        /\ RecordsPage.renews = {}
        /\ RecordsPage.clears = {}
        /\ RecordsPage.closes = FALSE
        /\ RecordsPage.keeps = FALSE
    BY DEF RecordsPage, Blank
  <2> QED BY <2>10, <2>11 DEF Fits, Reads, Clearable, PollInWard, recordsLoads,
    recordsInWard
<1>17. Fits("EpochComparison", EpochComparison)
  <2>1. EpochComparison.ops = [runChangeDetection |-> InWard(Button),
                             verifyChange |-> InWard(Link)]
    BY DEF EpochComparison, Blank
  <2>2. Operates("EpochComparison", "runChangeDetection", InWard(Button))
    BY FollowsShapes, OpShapes, ThunksNamed DEF Operates, Decisions, Reads
  <2>3. Operates("EpochComparison", "verifyChange", InWard(Link))
    BY FollowsShapes, OpShapes, ThunksNamed DEF Operates, Decisions, Reads
  <2>4. \A t \in DOMAIN EpochComparison.ops : Operates("EpochComparison", t, EpochComparison.ops[t])
    BY <2>1, <2>2, <2>3
  <2>5. /\ EpochComparison.once = {}
        /\ EpochComparison.loads = {}
        /\ EpochComparison.inWard = {"fetchSources", "fetchChangeRuns"}
        /\ EpochComparison.unpicked = {}
        /\ EpochComparison.picked = {}
        /\ EpochComparison.ticks = {}
        /\ EpochComparison.reacts = [changeRuns |-> "fetchChanges"]
        /\ EpochComparison.polls = [changeRuns |-> PollInWard({"fetchChangeRuns"})]
        /\ EpochComparison.fades = <<>>
        /\ EpochComparison.rewinds = {"validate", "detect"}
        /\ EpochComparison.renews = {}
        /\ EpochComparison.clears = {}
        /\ EpochComparison.closes = FALSE
        /\ EpochComparison.keeps = FALSE
    BY DEF EpochComparison, Blank
  <2> QED BY <2>4, <2>5 DEF Fits, Reads, Clearable, PollInWard
<1>18. Fits("NdbiAlerts", NdbiAlerts)
  BY DEF Fits, Reads, Clearable, NdbiAlerts, Blank
<1>19. Fits("VerifyPanel", VerifyPanel)
  <2>1. VerifyPanel.ops = [verifyProperty |-> Button]
    BY DEF VerifyPanel, Blank
  <2>2. Operates("VerifyPanel", "verifyProperty", Button)
    BY FollowsShapes, OpShapes, ThunksNamed DEF Operates, Decisions, Reads
  <2>3. \A t \in DOMAIN VerifyPanel.ops : Operates("VerifyPanel", t, VerifyPanel.ops[t])
    BY <2>1, <2>2
  <2>4. /\ VerifyPanel.once = {}
        /\ VerifyPanel.loads = {}
        /\ VerifyPanel.inWard = {}
        /\ VerifyPanel.unpicked = {}
        /\ VerifyPanel.picked = {}
        /\ VerifyPanel.ticks = {}
        /\ VerifyPanel.reacts = <<>>
        /\ VerifyPanel.polls = <<>>
        /\ VerifyPanel.fades = [verify |-> {"succeeded"}]
        /\ VerifyPanel.rewinds = {}
        /\ VerifyPanel.renews = {}
        /\ VerifyPanel.clears = {}
        /\ VerifyPanel.closes = FALSE
        /\ VerifyPanel.keeps = FALSE
    BY DEF VerifyPanel, Blank
  <2> QED BY <2>3, <2>4 DEF Fits, Reads, Clearable
<1>20. Fits("CrsTool", CrsTool)
  <2>1. CrsTool.ops = [transformCoordinates |-> Button]
    BY DEF CrsTool, Blank
  <2>2. Operates("CrsTool", "transformCoordinates", Button)
    BY FollowsShapes, OpShapes, ThunksNamed DEF Operates, Decisions, Reads
  <2>3. \A t \in DOMAIN CrsTool.ops : Operates("CrsTool", t, CrsTool.ops[t])
    BY <2>1, <2>2
  <2>4. /\ CrsTool.once = {}
        /\ CrsTool.loads = {}
        /\ CrsTool.inWard = {}
        /\ CrsTool.unpicked = {}
        /\ CrsTool.picked = {}
        /\ CrsTool.ticks = {}
        /\ CrsTool.reacts = <<>>
        /\ CrsTool.polls = <<>>
        /\ CrsTool.fades = <<>>
        /\ CrsTool.rewinds = {}
        /\ CrsTool.renews = {}
        /\ CrsTool.clears = {}
        /\ CrsTool.closes = FALSE
        /\ CrsTool.keeps = FALSE
    BY DEF CrsTool, Blank
  <2> QED BY <2>3, <2>4 DEF Fits, Reads, Clearable
<1>21. Fits("GeorefPage", GeorefPage)
  <2>1. GeorefPage.ops = [previewGeoref |-> Link,
                        applyGeoref |-> [Button EXCEPT !.rests = {"source"}]]
    BY DEF GeorefPage, Blank
  <2>2. Operates("GeorefPage", "previewGeoref", Link)
    BY FollowsShapes, OpShapes, ThunksNamed DEF Operates, Decisions, Reads
  <2>3. Operates("GeorefPage", "applyGeoref", [Button EXCEPT !.rests = {"source"}])
    BY FollowsShapes, OpShapes, ThunksNamed DEF Operates, Decisions, Reads
  <2>4. \A t \in DOMAIN GeorefPage.ops : Operates("GeorefPage", t, GeorefPage.ops[t])
    BY <2>1, <2>2, <2>3
  <2>5. /\ GeorefPage.once = {"fetchCrsList"}
        /\ GeorefPage.loads = {"fetchSources"}
        /\ GeorefPage.inWard = {}
        /\ GeorefPage.unpicked = {}
        /\ GeorefPage.picked = {"fetchSourceDetail"}
        /\ GeorefPage.ticks = {}
        /\ GeorefPage.reacts = <<>>
        /\ GeorefPage.polls = <<>>
        /\ GeorefPage.fades = <<>>
        /\ GeorefPage.rewinds = {"preview", "apply"}
        /\ GeorefPage.renews = {"preview", "apply"}
        /\ GeorefPage.clears = {}
        /\ GeorefPage.closes = FALSE
        /\ GeorefPage.keeps = TRUE
    BY DEF GeorefPage, Blank
  <2> QED BY <2>4, <2>5 DEF Fits, Reads, Clearable
<1>22. Fits("ExtractionPage", ExtractionPage)
  <2>1. ExtractionPage.ops = [runExtraction |-> Button]
    BY DEF ExtractionPage, Blank
  <2>2. Operates("ExtractionPage", "runExtraction", Button)
    BY FollowsShapes, OpShapes, ThunksNamed DEF Operates, Decisions, Reads
  <2>3. \A t \in DOMAIN ExtractionPage.ops : Operates("ExtractionPage", t, ExtractionPage.ops[t])
    BY <2>1, <2>2
  <2>4. /\ ExtractionPage.once = {}
        /\ ExtractionPage.loads = {"fetchSources", "fetchExtractionRuns"}
        /\ ExtractionPage.inWard = {}
        /\ ExtractionPage.unpicked = {}
        /\ ExtractionPage.picked = {"fetchSourceFeatures"}
        /\ ExtractionPage.ticks = {}
        /\ ExtractionPage.reacts = <<>>
        /\ ExtractionPage.polls = [runs |-> Poll({"fetchSources", "fetchExtractionRuns"})]
        /\ ExtractionPage.fades = <<>>
        /\ ExtractionPage.rewinds = {"extract", "topology"}
        /\ ExtractionPage.renews = {}
        /\ ExtractionPage.clears = {}
        /\ ExtractionPage.closes = FALSE
        /\ ExtractionPage.keeps = FALSE
    BY DEF ExtractionPage, Blank
  <2> QED BY <2>3, <2>4 DEF Fits, Reads, Clearable, Poll
<1>23. Fits("TopologyPage", TopologyPage)
  <2>1. TopologyPage.ops = [runTopology |-> Does(Button, Often(Repeats, {"fetchTopologyIssues"})),
                          resolveIssue |-> Choice(Link, refreshGeometry),
                          acceptAllIssues |-> Does(Link, refreshGeometry)]
    BY DEF TopologyPage, Blank
  <2>2. {"fetchTopologyIssues"} \in SUBSET Reads
    BY DEF Reads
  <2>3. Follows("TopologyPage", Often(Repeats, {"fetchTopologyIssues"}))
    BY <2>2, FollowsShapes
  <2>4. "runTopology" \in DOMAIN rootReducer /\ "runTopology" \notin Decisions
    BY ThunksNamed DEF Decisions
  <2>5. Operates("TopologyPage", "runTopology", Does(Button, Often(Repeats,
          {"fetchTopologyIssues"})))
    BY OpShapes, <2>3, <2>4 DEF Operates
  <2>6. Operates("TopologyPage", "resolveIssue", Choice(Link, refreshGeometry))
    BY FollowsShapes, OpShapes, ThunksNamed DEF Operates, Decisions, Reads
  <2>7. Operates("TopologyPage", "acceptAllIssues", Does(Link, refreshGeometry))
    BY FollowsShapes, OpShapes, ThunksNamed DEF Operates, Decisions, Reads
  <2>8. \A t \in DOMAIN TopologyPage.ops : Operates("TopologyPage", t, TopologyPage.ops[t])
    BY <2>1, <2>5, <2>6, <2>7
  <2>9. /\ TopologyPage.once = {}
        /\ TopologyPage.loads = {"fetchSources"}
        /\ TopologyPage.inWard = {}
        /\ TopologyPage.unpicked = {}
        /\ TopologyPage.picked = {"fetchTopologyIssues", "fetchSourceFeatures"}
        /\ TopologyPage.ticks = {}
        /\ TopologyPage.reacts = <<>>
        /\ TopologyPage.polls = <<>>
        /\ TopologyPage.fades = <<>>
        /\ TopologyPage.rewinds = {"extract", "topology"}
        /\ TopologyPage.renews = {}
        /\ TopologyPage.clears = {}
        /\ TopologyPage.closes = FALSE
        /\ TopologyPage.keeps = FALSE
    BY DEF TopologyPage, Blank
  <2> QED BY <2>8, <2>9 DEF Fits, Reads, Clearable
<1>24. Fits("ValidationPage", ValidationPage)
  <2>1. ValidationPage.ops = [runValidation |-> Does(InWard(Button), Often(Repeats, {"fetchReports", "fetchFindings"}))]
    BY DEF ValidationPage, Blank
  <2>2. {"fetchReports", "fetchFindings"} \in SUBSET Reads
    BY DEF Reads
  <2>3. Follows("ValidationPage", Often(Repeats, {"fetchReports", "fetchFindings"}))
    BY <2>2, FollowsShapes
  <2>4. "runValidation" \in DOMAIN rootReducer /\ "runValidation" \notin Decisions
    BY ThunksNamed DEF Decisions
  <2>5. Operates("ValidationPage", "runValidation", Does(InWard(Button), Often(Repeats,
          {"fetchReports", "fetchFindings"})))
    BY OpShapes, <2>3, <2>4 DEF Operates
  <2>6. \A t \in DOMAIN ValidationPage.ops : Operates("ValidationPage", t, ValidationPage.ops[t])
    BY <2>1, <2>5
  <2>7. /\ ValidationPage.once = {}
        /\ ValidationPage.loads = {}
        /\ ValidationPage.inWard = {"fetchReports", "fetchFindings"}
        /\ ValidationPage.unpicked = {}
        /\ ValidationPage.picked = {}
        /\ ValidationPage.ticks = {}
        /\ ValidationPage.reacts = <<>>
        /\ ValidationPage.polls = <<>>
        /\ ValidationPage.fades = <<>>
        /\ ValidationPage.rewinds = {"validate", "detect"}
        /\ ValidationPage.renews = {}
        /\ ValidationPage.clears = {}
        /\ ValidationPage.closes = FALSE
        /\ ValidationPage.keeps = FALSE
    BY DEF ValidationPage, Blank
  <2> QED BY <2>6, <2>7 DEF Fits, Reads, Clearable
<1>25. Fits("ExchangePage", ExchangePage)
  BY DEF Fits, Reads, Clearable, ExchangePage, Blank
<1>26. Fits("ActivityPage", ActivityPage)
  <2>1. ActivityPage.ops = [fetchJobs |-> Link,
                          fetchAudit |-> Link]
    BY DEF ActivityPage, Blank
  <2>2. Operates("ActivityPage", "fetchJobs", Link)
    BY FollowsShapes, OpShapes, ThunksNamed DEF Operates, Decisions, Reads
  <2>3. Operates("ActivityPage", "fetchAudit", Link)
    BY FollowsShapes, OpShapes, ThunksNamed DEF Operates, Decisions, Reads
  <2>4. \A t \in DOMAIN ActivityPage.ops : Operates("ActivityPage", t, ActivityPage.ops[t])
    BY <2>1, <2>2, <2>3
  <2>5. /\ ActivityPage.once = {"fetchJobs", "fetchAudit"}
        /\ ActivityPage.loads = {}
        /\ ActivityPage.inWard = {}
        /\ ActivityPage.unpicked = {}
        /\ ActivityPage.picked = {}
        /\ ActivityPage.ticks = {}
        /\ ActivityPage.reacts = <<>>
        /\ ActivityPage.polls = <<>>
        /\ ActivityPage.fades = <<>>
        /\ ActivityPage.rewinds = {}
        /\ ActivityPage.renews = {}
        /\ ActivityPage.clears = {}
        /\ ActivityPage.closes = FALSE
        /\ ActivityPage.keeps = FALSE
    BY DEF ActivityPage, Blank
  <2> QED BY <2>4, <2>5 DEF Fits, Reads, Clearable
<1>27. Fits("SettingsPage", SettingsPage)
  <2>1. SettingsPage.ops = [fetchHealth |-> Link,
                          triggerRefresh |-> [Link EXCEPT !.rests = {"config"}],
                          saveConfig |-> Button]
    BY DEF SettingsPage, Blank
  <2>2. Operates("SettingsPage", "fetchHealth", Link)
    BY FollowsShapes, OpShapes, ThunksNamed DEF Operates, Decisions, Reads
  <2>3. Operates("SettingsPage", "triggerRefresh", [Link EXCEPT !.rests = {"config"}])
    BY FollowsShapes, OpShapes, ThunksNamed DEF Operates, Decisions, Reads
  <2>4. Operates("SettingsPage", "saveConfig", Button)
    BY FollowsShapes, OpShapes, ThunksNamed DEF Operates, Decisions, Reads
  <2>5. \A t \in DOMAIN SettingsPage.ops : Operates("SettingsPage", t, SettingsPage.ops[t])
    BY <2>1, <2>2, <2>3, <2>4
  <2>6. /\ SettingsPage.once = {"fetchHealth"}
        /\ SettingsPage.loads = {}
        /\ SettingsPage.inWard = {}
        /\ SettingsPage.unpicked = {}
        /\ SettingsPage.picked = {}
        /\ SettingsPage.ticks = {}
        /\ SettingsPage.reacts = <<>>
        /\ SettingsPage.polls = [config |-> Poll({"fetchAdminConfig"})]
        /\ SettingsPage.fades = [save |-> {"succeeded", "failed"}]
        /\ SettingsPage.rewinds = {}
        /\ SettingsPage.renews = {}
        /\ SettingsPage.clears = {}
        /\ SettingsPage.closes = FALSE
        /\ SettingsPage.keeps = FALSE
    BY DEF SettingsPage, Blank
  <2> QED BY <2>5, <2>6 DEF Fits, Reads, Clearable, Poll
<1> QED BY <1>1, <1>2, <1>3, <1>4, <1>5, <1>6, <1>7, <1>8, <1>9, <1>10, <1>11, <1>12,
           <1>13, <1>14, <1>15, <1>16, <1>17, <1>18, <1>19, <1>20, <1>21, <1>22, <1>23,
           <1>24, <1>25, <1>26, <1>27 DEF Components

-----------------------------------------------------------------------------
(* What a cell, a call and a timer are. *)

Args == Ids \cup Wards \cup {AllWards}
Data == [of : Args \cup {Nobody}, busy : BOOLEAN]
Statuses == {"idle", "loading", "succeeded", "failed"}
Cell == [status : Statuses, data : Data]

StoreFits(s) == DOMAIN s = Cells(start.watched) /\ \A k \in DOMAIN s : s[k] \in Cell

Scoped == {"villages", "property"}

CallFits(c) ==
  /\ c = [thunk |-> c.thunk, arg |-> c.arg, todo |-> c.todo, stage |-> c.stage,
          brings |-> c.brings, after |-> c.after]
  /\ c.thunk \in DOMAIN rootReducer
  /\ c.arg \in Args
  /\ c.todo \in Seq(Endpoint)
  /\ c.stage \in {"sent", "answered", "refused"}
  /\ c.stage = "sent" <=> c.todo # <<>>
  /\ c.brings \in Data
  /\ rootReducer[c.thunk].slot \in Scoped =>
       /\ \A i \in DOMAIN c.todo : c.todo[i].by # "all"
       /\ c.stage = "answered" => c.brings.of = c.arg
  /\ Follows(c.after.by, c.after.does)
  /\ c.after.does.times # 0 => c.after.by \in DOMAIN Components
  /\ c.after.ward \in Wards \cup {AllWards}
  /\ c.after.row \in Ids \cup {Nobody}

TimerFits(x) ==
  /\ x = [by |-> x.by, ward |-> x.ward, row |-> x.row, calls |-> x.calls,
          fades |-> x.fades, left |-> x.left]
  /\ x.by \in DOMAIN Components
  /\ x.ward \in Wards \cup {AllWards}
  /\ x.row \in Ids \cup {Nobody}
  /\ x.calls \subseteq Reads /\ x.fades \subseteq {"upload"}
  /\ x.left \in 1..Repeats

-----------------------------------------------------------------------------
(* What the reducers do to a cell. *)

LEMMA IdleShape == Idle \in Cell /\ Empty \in Data /\ Empty.of = Nobody
BY DEF Idle, Empty, Cell, Data, Statuses

LEMMA PendingShape ==
  ASSUME NEW t \in DOMAIN rootReducer, NEW cell \in Cell
  PROVE  /\ Pending(t, cell) \in Cell
         /\ Pending(t, cell).data \in {cell.data, Empty}
         /\ rootReducer[t].loading = "always" => Pending(t, cell).status = "loading"
<1>1. rootReducer[t].loading \in {"always", "fromIdle", "afresh", "never"}
  BY RootReducerSound DEF Sound
<1>2. /\ cell.data \in Data /\ cell.status \in Statuses
      /\ cell = [status |-> cell.status, data |-> cell.data]
  BY DEF Cell
<1>3. /\ [cell EXCEPT !.status = "loading"] \in Cell
      /\ [cell EXCEPT !.status = "loading"].data = cell.data
      /\ [cell EXCEPT !.status = "loading"].status = "loading"
  BY <1>2 DEF Cell, Statuses
<1>4. [status |-> "loading", data |-> Empty] \in Cell
  BY IdleShape DEF Cell, Statuses
<1> QED BY <1>1, <1>2, <1>3, <1>4 DEF Pending

LEMMA MarkedShape ==
  ASSUME NEW c, NEW cell \in Cell
  PROVE  Marked(c, cell) \in Cell /\ Marked(c, cell).status = cell.status
<1>1. /\ cell.data \in Data /\ cell.status \in Statuses
      /\ cell = [status |-> cell.status, data |-> cell.data]
  BY DEF Cell
<1>2. /\ cell.data.of \in Args \cup {Nobody} /\ cell.data.busy \in BOOLEAN
  BY <1>1 DEF Data
<1> DEFINE of == IF cell.data.of = Nobody THEN AllWards ELSE cell.data.of
           busy == \/ cell.data.busy \/ c.thunk # "digitizeSource"
                   \/ cell.data.of \in {AllWards, c.arg, WardOf[c.arg]}
<1>3. of \in Args /\ busy \in BOOLEAN
  BY <1>2 DEF Args
<1>4. [of |-> of, busy |-> busy] \in Data
  BY <1>3 DEF Data
<1>5. Marked(c, cell) = [cell EXCEPT !.data = [of |-> of, busy |-> busy]]
  BY DEF Marked
<1> QED BY <1>1, <1>4, <1>5 DEF Cell

LEMMA FulfilledShape ==
  ASSUME NEW c, CallFits(c), c.stage = "answered", NEW cell \in Cell
  PROVE  /\ Fulfilled(c, cell) \in Cell
         /\ rootReducer[c.thunk].slot = "villages" =>
              Fulfilled(c, cell).data.of \in {cell.data.of, ward}
         /\ rootReducer[c.thunk].slot = "property" => Fulfilled(c, cell).data.of = cell.data.of
<1>1. /\ cell.data \in Data /\ cell.status \in Statuses /\ c.brings \in Data
  BY DEF Cell, CallFits
<1>2. Fulfilled(c, cell) \in Cell
  BY <1>1 DEF Fulfilled, Cell, Statuses
<1>3. Sound(c.thunk, rootReducer[c.thunk])
  BY RootReducerSound DEF CallFits
<1>4. rootReducer[c.thunk].slot = "villages" => Fulfilled(c, cell).data.of \in {cell.data.of, ward}
  BY <1>3 DEF Sound, Fulfilled, CallFits, Scoped
<1>5. rootReducer[c.thunk].slot = "property" => Fulfilled(c, cell).data.of = cell.data.of
  BY <1>3 DEF Sound, Fulfilled, CallFits, Scoped
<1> QED BY <1>2, <1>4, <1>5

LEMMA RejectedShape ==
  ASSUME NEW c, NEW cell \in Cell
  PROVE  Rejected(c, cell) \in Cell /\ Rejected(c, cell).data \in {cell.data, Empty}
<1>1. cell.data \in Data /\ cell.status \in Statuses
  BY DEF Cell
<1> QED BY <1>1, IdleShape DEF Rejected, Cell, Statuses

(* What a cell is after the calls that begin, or after an answer. *)
LEMMA BegunShape ==
  ASSUME NEW cs, \A c \in cs : c.thunk \in DOMAIN rootReducer,
         NEW s, \A k \in DOMAIN s : s[k] \in Cell
  PROVE  /\ DOMAIN Begun(cs, s) = DOMAIN s
         /\ \A k \in DOMAIN s :
              /\ Begun(cs, s)[k] \in Cell
              /\ k[1] \in Scoped => Begun(cs, s)[k].data.of \in {s[k].data.of, Nobody}
              /\ k[1] \in Deciding => \/ Begun(cs, s)[k].status = "loading"
                                      \/ Begun(cs, s)[k].status = s[k].status
              /\ k[1] \in Deciding => \A c \in cs : CellOf(c.thunk, c.arg) = k =>
                                        Begun(cs, s)[k].status = "loading"
<1>1. DOMAIN Begun(cs, s) = DOMAIN s
  BY DEF Begun
<1>2. ASSUME NEW k \in DOMAIN s
      PROVE  /\ Begun(cs, s)[k] \in Cell
             /\ k[1] \in Scoped => Begun(cs, s)[k].data.of \in {s[k].data.of, Nobody}
             /\ k[1] \in Deciding => \/ Begun(cs, s)[k].status = "loading"
                                     \/ Begun(cs, s)[k].status = s[k].status
             /\ k[1] \in Deciding => \A c \in cs : CellOf(c.thunk, c.arg) = k =>
                                       Begun(cs, s)[k].status = "loading"
  <2> DEFINE own == {c \in cs : CellOf(c.thunk, c.arg) = k}
             marking == {c \in cs : MarksIn(c, k[1], "click")}
             mine == CHOOSE c \in own : TRUE
             marker == CHOOSE c \in marking : TRUE
  <2>1. Begun(cs, s)[k] = IF own # {} THEN Pending(mine.thunk, s[k])
                         ELSE IF marking # {} THEN Marked(marker, s[k])
                         ELSE s[k]
    BY DEF Begun
  <2> HIDE DEF own, marking, mine, marker
  <2>2. CASE own # {}
    <3>1. mine \in cs /\ CellOf(mine.thunk, mine.arg) = k
      BY <2>2 DEF own, mine
    <3>2. Begun(cs, s)[k] = Pending(mine.thunk, s[k])
      BY <2>1, <2>2
    <3>3. Sound(mine.thunk, rootReducer[mine.thunk]) /\ rootReducer[mine.thunk].slot = k[1]
      BY <3>1, RootReducerSound DEF CellOf
    <3>4. k[1] \in Deciding => rootReducer[mine.thunk].loading = "always"
      BY <3>3 DEF Sound, Deciding, Decisions
    <3>5. mine.thunk \in DOMAIN rootReducer
      BY <3>1
    <3> QED BY <3>2, <3>4, <3>5, PendingShape, IdleShape
  <2>3. CASE own = {} /\ marking # {}
    <3>1. Begun(cs, s)[k] = Marked(marker, s[k])
      BY <2>1, <2>3
    <3>2. marker \in cs /\ k[1] \in rootReducer[marker.thunk].marks
      BY <2>3 DEF MarksIn, marker, marking
    <3>3. Sound(marker.thunk, rootReducer[marker.thunk])
      BY <3>2, RootReducerSound
    <3>4. k[1] \notin Scoped /\ k[1] \notin Deciding
      BY <3>2, <3>3 DEF Sound, Scoped, Deciding
    <3> QED BY <3>1, <3>4, MarkedShape
  <2>4. CASE own = {} /\ marking = {}
    <3>1. Begun(cs, s)[k] = s[k]
      BY <2>1, <2>4
    <3> QED BY <3>1, <2>4 DEF own
  <2> QED BY <2>2, <2>3, <2>4
<1> QED BY <1>1, <1>2

LEMMA TakenShape ==
  ASSUME NEW c, CallFits(c), c.stage \in {"answered", "refused"},
         NEW s, \A k \in DOMAIN s : s[k] \in Cell
  PROVE  /\ DOMAIN Taken(c, s) = DOMAIN s
         /\ \A k \in DOMAIN s :
              /\ Taken(c, s)[k] \in Cell
              /\ k[1] = "villages" => Taken(c, s)[k].data.of \in {s[k].data.of, Nobody, ward}
              /\ k[1] = "property" => Taken(c, s)[k].data.of \in {s[k].data.of, Nobody}
              /\ k[1] \in Deciding /\ k # CellOf(c.thunk, c.arg) =>
                   Taken(c, s)[k].status = s[k].status
<1>1. DOMAIN Taken(c, s) = DOMAIN s
  BY DEF Taken
<1>2. Sound(c.thunk, rootReducer[c.thunk])
  BY RootReducerSound DEF CallFits
<1>3. ASSUME NEW k \in DOMAIN s
      PROVE  /\ Taken(c, s)[k] \in Cell
             /\ k[1] = "villages" => Taken(c, s)[k].data.of \in {s[k].data.of, Nobody, ward}
             /\ k[1] = "property" => Taken(c, s)[k].data.of \in {s[k].data.of, Nobody}
             /\ k[1] \in Deciding /\ k # CellOf(c.thunk, c.arg) =>
                  Taken(c, s)[k].status = s[k].status
  <2> DEFINE T == Taken(c, s)[k]
             marks == c.stage = "answered" /\ \E when \in {"accepted", "click"} : MarksIn(c, k[1], when)
             unmarks == c.stage = "refused" /\ MarksIn(c, k[1], "click")
             leaves == /\ c.stage = "answered" /\ c.thunk = "fetchProperties" /\ k[1] = "property"
                       /\ ~(s[k].data.of \in Ids /\ WardOf[s[k].data.of] = c.arg)
  <2>1. T = IF k = CellOf(c.thunk, c.arg)
              THEN IF c.stage = "answered" THEN Fulfilled(c, s[k]) ELSE Rejected(c, s[k])
            ELSE IF marks THEN Marked(c, s[k])
            ELSE IF unmarks THEN [s[k] EXCEPT !.data.busy = FALSE]
            ELSE IF leaves THEN [s[k] EXCEPT !.data = Empty]
            ELSE s[k]
    BY DEF Taken
  <2>2. s[k] \in Cell /\ s[k].data \in Data /\ s[k].status \in Statuses
    BY DEF Cell
  <2>3. marks \/ unmarks => k[1] \notin Scoped \cup Deciding
    BY <1>2 DEF Sound, MarksIn, Scoped, Deciding
  <2>4. leaves => k[1] = "property"
    OBVIOUS
  <2>5. "property" \notin Deciding /\ {"villages", "property"} = Scoped
    BY DEF Deciding, Scoped
  <2> HIDE DEF T, marks, unmarks, leaves
  <2>6. CASE k = CellOf(c.thunk, c.arg)
    <3>1. rootReducer[c.thunk].slot = k[1]
      BY <2>6 DEF CellOf
    <3>2. CASE c.stage = "answered"
      <4>1. T = Fulfilled(c, s[k])
        BY <2>1, <2>6, <3>2
      <4> QED BY <4>1, <3>1, <3>2, <2>2, <2>6, FulfilledShape DEF T
    <3>3. CASE c.stage # "answered"
      <4>1. T = Rejected(c, s[k])
        BY <2>1, <2>6, <3>3
      <4> QED BY <4>1, <2>2, <2>6, RejectedShape, IdleShape DEF T
    <3> QED BY <3>2, <3>3
  <2>7. CASE k # CellOf(c.thunk, c.arg) /\ marks
    <3>1. T = Marked(c, s[k])
      BY <2>1, <2>7
    <3> QED BY <3>1, <2>2, <2>3, <2>5, <2>7, MarkedShape DEF T
  <2>8. CASE k # CellOf(c.thunk, c.arg) /\ ~marks /\ unmarks
    <3>1. T = [s[k] EXCEPT !.data.busy = FALSE]
      BY <2>1, <2>8
    <3>2. [s[k].data EXCEPT !.busy = FALSE] \in Data
      BY <2>2 DEF Data
    <3>3. T \in Cell
      BY <3>1, <3>2, <2>2 DEF Cell
    <3> QED BY <3>3, <2>3, <2>5, <2>8 DEF T
  <2>9. CASE k # CellOf(c.thunk, c.arg) /\ ~marks /\ ~unmarks /\ leaves
    <3>1. T = [s[k] EXCEPT !.data = Empty]
      BY <2>1, <2>9
    <3>2. /\ [s[k] EXCEPT !.data = Empty] \in Cell
          /\ [s[k] EXCEPT !.data = Empty].data.of = Nobody
          /\ [s[k] EXCEPT !.data = Empty].status = s[k].status
      BY <2>2, IdleShape DEF Cell
    <3> QED BY <3>1, <3>2, <2>2, <2>4, <2>5, <2>9 DEF T
  <2>10. CASE k # CellOf(c.thunk, c.arg) /\ ~marks /\ ~unmarks /\ ~leaves
    <3>1. T = s[k]
      BY <2>1, <2>10
    <3> QED BY <3>1, <2>2 DEF T
  <2> QED BY <2>6, <2>7, <2>8, <2>9, <2>10
<1> QED BY <1>1, <1>3

LEMMA ClearedShape ==
  ASSUME NEW slots, NEW s, \A k \in DOMAIN s : s[k] \in Cell
  PROVE  /\ DOMAIN Cleared(slots, s) = DOMAIN s
         /\ \A k \in DOMAIN s :
              /\ Cleared(slots, s)[k] \in Cell
              /\ k[1] \in slots => Cleared(slots, s)[k] = Idle
              /\ k[1] \notin slots => Cleared(slots, s)[k] = s[k]
BY IdleShape DEF Cleared

LEMMA ResetShape ==
  ASSUME NEW slots, NEW s, \A k \in DOMAIN s : s[k] \in Cell
  PROVE  /\ DOMAIN Reset(slots, s) = DOMAIN s
         /\ \A k \in DOMAIN s : /\ Reset(slots, s)[k] \in Cell
                                /\ Reset(slots, s)[k].data = s[k].data
                                /\ k[1] \notin slots => Reset(slots, s)[k] = s[k]
<1>1. DOMAIN Reset(slots, s) = DOMAIN s
  BY DEF Reset
<1>2. \A k \in DOMAIN s : /\ [s[k] EXCEPT !.status = "idle"] \in Cell
                          /\ [s[k] EXCEPT !.status = "idle"].data = s[k].data
  BY DEF Cell, Statuses
<1> QED BY <1>1, <1>2 DEF Reset

-----------------------------------------------------------------------------
(* Calls in flight. *)

CellsFit(s) == \A k \in DOMAIN s : s[k] \in Cell
BagFits(b) == \A c \in DOMAIN b : CallFits(c) /\ b[c] \in Nat \ {0}
Reading(cs) == \A c \in cs : CallFits(c) /\ c.thunk \in Reads

(* What a decision under way looks like: it is the only one of its kind,   *)
(* and its slot says so.                                                    *)
SlotOf(c) == <<rootReducer[c.thunk].slot, Nobody>>

Alone(b, s) ==
  \A c \in DOMAIN b : c.thunk \in Decisions =>
    /\ b[c] = 1
    /\ SlotOf(c) \in DOMAIN s /\ s[SlotOf(c)].status = "loading"
    /\ \A d \in DOMAIN b : d.thunk = c.thunk => d = c

LEMMA ReadsDecideNothing == Reads \cap Decisions = {} /\ Reads \subseteq DOMAIN rootReducer
BY ThunksNamed DEF Reads, Decisions

LEMMA DecisionSlots ==
  \A t \in DOMAIN rootReducer :
    /\ t \in Decisions <=> rootReducer[t].slot \in Deciding
    /\ rootReducer[t].slot \in Deciding => rootReducer[t].slot \notin Keyed
    /\ t \in Decisions => rootReducer[t].loading = "always"
BY RootReducerSound DEF Sound, Decisions, Deciding, Keyed

LEMMA DecisionsDiffer ==
  \A t, u \in Decisions \cap DOMAIN rootReducer : rootReducer[t].slot = rootReducer[u].slot => t = u
BY RootReducerSound DEF Sound, Decisions

LEMMA BagJoined ==
  ASSUME NEW b, BagFits(b), NEW cs, \A c \in cs : CallFits(c)
  PROVE  /\ DOMAIN (b (+) SetToBag(cs)) = DOMAIN b \cup cs
         /\ BagFits(b (+) SetToBag(cs))
         /\ \A c \in DOMAIN b \ cs : (b (+) SetToBag(cs))[c] = b[c]
         /\ \A c \in cs \ DOMAIN b : (b (+) SetToBag(cs))[c] = 1
<1> DEFINE B == b (+) SetToBag(cs)
<1>1. /\ DOMAIN SetToBag(cs) = cs
      /\ \A c \in cs : SetToBag(cs)[c] = 1
  BY DEF SetToBag
<1>2. /\ DOMAIN B = DOMAIN b \cup cs
      /\ \A c \in DOMAIN B : B[c] = (IF c \in DOMAIN b THEN b[c] ELSE 0) + (IF c \in cs THEN 1 ELSE 0)
  BY <1>1 DEF (+)
<1>3. \A c \in DOMAIN b : b[c] \in Nat \ {0}
  BY DEF BagFits
<1> HIDE DEF B
<1>4. \A c \in DOMAIN B : B[c] \in Nat \ {0}
  BY <1>2, <1>3
<1>5. BagFits(B)
  BY <1>2, <1>4 DEF BagFits
<1>6. /\ \A c \in DOMAIN b \ cs : B[c] = b[c]
      /\ \A c \in cs \ DOMAIN b : B[c] = 1
  BY <1>2, <1>3
<1> QED BY <1>2, <1>5, <1>6 DEF B

LEMMA BagLeft ==
  ASSUME NEW b, BagFits(b), NEW c \in DOMAIN b
  PROVE  /\ DOMAIN (b (-) SetToBag({c})) \subseteq DOMAIN b
         /\ BagFits(b (-) SetToBag({c}))
         /\ \A d \in DOMAIN (b (-) SetToBag({c})) : d # c => (b (-) SetToBag({c}))[d] = b[d]
         /\ b[c] = 1 => c \notin DOMAIN (b (-) SetToBag({c}))
<1> DEFINE B == b (-) SetToBag({c})
<1>1. /\ DOMAIN SetToBag({c}) = {c}
      /\ SetToBag({c})[c] = 1
  BY DEF SetToBag
<1>2. \A d \in DOMAIN b : b[d] \in Nat \ {0}
  BY DEF BagFits
<1> DEFINE D == [d \in DOMAIN b |-> IF d \in DOMAIN SetToBag({c}) THEN b[d] - SetToBag({c})[d] ELSE b[d]]
<1>3. B = [d \in {e \in DOMAIN D : D[e] > 0} |-> D[d]]
  BY DEF (-)
<1>4. /\ DOMAIN D = DOMAIN b
      /\ \A d \in DOMAIN b : D[d] = IF d = c THEN b[d] - 1 ELSE b[d]
  BY <1>1, <1>2
<1> HIDE DEF B, D
<1>5. /\ DOMAIN B \subseteq DOMAIN b
      /\ \A d \in DOMAIN B : B[d] = D[d] /\ D[d] > 0
  BY <1>3, <1>4
<1>6. \A d \in DOMAIN B : B[d] \in Nat \ {0}
  BY <1>2, <1>4, <1>5
<1>7. BagFits(B)
  BY <1>5, <1>6 DEF BagFits
<1>8. \A d \in DOMAIN B : d # c => B[d] = b[d]
  BY <1>4, <1>5
<1>9. b[c] = 1 => c \notin DOMAIN B
  BY <1>4, <1>5
<1> QED BY <1>5, <1>7, <1>8, <1>9 DEF B

(* What leaves the decisions' slots as they are leaves decisions alone. *)
LEMMA AloneStays ==
  ASSUME NEW b, NEW s, NEW u, BagFits(b), Alone(b, s), DOMAIN u = DOMAIN s,
         \A k \in DOMAIN s : k[1] \in Deciding => u[k].status \in {s[k].status, "loading"}
  PROVE  Alone(b, u)
<1>1. SUFFICES ASSUME NEW c \in DOMAIN b, c.thunk \in Decisions
               PROVE  /\ b[c] = 1
                      /\ SlotOf(c) \in DOMAIN u /\ u[SlotOf(c)].status = "loading"
                      /\ \A d \in DOMAIN b : d.thunk = c.thunk => d = c
  BY DEF Alone
<1>2. SlotOf(c)[1] \in Deciding
  BY <1>1, DecisionSlots DEF SlotOf, BagFits, CallFits
<1> QED BY <1>1, <1>2 DEF Alone

LEMMA AloneFewer ==
  ASSUME NEW b, NEW s, NEW a, Alone(b, s), DOMAIN a \subseteq DOMAIN b,
         \A c \in DOMAIN a : c.thunk \in Decisions => a[c] = b[c]
  PROVE  Alone(a, s)
BY DEF Alone

(* Reading disturbs nothing: the calls a page makes to show something.     *)
LEMMA ReadsDispatched ==
  ASSUME NEW cs, Reading(cs), NEW s, CellsFit(s), NEW b, BagFits(b), Alone(b, s), Dispatch(cs, s, b)
  PROVE  /\ DOMAIN store' = DOMAIN s /\ CellsFit(store')
         /\ BagFits(calls') /\ Alone(calls', store')
         /\ \A k \in DOMAIN s : k[1] \in Scoped => store'[k].data.of \in {s[k].data.of, Nobody}
<1> DEFINE made == Made(cs, s)
<1>1. store' = Begun(made, s) /\ calls' = b (+) SetToBag(made)
  BY DEF Dispatch
<1>2. made \subseteq cs
  BY DEF Made
<1> HIDE DEF made
<1>3. /\ \A c \in made : CallFits(c) /\ c.thunk \in Reads
      /\ \A c \in made : c.thunk \in DOMAIN rootReducer
  BY <1>2 DEF Reading, CallFits
<1>4. \A k \in DOMAIN s : s[k] \in Cell
  BY DEF CellsFit
<1>5. /\ DOMAIN store' = DOMAIN s
      /\ \A k \in DOMAIN s :
           /\ store'[k] \in Cell
           /\ k[1] \in Scoped => store'[k].data.of \in {s[k].data.of, Nobody}
           /\ k[1] \in Deciding => store'[k].status \in {s[k].status, "loading"}
  BY <1>1, <1>3, <1>4, BegunShape
<1>6. Alone(b, store')
  BY <1>5, AloneStays
<1>7. /\ DOMAIN calls' = DOMAIN b \cup made /\ BagFits(calls')
      /\ \A c \in DOMAIN b \ made : calls'[c] = b[c]
  BY <1>1, <1>3, BagJoined
<1>8. Alone(calls', store')
  BY <1>3, <1>6, <1>7, ReadsDecideNothing DEF Alone
<1> QED BY <1>5, <1>7, <1>8 DEF CellsFit

-----------------------------------------------------------------------------
(* Pages and the calls they make. *)

LEMMA RoutesKnown ==
  /\ Always \subseteq DOMAIN Components
  /\ \A p \in DOMAIN Routes : Routes[p] \subseteq DOMAIN Components
  /\ "alerts" \in DOMAIN Routes /\ "NdbiAlerts" \in Routes["alerts"]
  /\ {"GeorefPage", "SourceDetail", "MatchDetail", "OfficerDecision"}
       \cap (Always \cup Routes["alerts"]) = {}
<1>1. DOMAIN Components =
        {"App", "AppShell", "PipelineActivity", "ChatPanel", "OverviewPage", "UploadPanel",
         "SourceDetail", "SourcesPage", "IntegrationMapPage", "OfficerDecision", "MatchDetail",
         "MatchingPage", "AttributeMappingPage", "ConflictDetail", "ConflictsPage", "RecordsPage",
         "EpochComparison", "NdbiAlerts", "VerifyPanel", "CrsTool", "GeorefPage", "ExtractionPage",
         "TopologyPage", "ValidationPage", "ExchangePage", "ActivityPage", "SettingsPage"}
  BY DEF Components
<1>2. Always \subseteq DOMAIN Components
  BY <1>1 DEF Always
<1>3. \A p \in DOMAIN Routes : Routes[p] \subseteq DOMAIN Components
  BY <1>1 DEF Routes
<1>4. "alerts" \in DOMAIN Routes /\ Routes["alerts"] = {"NdbiAlerts", "VerifyPanel"}
  BY DEF Routes
<1>5. {"GeorefPage", "SourceDetail", "MatchDetail", "OfficerDecision"}
        \cap (Always \cup Routes["alerts"]) = {}
  BY <1>4 DEF Always
<1> QED BY <1>2, <1>3, <1>4, <1>5

LEMMA AlertsRewind ==
  "NdbiAlerts" \in DOMAIN Components /\ "property" \in Components["NdbiAlerts"].rewinds
<1>1. "NdbiAlerts" \in DOMAIN Components /\ Components["NdbiAlerts"] = NdbiAlerts
  BY DEF Components
<1>2. "property" \in NdbiAlerts.rewinds
  BY DEF NdbiAlerts, Blank
<1> QED BY <1>1, <1>2

LEMMA MountedKnown ==
  ASSUME page \in DOMAIN Routes
  PROVE  Mounted \subseteq DOMAIN Components /\ Routes[page] \subseteq Mounted
BY RoutesKnown DEF Mounted

LEMMA ClearedByPages ==
  ASSUME NEW ms, ms \subseteq DOMAIN Components
  PROVE  /\ All(ms, "rewinds") \subseteq Clearable /\ All(ms, "renews") \subseteq Clearable
         /\ Gone(ms) \subseteq Clearable
BY ComponentsFit DEF All, Gone, Fits

LEMMA ClearableSlots ==
  (Clearable \cup {"villages", "features"}) \cap Deciding = {}
BY DEF Clearable, Deciding

LEMMA NothingFollows == \A m : Follows(m, NothingMore) /\ NothingMore.times = 0
BY FollowsShapes DEF NothingMore

LEMMA CallShape ==
  ASSUME NEW t \in DOMAIN rootReducer, NEW arg \in Args, NEW after,
         Follows(after.by, after.does), after.does.times # 0 => after.by \in DOMAIN Components,
         after.ward \in Wards \cup {AllWards}, after.row \in Ids \cup {Nobody}
  PROVE  CallFits(Call(t, arg, after)) /\ Call(t, arg, after).thunk = t
                                       /\ Call(t, arg, after).arg = arg
<1> DEFINE c == Call(t, arg, after)
<1>1. /\ c.thunk = t /\ c.arg = arg /\ c.todo = rootReducer[t].asks /\ c.stage = "sent"
      /\ c.brings = Empty /\ c.after = after
      /\ c = [thunk |-> c.thunk, arg |-> c.arg, todo |-> c.todo, stage |-> c.stage,
              brings |-> c.brings, after |-> c.after]
  BY DEF Call
<1>2. rootReducer[t].asks \in Requests
  BY RootReducerSound DEF Sound
<1>3. rootReducer[t].slot \in Scoped => \A i \in DOMAIN c.todo : c.todo[i].by # "all"
  BY <1>1, RootReducerSound DEF Sound, Scoped
<1> HIDE DEF c
<1>4. CallFits(c)
  BY <1>1, <1>2, <1>3, IdleShape DEF CallFits, Requests
<1> QED BY <1>1, <1>4 DEF c

LEMMA TargetShape ==
  ASSUME NEW m, NEW t, NEW w \in Wards \cup {AllWards}, NEW row \in Ids \cup {Nobody}
  PROVE  Target(m, t, w, row) \in Args
BY DEF Target, Args

LEMMA NoAfterShape ==
  /\ Follows(NoAfter.by, NoAfter.does) /\ NoAfter.does.times = 0
  /\ NoAfter.ward = AllWards /\ NoAfter.row = Nobody
BY NothingFollows DEF NoAfter

LEMMA CallsOfRead ==
  ASSUME NEW m, NEW ts, ts \subseteq Reads,
         NEW w \in Wards \cup {AllWards}, NEW row \in Ids \cup {Nobody}
  PROVE  Reading(CallsOf(m, ts, w, row))
<1>1. SUFFICES ASSUME NEW t \in ts
               PROVE  CallFits(Call(t, Target(m, t, w, row), NoAfter))
                      /\ Call(t, Target(m, t, w, row), NoAfter).thunk \in Reads
  BY DEF Reading, CallsOf
<1>2. t \in DOMAIN rootReducer /\ t \in Reads
  BY <1>1, ReadsDecideNothing
<1> QED BY <1>2, TargetShape, NoAfterShape, CallShape

LEMMA ReadsJoined ==
  /\ Reading({})
  /\ \A cs, ds : Reading(cs) /\ Reading(ds) => Reading(cs \cup ds)
  /\ \A css : (\A cs \in css : Reading(cs)) => Reading(UNION css)
BY DEF Reading

LEMMA PageReads ==
  ASSUME NEW m \in DOMAIN Components, NEW w \in Wards \cup {AllWards}
  PROVE  /\ Reading(ForWard(m, w)) /\ Reading(Unpicked(m))
         /\ Reading(CallsOf(m, Components[m].once, w, Nobody))
<1>1. Fits(m, Components[m])
  BY ComponentsFit
<1>2. Reading(ForWard(m, w))
  <2> DEFINE ts == Components[m].loads \cup IF w = AllWards THEN {} ELSE Components[m].inWard
  <2>1. ts \subseteq Reads
    BY <1>1 DEF Fits
  <2>2. ForWard(m, w) = CallsOf(m, ts, w, Nobody)
    BY DEF ForWard
  <2> QED BY <2>1, <2>2, CallsOfRead
<1>3. Reading(Unpicked(m))
  BY <1>1, CallsOfRead DEF Fits, Unpicked
<1>4. Reading(CallsOf(m, Components[m].once, w, Nobody))
  BY <1>1, CallsOfRead DEF Fits
<1> QED BY <1>2, <1>3, <1>4

LEMMA AppearingReads ==
  ASSUME NEW ms, ms \subseteq DOMAIN Components, NEW w \in Wards \cup {AllWards}
  PROVE  Reading(Appearing(ms, w))
<1> DEFINE asked(m) == ForWard(m, w) \cup Unpicked(m) \cup CallsOf(m, Components[m].once, w, Nobody)
<1>1. \A m \in ms : Reading(asked(m))
  BY PageReads, ReadsJoined
<1> QED BY <1>1, ReadsJoined DEF Appearing

LEMMA ReactionsRead ==
  ASSUME page \in DOMAIN Routes, ward \in Wards \cup {AllWards}, NEW c, NEW s
  PROVE  Reading(Reactions(c, s))
<1> DEFINE slot == rootReducer[c.thunk].slot
           by(m) == Head(rootReducer[Components[m].reacts[slot]].asks).by
           rows(m) == {Call(Components[m].reacts[slot], row, NoAfter) : row \in {r \in Ids : WardOf[r] = ward}}
           asked(m) == IF by(m) = "row" THEN rows(m)
                         ELSE CallsOf(m, {Components[m].reacts[slot]}, ward, Nobody)
           ms == {n \in Mounted : slot \in DOMAIN Components[n].reacts}
<1>1. Reactions(c, s) \in {UNION {asked(m) : m \in ms}, {}}
  BY DEF Reactions
<1>2. ASSUME NEW m \in ms PROVE Reading(asked(m))
  <2>1. Components[m].reacts[slot] \in Reads
    BY MountedKnown, ComponentsFit DEF Fits
  <2>2. Reading(CallsOf(m, {Components[m].reacts[slot]}, ward, Nobody))
    BY <2>1, CallsOfRead
  <2>3. Reading(rows(m))
    BY <2>1, ReadsDecideNothing, NoAfterShape, CallShape DEF Reading, Args
  <2> QED BY <2>2, <2>3
<1> HIDE DEF asked, ms
<1>3. Reading(UNION {asked(m) : m \in ms})
  BY <1>2, ReadsJoined
<1> QED BY <1>1, <1>3, ReadsJoined

-----------------------------------------------------------------------------
(* The invariant. *)

Work == [of : Kinds, ward : Wards, job : Jobs]

PlacesFit ==
  /\ start \in Starts /\ page \in DOMAIN Routes /\ pick \in Ids \cup {Nobody}
  /\ ward \in Wards \cup {AllWards}

ClientFits ==
  /\ PlacesFit
  /\ DOMAIN store = Cells(start.watched) /\ CellsFit(store)
  /\ BagFits(calls)
  /\ \A x \in timers : TimerFits(x)
  /\ work \subseteq Work

VillagesOf(s, w) == \A k \in DOMAIN s : k[1] = "villages" => s[k].data.of \in {Nobody, w}
PropertyOf(s, row) == \A k \in DOMAIN s : k[1] = "property" => s[k].data.of \in {Nobody, row}

ClientInv ==
  /\ ClientFits
  /\ VillagesOf(store, ward)
  /\ page = "alerts" => PropertyOf(store, pick)
  /\ Alone(calls, store)

LEMMA InitInv == Init => ClientInv
<1> SUFFICES ASSUME Init PROVE ClientInv
  OBVIOUS
<1> DEFINE blank == [k \in Cells(start.watched) |-> Idle]
           cs == Appearing(Always \cup Routes[start.page], AllWards)
           made == Made(cs, blank)
<1>1. /\ start \in Starts /\ page = start.page /\ ward = AllWards /\ pick = Nobody
      /\ work = {} /\ timers = {}
      /\ store = Begun(made, blank) /\ calls = SetToBag(made)
  BY DEF Init
<1>2. page \in DOMAIN Routes
  BY <1>1, PagesAssumption
<1>3. Reading(cs)
  BY <1>1, <1>2, RoutesKnown, AppearingReads
<1>4. made \subseteq cs
  BY DEF Made
<1>5. /\ DOMAIN blank = Cells(start.watched)
      /\ \A k \in DOMAIN blank : blank[k] \in Cell /\ blank[k].data.of = Nobody
  BY IdleShape DEF Idle
<1> HIDE DEF made, cs, blank
<1>6. /\ \A c \in made : CallFits(c) /\ c.thunk \in Reads
      /\ \A c \in made : c.thunk \in DOMAIN rootReducer
  BY <1>3, <1>4 DEF Reading, CallFits
<1>7. /\ DOMAIN store = Cells(start.watched) /\ CellsFit(store)
      /\ \A k \in DOMAIN store : k[1] \in Scoped => store[k].data.of = Nobody
  BY <1>1, <1>5, <1>6, BegunShape DEF CellsFit
<1>8. DOMAIN calls = made /\ \A c \in made : calls[c] = 1
  BY <1>1 DEF SetToBag
<1>9. BagFits(calls)
  BY <1>6, <1>8 DEF BagFits
<1>10. Alone(calls, store)
  BY <1>6, <1>8, ReadsDecideNothing DEF Alone
<1>11. VillagesOf(store, ward) /\ PropertyOf(store, pick)
  BY <1>7 DEF VillagesOf, PropertyOf, Scoped
<1> QED BY <1>1, <1>2, <1>7, <1>9, <1>10, <1>11 DEF ClientInv, ClientFits, PlacesFit

(* A page changes the store and reads: what is left to show for each step. *)
LEMMA ReadStep ==
  ASSUME ClientInv, NEW cs, Reading(cs), NEW s, CellsFit(s), DOMAIN s = DOMAIN store,
         \A k \in DOMAIN s : k[1] \in Deciding => s[k].status = store[k].status,
         Dispatch(cs, s, calls), start' = start, work' = work,
         page' \in DOMAIN Routes, pick' \in Ids \cup {Nobody}, ward' \in Wards \cup {AllWards},
         \A x \in timers' : TimerFits(x),
         VillagesOf(s, ward'), page' = "alerts" => PropertyOf(s, pick')
  PROVE  ClientInv'
<1>1. CellsFit(store) /\ BagFits(calls) /\ Alone(calls, store)
  BY DEF ClientInv, ClientFits
<1>2. Alone(calls, s)
  BY <1>1, AloneStays
<1>3. /\ DOMAIN store' = DOMAIN s /\ CellsFit(store')
      /\ BagFits(calls') /\ Alone(calls', store')
      /\ \A k \in DOMAIN s : k[1] \in Scoped => store'[k].data.of \in {s[k].data.of, Nobody}
  BY <1>1, <1>2, ReadsDispatched
<1>4. VillagesOf(store', ward') /\ (page' = "alerts" => PropertyOf(store', pick'))
  BY <1>3 DEF VillagesOf, PropertyOf, Scoped
<1>5. start' \in Starts /\ DOMAIN store' = Cells(start'.watched) /\ work' \subseteq Work
  BY <1>3 DEF ClientInv, ClientFits, PlacesFit
<1> QED BY <1>3, <1>4, <1>5 DEF ClientInv, ClientFits, PlacesFit

LEMMA ClearedStatus ==
  ASSUME NEW slots, slots \subseteq Clearable \cup {"villages", "features"}, CellsFit(store)
  PROVE  /\ DOMAIN Cleared(slots, store) = DOMAIN store /\ CellsFit(Cleared(slots, store))
         /\ \A k \in DOMAIN store :
              /\ k[1] \in Deciding => Cleared(slots, store)[k].status = store[k].status
              /\ k[1] \in slots => Cleared(slots, store)[k].data.of = Nobody
              /\ Cleared(slots, store)[k].data.of \in {store[k].data.of, Nobody}
<1>1. \A k \in DOMAIN store : store[k] \in Cell
  BY DEF CellsFit
<1>2. Idle.data.of = Nobody
  BY IdleShape DEF Idle
<1>3. /\ DOMAIN Cleared(slots, store) = DOMAIN store
      /\ \A k \in DOMAIN store :
           /\ Cleared(slots, store)[k] \in Cell
           /\ k[1] \in slots => Cleared(slots, store)[k] = Idle
           /\ k[1] \notin slots => Cleared(slots, store)[k] = store[k]
  BY <1>1, ClearedShape
<1> QED BY <1>2, <1>3, ClearableSlots DEF CellsFit

LEMMA SelectWardInv ==
  ASSUME ClientInv, NEW w \in Wards \cup {AllWards}, SelectWard(w) PROVE ClientInv'
<1> DEFINE keeps == \E m \in Mounted : Components[m].keeps
           cs == UNION {ForWard(m, w) \cup IF keeps \/ pick = Nobody THEN {} ELSE Unpicked(m) : m \in Mounted}
           cleared == {"villages"} \cup IF keeps THEN {} ELSE All(Mounted, "rewinds") \cup Gone(Mounted)
           s == Cleared(cleared, store)
<1>1. /\ ward' = w /\ pick' = (IF keeps THEN pick ELSE Nobody)
      /\ timers' = timers \ Stopped(Mounted)
      /\ Dispatch(cs, s, calls)
      /\ work' = work /\ start' = start /\ page' = page
  BY DEF SelectWard
<1>2. /\ page \in DOMAIN Routes /\ pick \in Ids \cup {Nobody} /\ CellsFit(store)
      /\ \A x \in timers : TimerFits(x)
  BY DEF ClientInv, ClientFits, PlacesFit
<1>3. Mounted \subseteq DOMAIN Components
  BY <1>2, MountedKnown
<1>4. Reading(cs)
  <2>1. \A m \in Mounted : Reading(ForWard(m, w) \cup IF keeps \/ pick = Nobody THEN {} ELSE Unpicked(m))
    BY <1>3, PageReads, ReadsJoined
  <2> QED BY <2>1, ReadsJoined
<1>5. cleared \subseteq Clearable \cup {"villages", "features"} /\ "villages" \in cleared
  BY <1>3, ClearedByPages
<1>6. page = "alerts" => "property" \in cleared
  <2>1. SUFFICES ASSUME page = "alerts" PROVE "property" \in cleared
    OBVIOUS
  <2>2. ~keeps
    BY <1>3, <2>1, ComponentsFit, RoutesKnown DEF Fits, Mounted
  <2>3. "NdbiAlerts" \in Mounted
    BY <2>1, RoutesKnown DEF Mounted
  <2> QED BY <2>2, <2>3, AlertsRewind DEF All
<1> HIDE DEF cs, cleared, keeps
<1>7. /\ DOMAIN s = DOMAIN store /\ CellsFit(s)
      /\ \A k \in DOMAIN s : k[1] \in Deciding => s[k].status = store[k].status
      /\ VillagesOf(s, w) /\ (page = "alerts" => PropertyOf(s, pick'))
  BY <1>2, <1>5, <1>6, ClearedStatus DEF VillagesOf, PropertyOf
<1> HIDE DEF s
<1>8. page' \in DOMAIN Routes /\ pick' \in Ids \cup {Nobody} /\ \A x \in timers' : TimerFits(x)
  BY <1>1, <1>2
<1> QED BY <1>1, <1>4, <1>7, <1>8, ReadStep

LEMMA OpenInv ==
  ASSUME ClientInv, NEW p \in DOMAIN Routes, Open(p) PROVE ClientInv'
<1> DEFINE cs == Appearing(Routes[p], ward)
           cleared == Gone(Routes[page]) \cup All(Routes[p], "rewinds")
           s == Cleared(cleared, store)
<1>1. /\ page' = p /\ pick' = Nobody
      /\ timers' = timers \ Stopped(Routes[page])
      /\ Dispatch(cs, s, calls)
      /\ work' = work /\ start' = start /\ ward' = ward
  BY DEF Open
<1>2. /\ page \in DOMAIN Routes /\ ward \in Wards \cup {AllWards} /\ CellsFit(store)
      /\ \A x \in timers : TimerFits(x)
      /\ VillagesOf(store, ward)
  BY DEF ClientInv, ClientFits, PlacesFit
<1>3. Routes[p] \subseteq DOMAIN Components /\ Routes[page] \subseteq DOMAIN Components
  BY <1>2, RoutesKnown
<1>4. Reading(cs)
  BY <1>2, <1>3, AppearingReads
<1>5. cleared \subseteq Clearable \cup {"villages", "features"}
  BY <1>3, ClearedByPages
<1>6. p = "alerts" => "property" \in cleared
  BY RoutesKnown, AlertsRewind DEF All
<1> HIDE DEF cs, cleared
<1>7. /\ DOMAIN s = DOMAIN store /\ CellsFit(s)
      /\ \A k \in DOMAIN s : k[1] \in Deciding => s[k].status = store[k].status
      /\ VillagesOf(s, ward) /\ (p = "alerts" => PropertyOf(s, Nobody))
  BY <1>2, <1>5, <1>6, ClearedStatus DEF VillagesOf, PropertyOf
<1> HIDE DEF s
<1>8. \A x \in timers' : TimerFits(x)
  BY <1>1, <1>2
<1> QED BY <1>1, <1>2, <1>4, <1>7, <1>8, ReadStep

LEMMA PickInv ==
  ASSUME ClientInv, NEW row \in Ids, Pick(row) PROVE ClientInv'
<1> DEFINE ms == Routes[page]
           cs == UNION {CallsOf(m, Components[m].picked, ward, row) : m \in ms}
           s == Cleared(Gone(ms) \cup All(ms, "renews"), store)
           held == [k \in DOMAIN s |->
                      IF k[1] = "property" /\ "NdbiAlerts" \in ms
                        THEN [s[k] EXCEPT !.data = [of |-> row, busy |-> FALSE]] ELSE s[k]]
<1>1. /\ pick' = row
      /\ timers' = timers \ {x \in Stopped(ms) : Components[x.by].picked # {}}
      /\ Dispatch(cs, held, calls)
      /\ work' = work /\ start' = start /\ ward' = ward /\ page' = page
  BY DEF Pick
<1>2. /\ page \in DOMAIN Routes /\ ward \in Wards \cup {AllWards} /\ CellsFit(store)
      /\ \A x \in timers : TimerFits(x)
      /\ VillagesOf(store, ward)
  BY DEF ClientInv, ClientFits, PlacesFit
<1>3. ms \subseteq DOMAIN Components
  BY <1>2, RoutesKnown
<1>4. Reading(cs)
  <2>1. ASSUME NEW m \in ms PROVE Reading(CallsOf(m, Components[m].picked, ward, row))
    BY <1>2, <1>3, ComponentsFit, CallsOfRead DEF Fits
  <2> QED BY <2>1, ReadsJoined
<1>5. Gone(ms) \cup All(ms, "renews") \subseteq Clearable \cup {"villages", "features"}
  BY <1>3, ClearedByPages
<1>6. page = "alerts" => "NdbiAlerts" \in ms
  BY RoutesKnown
<1>7. /\ DOMAIN s = DOMAIN store /\ CellsFit(s)
      /\ \A k \in DOMAIN s : k[1] \in Deciding => s[k].status = store[k].status
      /\ VillagesOf(s, ward)
  BY <1>2, <1>5, ClearedStatus DEF VillagesOf
<1> HIDE DEF cs, s, ms
<1>8. [of |-> row, busy |-> FALSE] \in Data
  BY DEF Data, Args
<1>9. ASSUME NEW k \in DOMAIN s
      PROVE  /\ held[k] \in Cell /\ held[k].status = s[k].status
             /\ k[1] = "villages" => held[k] = s[k]
             /\ k[1] = "property" /\ "NdbiAlerts" \in ms => held[k].data.of = row
  <2>1. s[k] \in Cell
    BY <1>7 DEF CellsFit
  <2>2. /\ [s[k] EXCEPT !.data = [of |-> row, busy |-> FALSE]] \in Cell
        /\ [s[k] EXCEPT !.data = [of |-> row, busy |-> FALSE]].status = s[k].status
        /\ [s[k] EXCEPT !.data = [of |-> row, busy |-> FALSE]].data.of = row
    BY <2>1, <1>8 DEF Cell
  <2> QED BY <2>1, <2>2
<1>10. DOMAIN held = DOMAIN s
  OBVIOUS
<1> HIDE DEF held
<1>11. /\ DOMAIN held = DOMAIN store /\ CellsFit(held)
       /\ \A k \in DOMAIN held : k[1] \in Deciding => held[k].status = store[k].status
  BY <1>7, <1>9, <1>10 DEF CellsFit
<1>12. VillagesOf(held, ward) /\ (page = "alerts" => PropertyOf(held, row))
  BY <1>6, <1>7, <1>9, <1>10 DEF VillagesOf, PropertyOf
<1>13. \A x \in timers' : TimerFits(x)
  BY <1>1, <1>2
<1> QED BY <1>1, <1>2, <1>4, <1>11, <1>12, <1>13, ReadStep

LEMMA CloseInv == ASSUME ClientInv, Close PROVE ClientInv'
<1>1. /\ pick' = Nobody /\ store' = Cleared(Gone(Routes[page]), store)
      /\ work' = work /\ ward' = ward /\ calls' = calls /\ start' = start /\ page' = page
      /\ timers' = timers
  BY DEF Close
<1>2. /\ page \in DOMAIN Routes /\ CellsFit(store) /\ BagFits(calls)
      /\ VillagesOf(store, ward) /\ Alone(calls, store)
  BY DEF ClientInv, ClientFits, PlacesFit
<1>3. Routes[page] \subseteq DOMAIN Components
  BY <1>2, RoutesKnown
<1>4. PICK m \in Routes[page] : Components[m].closes
  BY DEF Close
<1>5. page # "alerts"
  BY <1>3, <1>4, ComponentsFit, RoutesKnown DEF Fits
<1>6. Gone(Routes[page]) \subseteq Clearable \cup {"villages", "features"}
  BY <1>3, ClearedByPages
<1>7. /\ DOMAIN store' = DOMAIN store /\ CellsFit(store')
      /\ \A k \in DOMAIN store : k[1] \in Deciding => store'[k].status = store[k].status
      /\ VillagesOf(store', ward)
  BY <1>1, <1>2, <1>6, ClearedStatus DEF VillagesOf
<1>8. Alone(calls, store')
  BY <1>2, <1>7, AloneStays
<1> QED BY <1>1, <1>5, <1>7, <1>8 DEF ClientInv, ClientFits, PlacesFit

(* A button is disabled while its call is under way: no second decision.   *)
LEMMA OperateInv ==
  ASSUME ClientInv, NEW m \in Mounted, NEW t \in DOMAIN Components[m].ops, Operate(m, t)
  PROVE  ClientInv'
<1> DEFINE op == Components[m].ops[t]
           call(w, does) == Call(t, Target(m, t, w, pick), [does |-> does, by |-> m, ward |-> ward, row |-> pick])
<1>1. PICK w \in (IF t = "uploadSource" THEN Wards ELSE {ward}),
           does \in {op.then} \cup IF op.choice THEN {NothingMore} ELSE {} :
             /\ SlotOf(call(w, does)) \in DOMAIN store
             /\ Dispatch({call(w, does)}, store, calls)
  BY DEF Operate, SlotOf, Call
<1>2. /\ Enabled(t, op) /\ work' = work /\ ward' = ward /\ start' = start /\ page' = page
      /\ pick' = pick /\ timers' = timers
  BY DEF Operate
<1>3. /\ page \in DOMAIN Routes /\ ward \in Wards \cup {AllWards} /\ pick \in Ids \cup {Nobody}
      /\ CellsFit(store) /\ BagFits(calls) /\ Alone(calls, store)
  BY DEF ClientInv, ClientFits, PlacesFit
<1>4. m \in DOMAIN Components /\ Operates(m, t, op)
  BY <1>3, MountedKnown, ComponentsFit DEF Fits
<1>5. Follows(m, does) /\ does \in {op.then, NothingMore} /\ w \in Wards \cup {AllWards}
  BY <1>1, <1>3, <1>4, NothingFollows DEF Operates
<1> DEFINE after == [does |-> does, by |-> m, ward |-> ward, row |-> pick]
           c == call(w, does)
           made == Made({c}, store)
<1>6. CallFits(c) /\ c.thunk = t /\ t \in DOMAIN rootReducer
  <2>1. /\ after.does = does /\ after.by = m /\ after.ward = ward /\ after.row = pick
    OBVIOUS
  <2>2. c = Call(t, Target(m, t, w, pick), after)
    OBVIOUS
  <2>3. Target(m, t, w, pick) \in Args /\ t \in DOMAIN rootReducer
    BY <1>3, <1>4, <1>5, TargetShape DEF Operates
  <2> HIDE DEF after, c
  <2> QED BY <1>3, <1>4, <1>5, <2>1, <2>2, <2>3, CallShape
<1>7. store' = Begun(made, store) /\ calls' = calls (+) SetToBag(made)
  BY <1>1 DEF Dispatch
<1>8. made \subseteq {c} /\ SlotOf(c) \in DOMAIN store
  BY <1>1 DEF Made
<1> HIDE DEF c, made
<1>9. /\ \A d \in made : CallFits(d) /\ d.thunk = t /\ d = c
      /\ \A d \in made : d.thunk \in DOMAIN rootReducer
  BY <1>6, <1>8
<1>10. /\ DOMAIN store' = DOMAIN store
       /\ \A k \in DOMAIN store :
            /\ store'[k] \in Cell
            /\ k[1] \in Scoped => store'[k].data.of \in {store[k].data.of, Nobody}
            /\ k[1] \in Deciding => store'[k].status \in {store[k].status, "loading"}
            /\ k[1] \in Deciding => \A d \in made : CellOf(d.thunk, d.arg) = k => store'[k].status = "loading"
  BY <1>3, <1>7, <1>9, BegunShape DEF CellsFit
<1>11. /\ DOMAIN calls' = DOMAIN calls \cup made /\ BagFits(calls')
       /\ \A d \in DOMAIN calls \ made : calls'[d] = calls[d]
       /\ \A d \in made \ DOMAIN calls : calls'[d] = 1
  BY <1>3, <1>7, <1>9, BagJoined
<1>12. Alone(calls, store')
  BY <1>3, <1>10, AloneStays
<1>13. Alone(calls', store')
  <2>1. CASE t \notin Decisions
    <3>1. \A d \in DOMAIN calls' : d.thunk \in Decisions => d \in DOMAIN calls /\ d \notin made
      BY <1>9, <1>11, <2>1
    <3> QED BY <1>11, <1>12, <3>1 DEF Alone
  <2>2. CASE t \in Decisions
    <3>1. rootReducer[t].slot \in Deciding /\ rootReducer[t].slot \notin Keyed
      BY <1>6, <2>2, DecisionSlots
    <3>2. SlotOf(c) = CellOf(c.thunk, c.arg) /\ SlotOf(c)[1] \in Deciding
      BY <1>6, <3>1 DEF SlotOf, CellOf
    <3>3. store[SlotOf(c)].status # "loading"
      BY <1>2, <1>4, <1>6, <1>8, <2>2 DEF Enabled, Operates, Is, SlotOf
    <3>4. \A d \in DOMAIN calls : d.thunk # t
      <4>1. \A d \in DOMAIN calls : d.thunk = t => SlotOf(d) = SlotOf(c)
        BY <1>6 DEF SlotOf
      <4> QED BY <1>3, <2>2, <3>3, <4>1 DEF Alone
    <3>5. c \in made => store'[SlotOf(c)].status = "loading" /\ calls'[c] = 1
      BY <1>6, <1>8, <1>10, <1>11, <3>2, <3>4
    <3>6. \A d \in DOMAIN calls' : \/ d \in DOMAIN calls /\ d \notin made /\ d.thunk # t
                                   \/ d \in made /\ d = c /\ d.thunk = t
      BY <1>9, <1>11, <3>4
    <3> QED BY <1>8, <1>10, <1>11, <1>12, <3>5, <3>6 DEF Alone
  <2> QED BY <2>1, <2>2
<1>14. CellsFit(store') /\ VillagesOf(store', ward) /\ (page = "alerts" => PropertyOf(store', pick))
  BY <1>10 DEF CellsFit, VillagesOf, PropertyOf, Scoped, ClientInv
<1> QED BY <1>2, <1>10, <1>11, <1>13, <1>14 DEF ClientInv, ClientFits, PlacesFit

(* An answer is taken once: its call is no longer in flight.  A decision's *)
(* call was the only one, so no other says it is under way.                 *)
LEMMA DeliverInv ==
  ASSUME ClientInv, NEW c \in InFlight, Deliver(c) PROVE ClientInv'
<1> DEFINE done == IF c.stage = "answered" \/ c.after.does.anyway THEN c.after.does ELSE NothingMore
           closes == done.closes /\ c.after.by \in Mounted
           slots == done.drops \cup IF closes THEN Gone(Mounted) ELSE {}
           s == Cleared(slots, Taken(c, store))
           follow == IF done.calls = {} THEN {} ELSE CallsOf(c.after.by, done.calls, c.after.ward, c.after.row)
           cs == follow \cup Reactions(c, s)
           b == calls (-) SetToBag({c})
           timer == [by |-> c.after.by, ward |-> c.after.ward, row |-> c.after.row,
                     calls |-> done.later, fades |-> done.fades, left |-> done.times]
<1>1. /\ c.stage \in {"answered", "refused"}
      /\ pick' = IF closes THEN Nobody ELSE pick
      /\ timers' = IF done.times = 0 THEN timers ELSE (timers \ Stopped({timer.by})) \cup {timer}
      /\ Dispatch(cs, s, b)
      /\ work' = work /\ ward' = ward /\ start' = start /\ page' = page
  BY DEF Deliver
<1>2. /\ page \in DOMAIN Routes /\ ward \in Wards \cup {AllWards} /\ pick \in Ids \cup {Nobody}
      /\ CellsFit(store) /\ BagFits(calls) /\ Alone(calls, store)
      /\ \A x \in timers : TimerFits(x)
      /\ VillagesOf(store, ward) /\ (page = "alerts" => PropertyOf(store, pick))
  BY DEF ClientInv, ClientFits, PlacesFit
<1>3. c \in DOMAIN calls /\ CallFits(c)
  BY <1>2 DEF InFlight, BagToSet, BagFits
<1>4. /\ Follows(c.after.by, done)
      /\ done.times # 0 => c.after.by \in DOMAIN Components
  BY <1>3, NothingFollows DEF CallFits
<1> HIDE DEF done
<1>5. page = "alerts" => ~closes
  BY <1>4, RoutesKnown DEF Follows, Mounted
<1>6. slots \subseteq Clearable \cup {"villages", "features"}
  BY <1>2, <1>4, MountedKnown, ClearedByPages DEF Follows
<1> HIDE DEF closes
<1>7. Reading(cs)
  <2>1. Reading(follow)
    BY <1>3, <1>4, CallsOfRead, ReadsJoined DEF Follows, CallFits
  <2>2. Reading(Reactions(c, s))
    BY <1>2, ReactionsRead
  <2> HIDE DEF follow, s
  <2> QED BY <2>1, <2>2, ReadsJoined
<1>8. /\ BagFits(b) /\ DOMAIN b \subseteq DOMAIN calls
      /\ \A d \in DOMAIN b : d # c => b[d] = calls[d]
      /\ calls[c] = 1 => c \notin DOMAIN b
  BY <1>2, <1>3, BagLeft
<1> DEFINE u == Taken(c, store)
<1>9. /\ DOMAIN u = DOMAIN store
      /\ \A k \in DOMAIN store :
           /\ u[k] \in Cell
           /\ k[1] = "villages" => u[k].data.of \in {store[k].data.of, Nobody, ward}
           /\ k[1] = "property" => u[k].data.of \in {store[k].data.of, Nobody}
           /\ k[1] \in Deciding /\ k # CellOf(c.thunk, c.arg) => u[k].status = store[k].status
  <2>1. \A k \in DOMAIN store : store[k] \in Cell
    BY <1>2 DEF CellsFit
  <2> QED BY <2>1, <1>1, <1>3, TakenShape
<1> HIDE DEF b, cs, slots, u
<1>10. s = Cleared(slots, u)
  BY DEF u, slots
<1> HIDE DEF s
<1>11. /\ DOMAIN s = DOMAIN store
       /\ \A k \in DOMAIN store :
            /\ s[k] \in Cell
            /\ k[1] \in slots => s[k] = Idle
            /\ k[1] \notin slots => s[k] = u[k]
  BY <1>9, <1>10, ClearedShape
<1>12. CellsFit(s) /\ VillagesOf(s, ward) /\ (page = "alerts" => PropertyOf(s, pick))
  <2>1. Idle.data.of = Nobody
    BY IdleShape DEF Idle
  <2> QED BY <1>2, <1>9, <1>11, <2>1 DEF CellsFit, VillagesOf, PropertyOf
<1>13. Alone(b, s)
  <2>1. SUFFICES ASSUME NEW d \in DOMAIN b, d.thunk \in Decisions
                 PROVE  /\ b[d] = 1
                        /\ SlotOf(d) \in DOMAIN s /\ s[SlotOf(d)].status = "loading"
                        /\ \A e \in DOMAIN b : e.thunk = d.thunk => e = d
    BY DEF Alone
  <2>2. d \in DOMAIN calls /\ d # c
    BY <1>2, <1>3, <1>8, <2>1 DEF Alone
  <2>3. /\ calls[d] = 1 /\ SlotOf(d) \in DOMAIN store /\ store[SlotOf(d)].status = "loading"
        /\ \A e \in DOMAIN calls : e.thunk = d.thunk => e = d
    BY <1>2, <2>1, <2>2 DEF Alone
  <2>4. c.thunk # d.thunk
    BY <1>3, <2>2, <2>3
  <2>5. SlotOf(d)[1] = rootReducer[d.thunk].slot /\ SlotOf(d)[1] \in Deciding
    BY <1>2, <2>1, <2>2, DecisionSlots DEF SlotOf, BagFits, CallFits
  <2>6. rootReducer[c.thunk].slot # rootReducer[d.thunk].slot
    <3>1. c.thunk \in DOMAIN rootReducer /\ d.thunk \in DOMAIN rootReducer
      BY <1>2, <1>3, <2>2 DEF BagFits, CallFits
    <3> QED BY <2>1, <2>4, <3>1, DecisionSlots, DecisionsDiffer
  <2>7. SlotOf(d) # CellOf(c.thunk, c.arg)
    BY <2>6 DEF SlotOf, CellOf
  <2>8. s[SlotOf(d)].status = "loading"
    BY <1>6, <1>9, <1>11, <2>3, <2>5, <2>7, ClearableSlots
  <2> QED BY <1>8, <1>11, <2>2, <2>3, <2>8
<1>14. /\ DOMAIN store' = DOMAIN s /\ CellsFit(store')
       /\ BagFits(calls') /\ Alone(calls', store')
       /\ \A k \in DOMAIN s : k[1] \in Scoped => store'[k].data.of \in {s[k].data.of, Nobody}
  BY <1>1, <1>7, <1>8, <1>12, <1>13, ReadsDispatched
<1>15. VillagesOf(store', ward) /\ (page = "alerts" => PropertyOf(store', pick))
  BY <1>12, <1>14 DEF VillagesOf, PropertyOf, Scoped
<1>16. \A x \in timers' : TimerFits(x)
  <2>1. done.times # 0 => TimerFits(timer)
    <3>1. done.times # 0 => done.times \in 1..Repeats
      BY <1>4, PagesAssumption DEF Follows
    <3>2. /\ timer.by = c.after.by /\ timer.ward = c.after.ward /\ timer.row = c.after.row
          /\ timer.calls = done.later /\ timer.fades = done.fades /\ timer.left = done.times
          /\ timer = [by |-> timer.by, ward |-> timer.ward, row |-> timer.row, calls |-> timer.calls,
                      fades |-> timer.fades, left |-> timer.left]
      OBVIOUS
    <3> HIDE DEF timer
    <3> QED BY <1>3, <1>4, <3>1, <3>2 DEF TimerFits, CallFits, Follows
  <2> HIDE DEF timer
  <2> QED BY <1>1, <1>2, <2>1
<1>17. pick' \in Ids \cup {Nobody} /\ (page = "alerts" => pick' = pick)
  BY <1>1, <1>2, <1>5
<1> QED BY <1>1, <1>11, <1>14, <1>15, <1>16, <1>17 DEF ClientInv, ClientFits, PlacesFit

LEMMA TimerFiresInv ==
  ASSUME ClientInv, NEW x \in timers, TimerFires(x) PROVE ClientInv'
<1> DEFINE cs == CallsOf(x.by, {t \in x.calls : ~(x.ward = AllWards /\ t \in Components[x.by].inWard)},
                         x.ward, x.row)
           s == Reset(x.fades, store)
<1>1. /\ timers' = (timers \ {x}) \cup IF x.left > 1 THEN {[x EXCEPT !.left = @ - 1]} ELSE {}
      /\ Dispatch(cs, s, calls)
      /\ work' = work /\ ward' = ward /\ start' = start /\ page' = page /\ pick' = pick
  BY DEF TimerFires
<1>2. /\ page \in DOMAIN Routes /\ ward \in Wards \cup {AllWards} /\ pick \in Ids \cup {Nobody}
      /\ CellsFit(store) /\ \A y \in timers : TimerFits(y)
      /\ VillagesOf(store, ward) /\ (page = "alerts" => PropertyOf(store, pick))
  BY DEF ClientInv, ClientFits, PlacesFit
<1>3. TimerFits(x)
  BY <1>2
<1>4. Reading(cs)
  BY <1>3, CallsOfRead DEF TimerFits
<1>5. \A k \in DOMAIN store : store[k] \in Cell
  BY <1>2 DEF CellsFit
<1>6. /\ DOMAIN s = DOMAIN store
      /\ \A k \in DOMAIN store : /\ s[k] \in Cell /\ s[k].data = store[k].data
                                 /\ k[1] \notin x.fades => s[k] = store[k]
  BY <1>5, ResetShape
<1>7. x.fades \cap Deciding = {}
  BY <1>3 DEF TimerFits, Deciding
<1> HIDE DEF cs, s
<1>8. /\ CellsFit(s) /\ VillagesOf(s, ward) /\ (page = "alerts" => PropertyOf(s, pick))
      /\ \A k \in DOMAIN s : k[1] \in Deciding => s[k].status = store[k].status
  BY <1>2, <1>6, <1>7 DEF CellsFit, VillagesOf, PropertyOf
<1>9. x.left > 1 => TimerFits([x EXCEPT !.left = @ - 1])
  <2>1. SUFFICES ASSUME x.left > 1 PROVE TimerFits([x EXCEPT !.left = @ - 1])
    OBVIOUS
  <2> DEFINE y == [x EXCEPT !.left = @ - 1]
  <2>2. /\ y.by = x.by /\ y.ward = x.ward /\ y.row = x.row /\ y.calls = x.calls
        /\ y.fades = x.fades /\ y.left = x.left - 1
        /\ y = [by |-> y.by, ward |-> y.ward, row |-> y.row, calls |-> y.calls,
                fades |-> y.fades, left |-> y.left]
    BY <1>3 DEF TimerFits
  <2>3. x.left - 1 \in 1..Repeats
    BY <1>3, <2>1, PagesAssumption DEF TimerFits
  <2> HIDE DEF y
  <2>4. TimerFits(y)
    BY <1>3, <2>2, <2>3 DEF TimerFits
  <2> QED BY <2>4 DEF y
<1>10. \A y \in timers' : TimerFits(y)
  BY <1>1, <1>2, <1>9
<1> QED BY <1>1, <1>2, <1>4, <1>6, <1>8, <1>10, ReadStep

LEMMA AgainInv ==
  ASSUME ClientInv, NEW cs, Reading(cs), Again(cs) PROVE ClientInv'
<1>1. /\ Dispatch(cs, store, calls)
      /\ work' = work /\ ward' = ward /\ start' = start /\ page' = page /\ pick' = pick
      /\ timers' = timers
  BY DEF Again
<1>2. /\ page \in DOMAIN Routes /\ ward \in Wards \cup {AllWards} /\ pick \in Ids \cup {Nobody}
      /\ CellsFit(store) /\ \A x \in timers : TimerFits(x)
      /\ VillagesOf(store, ward) /\ (page = "alerts" => PropertyOf(store, pick))
  BY DEF ClientInv, ClientFits, PlacesFit
<1> QED BY <1>1, <1>2, ReadStep

LEMMA PollsInv ==
  ASSUME ClientInv, NEW m \in Mounted, Polls(m) \/ Ticks(m) PROVE ClientInv'
<1>1. /\ ward \in Wards \cup {AllWards} /\ m \in DOMAIN Components
      /\ Nobody \in Ids \cup {Nobody}
  BY MountedKnown DEF ClientInv, ClientFits, PlacesFit
<1>2. Fits(m, Components[m])
  BY <1>1, ComponentsFit
<1>3. CASE Polls(m)
  <2>1. PICK slot \in DOMAIN Components[m].polls :
          Again(CallsOf(m, Components[m].polls[slot].calls, ward, Nobody))
    BY <1>3 DEF Polls
  <2>2. Reading(CallsOf(m, Components[m].polls[slot].calls, ward, Nobody))
    BY <1>1, <1>2, CallsOfRead DEF Fits
  <2> QED BY <2>1, <2>2, AgainInv
<1>4. CASE Ticks(m)
  <2>1. PICK t \in Components[m].ticks : Again(CallsOf(m, {t}, ward, Nobody))
    BY <1>4 DEF Ticks
  <2>2. {t} \subseteq Reads
    BY <1>2, <2>1 DEF Fits
  <2>3. Reading(CallsOf(m, {t}, ward, Nobody))
    BY <1>1, <2>2, CallsOfRead
  <2> QED BY <2>1, <2>3, AgainInv
<1> QED BY <1>3, <1>4

(* Only the message of an operation that is over fades. *)
LEMMA FadesInv ==
  ASSUME ClientInv, NEW m \in Mounted, Fades(m) PROVE ClientInv'
<1>1. PICK slot \in DOMAIN Components[m].fades :
        /\ \E status \in Components[m].fades[slot] : Is(slot, status)
        /\ store' = Reset({slot}, store)
  BY DEF Fades
<1>2. /\ work' = work /\ ward' = ward /\ calls' = calls /\ start' = start /\ page' = page
      /\ pick' = pick /\ timers' = timers
  BY DEF Fades
<1>3. /\ page \in DOMAIN Routes /\ CellsFit(store) /\ BagFits(calls) /\ Alone(calls, store)
      /\ VillagesOf(store, ward) /\ (page = "alerts" => PropertyOf(store, pick))
  BY DEF ClientInv, ClientFits, PlacesFit
<1>4. store[<<slot, Nobody>>].status # "loading"
  <2>1. Components[m].fades[slot] \subseteq {"succeeded", "failed"}
    BY <1>1, <1>3, MountedKnown, ComponentsFit DEF Fits
  <2> QED BY <1>1, <2>1 DEF Is
<1>5. \A k \in DOMAIN store : store[k] \in Cell
  BY <1>3 DEF CellsFit
<1>6. /\ DOMAIN store' = DOMAIN store
      /\ \A k \in DOMAIN store : /\ store'[k] \in Cell /\ store'[k].data = store[k].data
                                 /\ k[1] # slot => store'[k] = store[k]
  BY <1>1, <1>5, ResetShape
<1>7. /\ CellsFit(store') /\ VillagesOf(store', ward) /\ (page = "alerts" => PropertyOf(store', pick))
  BY <1>3, <1>6 DEF CellsFit, VillagesOf, PropertyOf
<1>8. Alone(calls, store')
  <2>1. SUFFICES ASSUME NEW c \in DOMAIN calls, c.thunk \in Decisions
                 PROVE  store'[SlotOf(c)] = store[SlotOf(c)]
    BY <1>3, <1>6 DEF Alone
  <2>2. SlotOf(c) \in DOMAIN store /\ store[SlotOf(c)].status = "loading"
    BY <1>3, <2>1 DEF Alone
  <2>3. SlotOf(c)[1] # slot
    BY <1>4, <2>2 DEF SlotOf
  <2> QED BY <1>6, <2>2, <2>3
<1> QED BY <1>2, <1>6, <1>7, <1>8 DEF ClientInv, ClientFits, PlacesFit

LEMMA BagWith ==
  ASSUME NEW b, BagFits(b), NEW d, CallFits(d)
  PROVE  /\ DOMAIN (b (+) SetToBag({d})) = DOMAIN b \cup {d}
         /\ BagFits(b (+) SetToBag({d}))
         /\ \A e \in DOMAIN b \ {d} : (b (+) SetToBag({d}))[e] = b[e]
         /\ d \notin DOMAIN b => (b (+) SetToBag({d}))[d] = 1
<1> DEFINE ds == {d}
<1>1. \A e \in ds : CallFits(e)
  OBVIOUS
<1> HIDE DEF ds
<1>2. /\ DOMAIN (b (+) SetToBag(ds)) = DOMAIN b \cup ds
      /\ BagFits(b (+) SetToBag(ds))
      /\ \A e \in DOMAIN b \ ds : (b (+) SetToBag(ds))[e] = b[e]
      /\ \A e \in ds \ DOMAIN b : (b (+) SetToBag(ds))[e] = 1
  BY <1>1, BagJoined
<1> QED BY <1>2 DEF ds

Moved(c, todo, stage, brings) == [c EXCEPT !.todo = todo, !.stage = stage, !.brings = brings]

LEMMA CallChanged ==
  ASSUME NEW c, NEW todo, NEW stage, NEW brings,
         c = [thunk |-> c.thunk, arg |-> c.arg, todo |-> c.todo, stage |-> c.stage,
              brings |-> c.brings, after |-> c.after]
  PROVE  Moved(c, todo, stage, brings) =
           [thunk |-> c.thunk, arg |-> c.arg, todo |-> todo, stage |-> stage,
            brings |-> brings, after |-> c.after]
<1> DEFINE d == [c EXCEPT !.todo = todo]
           e == [d EXCEPT !.stage = stage]
           f == [e EXCEPT !.brings = brings]
<1>1. d = [thunk |-> c.thunk, arg |-> c.arg, todo |-> todo, stage |-> c.stage,
           brings |-> c.brings, after |-> c.after]
  OBVIOUS
<1> HIDE DEF d
<1>2. e = [thunk |-> c.thunk, arg |-> c.arg, todo |-> todo, stage |-> stage,
           brings |-> c.brings, after |-> c.after]
  BY <1>1
<1> HIDE DEF e
<1>3. f = [thunk |-> c.thunk, arg |-> c.arg, todo |-> todo, stage |-> stage,
           brings |-> brings, after |-> c.after]
  BY <1>2
<1>4. f = Moved(c, todo, stage, brings)
  BY Zenon DEF d, e, Moved
<1> QED BY <1>3, <1>4

(* The server moves a call on: the call is another value, of the same thunk. *)
LEMMA Replaced ==
  ASSUME ClientInv, NEW c \in DOMAIN calls, NEW d, CallFits(d), d.thunk = c.thunk, Replace(c, d)
  PROVE  BagFits(calls') /\ Alone(calls', store)
<1> DEFINE b == calls (-) SetToBag({c})
<1>1. BagFits(calls) /\ Alone(calls, store)
  BY DEF ClientInv, ClientFits
<1>2. calls' = b (+) SetToBag({d})
  BY DEF Replace
<1>3. /\ BagFits(b) /\ DOMAIN b \subseteq DOMAIN calls
      /\ \A e \in DOMAIN b : e # c => b[e] = calls[e]
      /\ calls[c] = 1 => c \notin DOMAIN b
  BY <1>1, BagLeft
<1> HIDE DEF b
<1>4. /\ DOMAIN calls' = DOMAIN b \cup {d} /\ BagFits(calls')
      /\ \A e \in DOMAIN b \ {d} : calls'[e] = b[e]
      /\ d \notin DOMAIN b => calls'[d] = 1
  BY <1>2, <1>3, BagWith
<1>5. ASSUME NEW e \in DOMAIN calls', e.thunk \in Decisions
      PROVE  /\ calls'[e] = 1
             /\ SlotOf(e) \in DOMAIN store /\ store[SlotOf(e)].status = "loading"
             /\ \A f \in DOMAIN calls' : f.thunk = e.thunk => f = e
  <2>1. CASE e.thunk = c.thunk
    <3>1. /\ calls[c] = 1 /\ SlotOf(c) \in DOMAIN store /\ store[SlotOf(c)].status = "loading"
          /\ \A f \in DOMAIN calls : f.thunk = c.thunk => f = c
      BY <1>1, <1>5, <2>1 DEF Alone
    <3>2. \A f \in DOMAIN b : f.thunk # c.thunk
      BY <1>3, <3>1
    <3>3. e = d /\ d \notin DOMAIN b /\ SlotOf(e) = SlotOf(c)
      BY <1>4, <1>5, <2>1, <3>2 DEF SlotOf
    <3> QED BY <1>4, <3>1, <3>2, <3>3
  <2>2. CASE e.thunk # c.thunk
    <3>1. e # d /\ e # c /\ e \in DOMAIN b /\ e \in DOMAIN calls
      BY <1>3, <1>4, <1>5, <2>2
    <3>2. /\ calls[e] = 1 /\ SlotOf(e) \in DOMAIN store /\ store[SlotOf(e)].status = "loading"
          /\ \A f \in DOMAIN calls : f.thunk = e.thunk => f = e
      BY <1>1, <1>5, <3>1 DEF Alone
    <3> QED BY <1>3, <1>4, <2>2, <3>1, <3>2
  <2> QED BY <2>1, <2>2
<1> QED BY <1>4, <1>5 DEF Alone

LEMMA ScopeWards == \A arg \in Args : Scope(arg) \subseteq Wards
BY DemoAssumption DEF Scope, Args

LEMMA WorkStays ==
  ASSUME work \subseteq Work, NEW arg \in Args
  PROVE  /\ WorkLost(arg) \subseteq Work
         /\ \A e \in Endpoint : WorkAfter(e, arg) \subseteq Work
<1>1. \A x \in Work : [x EXCEPT !.job = "lost"] \in Work /\ [x EXCEPT !.job = "tracked"] \in Work
  BY DEF Work, Jobs
<1>2. WorkLost(arg) \subseteq Work
  BY <1>1 DEF WorkLost
<1>3. ASSUME NEW e \in Endpoint PROVE WorkAfter(e, arg) \subseteq Work
  <2>1. e.begins \subseteq Kinds /\ e.job \in Jobs
    BY DEF Endpoint
  <2>2. {[of |-> k, ward |-> w, job |-> e.job] : k \in e.begins, w \in Scope(arg)} \subseteq Work
    BY <2>1, ScopeWards DEF Work
  <2>3. {IF Registered(x, arg) THEN [x EXCEPT !.job = "tracked"] ELSE x : x \in work} \subseteq Work
    BY <1>1
  <2> QED BY <2>2, <2>3 DEF WorkAfter
<1> QED BY <1>2, <1>3

LEMMA AnswerShape ==
  ASSUME NEW e \in Endpoint, NEW arg \in Args
  PROVE  Answer(e, arg) \in Data /\ (e.by # "all" => Answer(e, arg).of = arg)
BY DEF Answer, Data, Args

LEMMA MovedInv ==
  ASSUME ClientInv, NEW c \in DOMAIN calls, NEW d, CallFits(d), d.thunk = c.thunk, Replace(c, d),
         work' \subseteq Work, UNCHANGED <<ward, store>>, UNCHANGED pageVars
  PROVE  ClientInv'
BY Replaced DEF ClientInv, ClientFits, PlacesFit, pageVars

LEMMA ServedInv == ASSUME ClientInv, NEW c \in InFlight, Served(c) PROVE ClientInv'
<1>1. c \in DOMAIN calls /\ CallFits(c) /\ work \subseteq Work
  BY DEF ClientInv, ClientFits, InFlight, BagToSet, BagFits
<1> DEFINE e == Head(c.todo)
           todo == Tail(c.todo)
           stage == IF Tail(c.todo) = <<>> THEN "answered" ELSE "sent"
           brings == Answer(e, c.arg)
           d == Moved(c, todo, stage, brings)
<1>2. /\ c.stage = "sent" /\ work' = WorkAfter(e, c.arg)
      /\ Replace(c, [c EXCEPT !.todo = Tail(@), !.stage = stage, !.brings = brings])
      /\ UNCHANGED <<ward, store>> /\ UNCHANGED pageVars
  BY DEF Served, Serve
<1>3. Replace(c, d)
  BY <1>2 DEF Moved
<1>4. /\ c.todo \in Seq(Endpoint) /\ c.todo # <<>> /\ c.arg \in Args
  BY <1>1, <1>2 DEF CallFits
<1>5. /\ e \in Endpoint /\ todo \in Seq(Endpoint)
      /\ e = c.todo[1] /\ 1 \in DOMAIN c.todo
      /\ \A i \in DOMAIN todo : i + 1 \in DOMAIN c.todo /\ todo[i] = c.todo[i + 1]
  BY <1>4
<1>6. /\ brings \in Data /\ (e.by # "all" => brings.of = c.arg)
  BY <1>4, <1>5, AnswerShape
<1>7. rootReducer[c.thunk].slot \in Scoped =>
        (\A i \in DOMAIN todo : todo[i].by # "all") /\ brings.of = c.arg
  BY <1>1, <1>5, <1>6 DEF CallFits
<1>8. work' \subseteq Work
  BY <1>1, <1>2, <1>4, <1>5, WorkStays
<1>9. CallFits(d) /\ d.thunk = c.thunk
  <2>1. stage \in {"sent", "answered", "refused"} /\ (stage = "sent" <=> todo # <<>>)
    OBVIOUS
  <2>2. c = [thunk |-> c.thunk, arg |-> c.arg, todo |-> c.todo, stage |-> c.stage,
             brings |-> c.brings, after |-> c.after]
    BY <1>1 DEF CallFits
  <2> HIDE DEF e, todo, stage, brings
  <2>3. d = [thunk |-> c.thunk, arg |-> c.arg, todo |-> todo, stage |-> stage,
             brings |-> brings, after |-> c.after]
    BY <2>2, CallChanged
  <2>4. /\ d.thunk = c.thunk /\ d.arg = c.arg /\ d.todo = todo /\ d.stage = stage
        /\ d.brings = brings /\ d.after = c.after
        /\ d = [thunk |-> d.thunk, arg |-> d.arg, todo |-> d.todo, stage |-> d.stage,
                brings |-> d.brings, after |-> d.after]
    BY <2>3
  <2> HIDE DEF d
  <2> QED BY <1>1, <1>5, <1>6, <1>7, <2>1, <2>4 DEF CallFits
<1> HIDE DEF d
<1> QED BY <1>1, <1>2, <1>3, <1>8, <1>9, MovedInv

LEMMA RefusedInv == ASSUME ClientInv, NEW c \in InFlight, Refused(c) PROVE ClientInv'
<1>1. c \in DOMAIN calls /\ CallFits(c) /\ work \subseteq Work
  BY DEF ClientInv, ClientFits, InFlight, BagToSet, BagFits
<1> DEFINE stage == IF rootReducer[c.thunk].forgives \/ Completes(Head(c.todo)) THEN "answered" ELSE "refused"
           brings == [Empty EXCEPT !.of = c.arg]
           d == Moved(c, <<>>, stage, brings)
<1>2. /\ work' \in {WorkLost(c.arg), work}
      /\ Replace(c, [c EXCEPT !.todo = <<>>, !.brings = brings, !.stage = stage])
      /\ UNCHANGED <<ward, store>> /\ UNCHANGED pageVars
  BY DEF Refused, Refuse
<1>3. d = [c EXCEPT !.todo = <<>>, !.brings = brings, !.stage = stage]
  BY DEF Moved
<1>4. brings \in Data /\ brings.of = c.arg
  BY <1>1 DEF CallFits, Empty, Data
<1>5. CallFits(d) /\ d.thunk = c.thunk
  <2>1. /\ stage \in {"sent", "answered", "refused"} /\ stage # "sent"
        /\ <<>> \in Seq(Endpoint) /\ DOMAIN <<>> = {}
    OBVIOUS
  <2>2. c = [thunk |-> c.thunk, arg |-> c.arg, todo |-> c.todo, stage |-> c.stage,
             brings |-> c.brings, after |-> c.after]
    BY <1>1 DEF CallFits
  <2> HIDE DEF stage, brings
  <2>3. d = [thunk |-> c.thunk, arg |-> c.arg, todo |-> <<>>, stage |-> stage,
             brings |-> brings, after |-> c.after]
    BY <2>2, CallChanged
  <2>4. /\ d.thunk = c.thunk /\ d.arg = c.arg /\ d.todo = <<>> /\ d.stage = stage
        /\ d.brings = brings /\ d.after = c.after
        /\ d = [thunk |-> d.thunk, arg |-> d.arg, todo |-> d.todo, stage |-> d.stage,
                brings |-> d.brings, after |-> d.after]
    BY <2>3
  <2> HIDE DEF d
  <2> QED BY <1>1, <1>4, <2>1, <2>4 DEF CallFits
<1>6. work' \subseteq Work
  BY <1>1, <1>2, WorkStays DEF CallFits
<1>7. Replace(c, d)
  BY <1>2, <1>3
<1> HIDE DEF d
<1> QED BY <1>1, <1>2, <1>5, <1>6, <1>7, MovedInv

LEMMA WorkEndsInv == ASSUME ClientInv, WorkEnds PROVE ClientInv'
<1>1. PICK x \in work : work' = work \ {x}
  BY DEF WorkEnds, Ends, track, timed
<1>2. UNCHANGED <<storeVars, pageVars>>
  BY DEF WorkEnds
<1> QED BY <1>1, <1>2 DEF ClientInv, ClientFits, PlacesFit, storeVars, pageVars

LEMMA StepInv == ClientInv /\ [Next]_vars => ClientInv'
<1> SUFFICES ASSUME ClientInv, [Next]_vars PROVE ClientInv'
  OBVIOUS
<1>1. CASE \E w \in Wards \cup {AllWards} : SelectWard(w)
  BY <1>1, SelectWardInv
<1>2. CASE \E p \in DOMAIN Routes : Open(p)
  BY <1>2, OpenInv
<1>3. CASE \E row \in Ids : Pick(row)
  BY <1>3, PickInv
<1>4. CASE Close
  BY <1>4, CloseInv
<1>5. CASE \E m \in Mounted : (\E t \in DOMAIN Components[m].ops : Operate(m, t)) \/ Polls(m) \/ Ticks(m) \/ Fades(m)
  BY <1>5, OperateInv, PollsInv, FadesInv
<1>6. CASE \E c \in InFlight : Served(c) \/ Refused(c) \/ Deliver(c)
  BY <1>6, ServedInv, RefusedInv, DeliverInv
<1>7. CASE \E x \in timers : TimerFires(x)
  BY <1>7, TimerFiresInv
<1>8. CASE WorkEnds
  BY <1>8, WorkEndsInv
<1>9. CASE UNCHANGED vars
  BY <1>9 DEF vars, ClientInv, ClientFits, PlacesFit
<1> QED BY <1>1, <1>2, <1>3, <1>4, <1>5, <1>6, <1>7, <1>8, <1>9 DEF Next

LEMMA Invariance == Spec => []ClientInv
<1>1. Spec => Init /\ [][Next]_vars
  BY DEF Spec
<1> QED BY <1>1, InitInv, StepInv, PTL

-----------------------------------------------------------------------------
(* What the page shows and sends. *)

(* The store, the calls in flight and the timers keep the shape the slices *)
(* give them (Store.jsx, the slices' extraReducers), whatever is opened,    *)
(* chosen, answered late or refused.                                        *)
THEOREM ClientTyped == Spec => []ClientTypeOK
<1>1. ClientInv => ClientTypeOK
  BY DEF ClientInv, ClientFits, PlacesFit, CellsFit, BagFits, CallFits, TimerFits, Cell, Statuses,
         Data, Args, Work, ClientTypeOK, InFlight, BagToSet
<1> QED BY <1>1, Invariance, PTL

(* However late and out of order the answers come, the villages drawn are  *)
(* those of the ward chosen now, and the property in the alert's panel is  *)
(* the row picked now (wardsSlice.js:89, propertiesSlice.js:118, :124).     *)
THEOREM AnswersWanted == Spec => []AnswersAreWanted
<1>1. ClientInv => AnswersAreWanted
  <2> SUFFICES ASSUME ClientInv PROVE AnswersAreWanted
    OBVIOUS
  <2>1. /\ VillagesOf(store, ward) /\ (page = "alerts" => PropertyOf(store, pick))
    BY DEF ClientInv
  <2>2. Held("villages").of \in {Nobody, ward}
    BY <2>1, IdleShape DEF Held, VillagesOf
  <2>3. page = "alerts" => Held("property").of \in {Nobody, pick}
    BY <2>1, IdleShape DEF Held, PropertyOf
  <2> QED BY <2>2, <2>3 DEF AnswersAreWanted
<1> QED BY <1>1, Invariance, PTL

(* A decision on a match, a matching run, a change of the thresholds and a *)
(* transformation are sent one at a time: while one is under way its button *)
(* is disabled, and nothing that is opened, closed or chosen meanwhile      *)
(* resets the status that says so (MatchingPage.jsx, SettingsPage.jsx).     *)
THEOREM DecisionsAlone == Spec => []OneAtATime
<1>1. ClientInv => OneAtATime
  BY DEF ClientInv, Alone, OneAtATime, Decisions, InFlight, BagToSet
<1> QED BY <1>1, Invariance, PTL

=============================================================================
