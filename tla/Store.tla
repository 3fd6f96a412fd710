------------------------------- MODULE Store --------------------------------
(***************************************************************************)
(* The portal's Redux store: its thunks, what each slice does when a call  *)
(* starts, is answered or is refused, and the calls in flight.  Answers    *)
(* come in any order.  Only the slots that are watched are kept; calls     *)
(* that fill no watched slot are not made.                                 *)
(***************************************************************************)
EXTENDS Demo, Bags, Sequences, TLC

CONSTANTS Nobody,            \* no id, no ward of an answer yet
          MaxCalls, MaxFaults

VARIABLES ward,              \* wards.selectedWardId
          store,             \* cell -> [status, data]
          calls,             \* a bag of calls in flight
          faults             \* calls refused so far

storeVars == <<ward, store, calls, faults>>

Empty == [of |-> Nobody, busy |-> FALSE]

-----------------------------------------------------------------------------
(* Thunks: the requests made, in order, when they are not made, and when a *)
(* refusal is no failure.                                                  *)
Asks(endpoints) == [asks |-> endpoints, unless |-> "never", forgives |-> FALSE]

\* sourcesSlice
fetchSources        == Asks(<<getSources>>)
fetchSourceDetail   == Asks(<<getSource>>)
fetchSourceFeatures == [Asks(<<getFeatures>>) EXCEPT !.unless = "held"]
digitizeSource      == Asks(<<postDigitize>>)
uploadSource        == Asks(<<postUpload, putUpload, postComplete>>)
\* harmonizationSlice
runMatching         == Asks(<<postHarmonize>>)
fetchMatches        == Asks(<<getMatches>>)
fetchMatchDetail    == Asks(<<getMatch>>)
labelMatch          == Asks(<<postLabel>>)
fetchMappings       == Asks(<<getSchemaMap>>)
suggestMappings     == Asks(<<postSchemaMap>>)
\* processingSlice
fetchExtractionRuns == Asks(<<getRuns>>)
runExtraction       == Asks(<<postExtraction>>)
fetchTopologyIssues == Asks(<<getIssues>>)
runTopology         == Asks(<<postTopology>>)
resolveIssue        == Asks(<<postIssue>>)
acceptAllIssues     == Asks(<<postAcceptAll>>)
fetchCrsList        == [Asks(<<getCrs>>) EXCEPT !.unless = "filled"]
transformCoordinates == Asks(<<transform>>)
previewGeoref       == Asks(<<postPreview>>)
applyGeoref         == Asks(<<postGeoref>>)
\* qualitySlice
runValidation       == Asks(<<postValidation>>)
fetchReports        == Asks(<<getReports>>)
fetchFindings       == Asks(<<getFindings>>)
runChangeDetection  == Asks(<<postChangeRun>>)
fetchChangeRuns     == Asks(<<getChangeRuns>>)
fetchChanges        == Asks(<<getChanges>>)
verifyChange        == Asks(<<postChange>>)
fetchReadiness      == Asks(<<getReadiness>>)
fetchCollections    == Asks(<<getCollections>>)
fetchCollectionItems == Asks(<<getItems>>)
\* harmonizedSlice
fetchHarmonized     == Asks(<<getRecords>>)
assembleWard        == Asks(<<postAssemble>>)
fetchHarmonizedGeoJSON == Asks(<<getGeojson>>)
exportHarmonized    == Asks(<<postGpkg>>)
fetchExports        == Asks(<<getExports>>)
\* conflictsSlice, propertiesSlice, statsSlice
fetchConflicts      == Asks(<<getConflicts>>)
resolveConflict     == Asks(<<postResolve>>)
fetchProperties     == Asks(<<getUnassessed>>)
fetchPropertyById   == Asks(<<getProperty>>)
fetchPropertyExplanation == Asks(<<getExplanation>>)
verifyProperty      == Asks(<<postVerify>>)
fetchStats          == Asks(<<getStats>>)
\* wardsSlice, adminSlice, jobsSlice, chatSlice
fetchWards          == Asks(<<getWards>>)
fetchWardVillages   == [Asks(<<getWardVillages>>) EXCEPT !.forgives = TRUE]
fetchAllVillages    == [Asks(<<getVillages>>) EXCEPT !.forgives = TRUE]
fetchAdminConfig    == Asks(<<getStats>>)
fetchHealth         == Asks(<<getHealth>>)
saveConfig          == Asks(<<postConfig>>)
triggerRefresh      == Asks(<<postRefresh>>)
fetchJobs           == Asks(<<getJobs>>)
fetchAudit          == Asks(<<getAudit>>)
sendChatMessage     == Asks(<<postChat>>)

-----------------------------------------------------------------------------
(* Reducers: the slot, when it turns to loading, what an answer puts in    *)
(* it, what a refusal leaves, and the lists in which an operation marks a  *)
(* row as unfinished: once it is accepted, or from the click on.           *)
Loads(slot)   == [slot |-> slot, loading |-> "always", takes |-> "answer", refused |-> "kept",
                  marks |-> {}, from |-> "accepted"]
Acts(slot)    == [Loads(slot) EXCEPT !.takes = "nothing"]
Renews(slot)  == [Loads(slot) EXCEPT !.loading = "fromIdle"]
Fills(slot)   == [Loads(slot) EXCEPT !.loading = "never"]
Drops(slot)   == [Loads(slot) EXCEPT !.refused = "dropped"]
Quietly(slot) == [Acts(slot) EXCEPT !.loading = "never"]
Marks(slot, lists) == [Acts(slot) EXCEPT !.marks = lists]

\* A thunk and what the slice does with it.
Cases(thunk, reducer) ==
  [asks |-> thunk.asks, unless |-> thunk.unless, forgives |-> thunk.forgives,
   slot |-> reducer.slot, loading |-> reducer.loading, takes |-> reducer.takes,
   refused |-> reducer.refused, marks |-> reducer.marks, from |-> reducer.from]

sourcesSlice ==
  [fetchSources |-> Cases(fetchSources, Loads("sources")),
   fetchSourceDetail |-> Cases(fetchSourceDetail, Loads("source")),
   fetchSourceFeatures |-> Cases(fetchSourceFeatures, [Drops("features") EXCEPT !.loading = "afresh"]),
   digitizeSource |-> Cases(digitizeSource, Marks("digitize", {"sources", "source"})),
   uploadSource |-> Cases(uploadSource, Acts("upload"))]

harmonizationSlice ==
  [runMatching |-> Cases(runMatching, Acts("run")),
   fetchMatches |-> Cases(fetchMatches, Loads("matches")),
   fetchMatchDetail |-> Cases(fetchMatchDetail, Drops("match")),
   labelMatch |-> Cases(labelMatch, Acts("label")),
   fetchMappings |-> Cases(fetchMappings, Loads("mappings")),
   suggestMappings |-> Cases(suggestMappings, Loads("suggested"))]

processingSlice ==
  [fetchExtractionRuns |-> Cases(fetchExtractionRuns, Renews("runs")),
   runExtraction |-> Cases(runExtraction, Marks("extract", {"runs"})),
   fetchTopologyIssues |-> Cases(fetchTopologyIssues, Renews("issues")),
   runTopology |-> Cases(runTopology, Acts("topology")),
   resolveIssue |-> Cases(resolveIssue, Quietly("resolveIssue")),
   acceptAllIssues |-> Cases(acceptAllIssues, Quietly("acceptAll")),
   fetchCrsList |-> Cases(fetchCrsList, Fills("crsList")),
   transformCoordinates |-> Cases(transformCoordinates, Loads("transformed")),
   previewGeoref |-> Cases(previewGeoref, Loads("preview")),
   applyGeoref |-> Cases(applyGeoref, Acts("apply"))]

qualitySlice ==
  [runValidation |-> Cases(runValidation, Acts("validate")),
   fetchReports |-> Cases(fetchReports, Renews("reports")),
   fetchFindings |-> Cases(fetchFindings, Fills("findings")),
   runChangeDetection |-> Cases(runChangeDetection, Marks("detect", {"changeRuns"})),
   fetchChangeRuns |-> Cases(fetchChangeRuns, Renews("changeRuns")),
   fetchChanges |-> Cases(fetchChanges, Loads("changes")),
   verifyChange |-> Cases(verifyChange, Quietly("verifyChange")),
   fetchReadiness |-> Cases(fetchReadiness, Drops("readiness")),
   fetchCollections |-> Cases(fetchCollections, Loads("collections")),
   fetchCollectionItems |-> Cases(fetchCollectionItems, Drops("items"))]

harmonizedSlice ==
  [fetchHarmonized |-> Cases(fetchHarmonized, Loads("records")),
   assembleWard |-> Cases(assembleWard, Acts("assemble")),
   fetchHarmonizedGeoJSON |-> Cases(fetchHarmonizedGeoJSON, Drops("geojson")),
   exportHarmonized |-> Cases(exportHarmonized, Acts("export")),
   fetchExports |-> Cases(fetchExports, Loads("exports"))]

conflictsSlice ==
  [fetchConflicts |-> Cases(fetchConflicts, Loads("conflicts")),
   resolveConflict |-> Cases(resolveConflict, Acts("resolve"))]

propertiesSlice ==
  [fetchProperties |-> Cases(fetchProperties, Drops("properties")),
   fetchPropertyById |-> Cases(fetchPropertyById, [Loads("property") EXCEPT !.takes = "ofHeld"]),
   fetchPropertyExplanation |-> Cases(fetchPropertyExplanation, Acts("explanation")),
   verifyProperty |-> Cases(verifyProperty, Acts("verify"))]

statsSlice == [fetchStats |-> Cases(fetchStats, Loads("stats"))]

(* Mutant: the villages of a ward left meanwhile are taken too. *)
wardsSliceTakingAll ==
  [fetchWards |-> Cases(fetchWards, Loads("wards")),
   fetchWardVillages |-> Cases(fetchWardVillages, Fills("villages")),
   fetchAllVillages |-> Cases(fetchAllVillages, Fills("allVillages"))]

wardsSlice ==
  [fetchWards |-> Cases(fetchWards, Loads("wards")),
   fetchWardVillages |-> Cases(fetchWardVillages, [Fills("villages") EXCEPT !.takes = "ofWard"]),
   fetchAllVillages |-> Cases(fetchAllVillages, Fills("allVillages"))]

adminSlice ==
  [fetchAdminConfig |-> Cases(fetchAdminConfig, Renews("config")),
   fetchHealth |-> Cases(fetchHealth, Drops("health")),
   saveConfig |-> Cases(saveConfig, Acts("save")),
   triggerRefresh |-> Cases(triggerRefresh, [Quietly("refresh") EXCEPT !.marks = {"config"}, !.from = "click"])]

jobsSlice == [fetchJobs |-> Cases(fetchJobs, Renews("jobs")),
   fetchAudit |-> Cases(fetchAudit, Loads("audit"))]

chatSlice == [sendChatMessage |-> Cases(sendChatMessage, Acts("chat"))]

-----------------------------------------------------------------------------
\* Store.jsx: the store is these slices, no two of which handle the same thunk.
combineReducers(slices) ==
  [t \in UNION {DOMAIN s : s \in slices} |-> (CHOOSE s \in slices : t \in DOMAIN s)[t]]

rootReducer ==
  combineReducers({sourcesSlice, harmonizationSlice, processingSlice, qualitySlice,
                   harmonizedSlice, conflictsSlice, propertiesSlice, statsSlice, wardsSlice,
                   adminSlice, jobsSlice, chatSlice})

Slots == {rootReducer[t].slot : t \in DOMAIN rootReducer}
Keyed == {"features"}          \* kept per source

Cells(slots) == ((slots \ Keyed) \X {Nobody}) \cup ((slots \cap Keyed) \X Ids)
CellOf(t, arg) ==
  LET slot == rootReducer[t].slot IN <<slot, IF slot \in Keyed THEN arg ELSE Nobody>>

Idle == [status |-> "idle", data |-> Empty]
Is(slot, status) == <<slot, Nobody>> \in DOMAIN store /\ store[<<slot, Nobody>>].status = status
Held(slot) == IF <<slot, Nobody>> \in DOMAIN store THEN store[<<slot, Nobody>>].data ELSE Empty

\* A call: what it asks still, what it brings, and what its sender does then.
Call(t, arg, after) ==
  [thunk |-> t, arg |-> arg, todo |-> rootReducer[t].asks, stage |-> "sent", brings |-> Empty,
   after |-> after]

Skipped(c, s) ==
  LET cell == s[CellOf(c.thunk, c.arg)] IN
  \/ rootReducer[c.thunk].unless = "held" /\ cell.status \in {"loading", "succeeded"}
  \/ rootReducer[c.thunk].unless = "filled" /\ cell.data # Empty

Made(cs, s) == {c \in cs : CellOf(c.thunk, c.arg) \in DOMAIN s /\ ~Skipped(c, s)}

\* pending
Pending(t, cell) ==
  CASE rootReducer[t].loading = "always" -> [cell EXCEPT !.status = "loading"]
    [] rootReducer[t].loading = "fromIdle" ->
         IF cell.status = "idle" THEN [cell EXCEPT !.status = "loading"] ELSE cell
    [] rootReducer[t].loading = "afresh" -> [status |-> "loading", data |-> Empty]
    [] rootReducer[t].loading = "never" -> cell

\* A row turns unfinished in the lists that hold it; a new row joins its list.
Marked(c, cell) ==
  [cell EXCEPT !.data =
     [of |-> IF @.of = Nobody THEN AllWards ELSE @.of,
      busy |-> @.busy \/ c.thunk # "digitizeSource" \/ @.of \in {AllWards, c.arg, WardOf[c.arg]}]]

MarksIn(c, slot, when) == rootReducer[c.thunk].from = when /\ slot \in rootReducer[c.thunk].marks

Begun(cs, s) ==
  [k \in DOMAIN s |->
     LET own == {c \in cs : CellOf(c.thunk, c.arg) = k}
         marking == {c \in cs : MarksIn(c, k[1], "click")}
     IN  IF own # {} THEN Pending((CHOOSE c \in own : TRUE).thunk, s[k])
         ELSE IF marking # {} THEN Marked(CHOOSE c \in marking : TRUE, s[k])
         ELSE s[k]]

\* fulfilled
Fulfilled(c, cell) ==
  LET takes == rootReducer[c.thunk].takes
      keeps == \/ takes = "nothing"
               \/ takes = "ofWard" /\ c.arg # ward
               \/ takes = "ofHeld" /\ c.arg # cell.data.of
  IN  [status |-> IF rootReducer[c.thunk].loading = "never" THEN cell.status ELSE "succeeded",
       data |-> IF keeps THEN cell.data ELSE c.brings]

\* rejected
Rejected(c, cell) ==
  [status |-> IF rootReducer[c.thunk].loading = "never" THEN cell.status ELSE "failed",
   data |-> IF rootReducer[c.thunk].refused = "dropped" THEN Empty ELSE cell.data]

Taken(c, s) ==
  [k \in DOMAIN s |->
     IF k = CellOf(c.thunk, c.arg)
       THEN IF c.stage = "answered" THEN Fulfilled(c, s[k]) ELSE Rejected(c, s[k])
     ELSE IF c.stage = "answered" /\ \E when \in {"accepted", "click"} : MarksIn(c, k[1], when)
       THEN Marked(c, s[k])
     ELSE IF c.stage = "refused" /\ MarksIn(c, k[1], "click")
       THEN [s[k] EXCEPT !.data.busy = FALSE]
     ELSE IF /\ c.stage = "answered" /\ c.thunk = "fetchProperties" /\ k[1] = "property"
             /\ ~(s[k].data.of \in Ids /\ WardOf[s[k].data.of] = c.arg)
       THEN [s[k] EXCEPT !.data = Empty]
     ELSE s[k]]

\* What an effect does to the store: slots emptied, then calls made.
Cleared(slots, s) == [k \in DOMAIN s |-> IF k[1] \in slots THEN Idle ELSE s[k]]
Reset(slots, s) == [k \in DOMAIN s |-> IF k[1] \in slots THEN [s[k] EXCEPT !.status = "idle"] ELSE s[k]]

-----------------------------------------------------------------------------
Replace(c, d) == calls' = (calls (-) SetToBag({c})) (+) SetToBag({d})

\* The server answers the request at the head.
Serve(c) ==
  /\ c.stage = "sent"
  /\ work' = WorkAfter(Head(c.todo), c.arg)
  /\ Replace(c, [c EXCEPT !.todo = Tail(@),
                          !.stage = IF Tail(c.todo) = <<>> THEN "answered" ELSE "sent",
                          !.brings = Answer(Head(c.todo), c.arg)])
  /\ UNCHANGED <<ward, store, faults>>

\* A refusal: an optional layer is then empty, and an upload whose completion
\* fails counts as done all the same.
Refuse(c) ==
  /\ c.stage = "sent" /\ faults < MaxFaults /\ faults' = faults + 1
  /\ work' = IF Len(c.todo) < Len(rootReducer[c.thunk].asks) THEN WorkLost(c.arg) ELSE work
  /\ Replace(c, [c EXCEPT !.todo = <<>>, !.brings = [Empty EXCEPT !.of = c.arg],
                          !.stage = IF \/ rootReducer[c.thunk].forgives
                                       \/ Completes(Head(c.todo))
                                    THEN "answered" ELSE "refused"])
  /\ UNCHANGED <<ward, store>>
=============================================================================
