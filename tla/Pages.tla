------------------------------- MODULE Pages --------------------------------
(***************************************************************************)
(* The portal's pages over the store: what each component loads when it    *)
(* appears, when the ward changes and when a row is picked, what it polls, *)
(* what its buttons do and what follows their answers, the timers it sets  *)
(* and whether it ever clears them.                                        *)
(***************************************************************************)
EXTENDS Store

CONSTANTS Starts,            \* the page first open, those that may follow, the slots
                             \* watched and the number of the user's steps
          Repeats            \* stands for the 6 or 7 repetitions of a timer

VARIABLES start, page, pick,
          timers,            \* what a component has set a timer for
          moves

vars == <<work, ward, store, calls, faults, start, page, pick, timers, moves>>

-----------------------------------------------------------------------------
(* What follows an operation: slots dropped, calls made and the panel      *)
(* closed when it is answered, or refused too; calls and fading messages   *)
(* that a timer brings later, that many times.                             *)
NothingMore    == [drops |-> {}, calls |-> {}, closes |-> FALSE, anyway |-> FALSE,
                   later |-> {}, fades |-> {}, times |-> 0]
Then(ts)       == [NothingMore EXCEPT !.calls = ts]
Often(n, ts)   == [NothingMore EXCEPT !.times = n, !.later = ts]

\* A button: disabled while its call is loading, while a slot shows unfinished
\* work, while no ward is chosen, or once its slot is filled.  With a choice, only
\* one of its uses is followed up.
Link           == [waits |-> FALSE, rests |-> {}, inWard |-> FALSE, fills |-> FALSE,
                   choice |-> FALSE, then |-> NothingMore]
Button         == [Link EXCEPT !.waits = TRUE]
Does(op, then) == [op EXCEPT !.then = then]
Choice(op, then) == [op EXCEPT !.then = then, !.choice = TRUE]
InWard(op)     == [op EXCEPT !.inWard = TRUE]

Poll(ts)       == [calls |-> ts, inWard |-> FALSE]
PollInWard(ts) == [calls |-> ts, inWard |-> TRUE]

\* A component: the calls it makes once, for each ward, in a ward only, while no
\* row is picked, for the picked row, on every tick, and when a slot has changed;
\* the list its rows are picked from; the slots it clears when it appears or the
\* ward changes, when a row is picked, and when the row's panel goes; whether the
\* panel can be closed; whether the row stays, and the timers stop, when the ward
\* changes.
Blank == [once |-> {}, loads |-> {}, inWard |-> {}, unpicked |-> {}, picked |-> {}, ticks |-> {},
          reacts |-> <<>>, polls |-> <<>>, ops |-> <<>>, fades |-> <<>>, from |-> "none",
          rewinds |-> {}, renews |-> {}, clears |-> {}, closes |-> FALSE,
          keeps |-> FALSE, stops |-> FALSE]

-----------------------------------------------------------------------------
App == [Blank EXCEPT !.once = {"fetchAdminConfig"}]

AppShell == [Blank EXCEPT !.once = {"fetchWards", "fetchHealth"}, !.loads = {"fetchConflicts"},
                          !.ticks = {"fetchHealth"}]

PipelineActivity == [Blank EXCEPT !.once = {"fetchJobs"}, !.ticks = {"fetchJobs"}]

ChatPanel == [Blank EXCEPT !.ops = [sendChatMessage |-> Button]]

overviewLoads == {"fetchSources", "fetchMatches", "fetchHarmonized", "fetchMappings",
                  "fetchExtractionRuns", "fetchTopologyIssues", "fetchReports",
                  "fetchChangeRuns", "fetchReadiness", "fetchCollections"}

OverviewPage ==
  [Blank EXCEPT !.loads = overviewLoads,
                !.inWard = {"fetchHarmonizedGeoJSON"},
                !.ops = [runMatching |-> Does(Button,
                           Often(1, overviewLoads \cup {"fetchHarmonizedGeoJSON"}))],
                !.fades = [run |-> {"failed"}]]

UploadPanel == [Blank EXCEPT !.ops = [uploadSource |-> Does(Button,
                  [Then({"fetchSources"}) EXCEPT !.fades = {"upload"}, !.times = 1])]]

SourceDetail ==
  [Blank EXCEPT !.picked = {"fetchSourceDetail", "fetchSourceFeatures"},
                !.clears = {"source", "digitize"}, !.closes = TRUE,
                !.ops = [digitizeSource |-> [Button EXCEPT !.rests = {"source"}]]]

SourcesPage ==
  [Blank EXCEPT !.loads = {"fetchSources"},
                !.from = "sources",
                !.polls = [sources |-> Poll({"fetchSources"})]]

IntegrationMapPage ==
  [Blank EXCEPT !.inWard = {"fetchSources", "fetchHarmonizedGeoJSON", "fetchTopologyIssues",
                            "fetchFindings", "fetchWardVillages"},
                !.reacts = [sources |-> "fetchSourceFeatures"],
                !.ops = [fetchAllVillages |-> [Link EXCEPT !.fills = TRUE]]]

\* A rejected match closes the panel, whichever row it shows by then.
OfficerDecision ==
  [Blank EXCEPT !.ops = [labelMatch |-> Choice(Button, [NothingMore EXCEPT !.closes = TRUE])]]

(* Mutant: a closed panel forgets the decision under way with the match. *)
MatchDetailForgetting ==
  [Blank EXCEPT !.picked = {"fetchMatchDetail"}, !.clears = {"match", "label"}, !.closes = TRUE]

MatchDetail ==
  [Blank EXCEPT !.picked = {"fetchMatchDetail"}, !.clears = {"match"}, !.closes = TRUE]

MatchingPage ==
  [Blank EXCEPT !.loads = {"fetchMatches"},
                !.from = "matches",
                !.ops = [runMatching |-> Does(Button, Often(1, {"fetchMatches"}))],
                !.stops = TRUE]

AttributeMappingPage ==
  [Blank EXCEPT !.loads = {"fetchSources"},
                !.unpicked = {"fetchMappings"},
                !.picked = {"fetchMappings", "fetchSourceFeatures"},
                !.from = "sources",
                !.rewinds = {"suggested"}, !.renews = {"suggested"},
                !.ops = [suggestMappings |-> Does(Button, Then({"fetchMappings"}))]]

ConflictDetail ==
  [Blank EXCEPT !.picked = {"fetchMatchDetail"},
                !.renews = {"resolve"}, !.clears = {"match"},
                !.ops = [resolveConflict |-> Button]]

ConflictsPage == [Blank EXCEPT !.from = "conflicts", !.ops = [fetchConflicts |-> Link]]

recordsLoads == {"fetchHarmonized", "fetchReadiness"}
recordsInWard == {"fetchHarmonizedGeoJSON", "fetchExports"}

RecordsPage ==
  [Blank EXCEPT !.loads = recordsLoads, !.inWard = recordsInWard,
                !.from = "records",
                !.rewinds = {"assemble", "export"},
                !.polls = [exports |-> PollInWard({"fetchExports"})],
                !.ops = [assembleWard |-> Does(Button, Often(1, recordsLoads \cup recordsInWard)),
                         exportHarmonized |-> Does(InWard(Button), Then({"fetchExports"}))]]

EpochComparison ==
  [Blank EXCEPT !.inWard = {"fetchSources", "fetchChangeRuns"},
                !.rewinds = {"validate", "detect"},
                !.from = "changes",
                !.polls = [changeRuns |-> PollInWard({"fetchChangeRuns"})],
                !.reacts = [changeRuns |-> "fetchChanges"],
                !.ops = [runChangeDetection |-> InWard(Button), verifyChange |-> InWard(Link)]]

NdbiAlerts ==
  [Blank EXCEPT !.loads = {"fetchStats"}, !.inWard = {"fetchProperties"},
                !.rewinds = {"property", "explanation", "verify"},
                !.renews = {"property", "explanation", "verify"},
                !.picked = {"fetchPropertyById", "fetchPropertyExplanation"},
                !.from = "properties"]

VerifyPanel == [Blank EXCEPT !.ops = [verifyProperty |-> Button], !.fades = [verify |-> {"succeeded"}]]

CrsTool == [Blank EXCEPT !.ops = [transformCoordinates |-> Button]]

GeorefPage ==
  [Blank EXCEPT !.once = {"fetchCrsList"}, !.loads = {"fetchSources"},
                !.picked = {"fetchSourceDetail"},
                !.from = "sources", !.keeps = TRUE,
                !.rewinds = {"preview", "apply"}, !.renews = {"preview", "apply"},
                !.ops = [previewGeoref |-> Link, applyGeoref |-> [Button EXCEPT !.rests = {"source"}]]]

ExtractionPage ==
  [Blank EXCEPT !.loads = {"fetchSources", "fetchExtractionRuns"},
                !.picked = {"fetchSourceFeatures"},
                !.from = "sources",
                !.rewinds = {"extract", "topology"},
                !.polls = [runs |-> Poll({"fetchSources", "fetchExtractionRuns"})],
                !.ops = [runExtraction |-> Button]]

\* After an accepted fix, and after a refused one too, geometry and issues are read again.
refreshGeometry ==
  [NothingMore EXCEPT !.drops = {"features"}, !.anyway = TRUE,
                      !.calls = {"fetchSourceFeatures", "fetchTopologyIssues"}]

TopologyPage ==
  [Blank EXCEPT !.loads = {"fetchSources"},
                !.picked = {"fetchTopologyIssues", "fetchSourceFeatures"},
                !.from = "sources",
                !.rewinds = {"extract", "topology"},
                !.ops = [runTopology |-> Does(Button, Often(Repeats, {"fetchTopologyIssues"})),
                         resolveIssue |-> Choice(Link, refreshGeometry),
                         acceptAllIssues |-> Does(Link, refreshGeometry)],
                !.stops = TRUE]

ValidationPage ==
  [Blank EXCEPT !.inWard = {"fetchReports", "fetchFindings"},
                !.rewinds = {"validate", "detect"},
                !.ops = [runValidation |-> Does(InWard(Button),
                           Often(Repeats, {"fetchReports", "fetchFindings"}))],
                !.stops = TRUE]

ExchangePage == [Blank EXCEPT !.once = {"fetchCollections"}, !.loads = {"fetchCollectionItems"}]

ActivityPage == [Blank EXCEPT !.once = {"fetchJobs", "fetchAudit"},
                              !.ops = [fetchJobs |-> Link, fetchAudit |-> Link]]

SettingsPage ==
  [Blank EXCEPT !.once = {"fetchHealth"},
                !.polls = [config |-> Poll({"fetchAdminConfig"})],
                !.ops = [fetchHealth |-> Link,
                         triggerRefresh |-> [Link EXCEPT !.rests = {"config"}],
                         saveConfig |-> Button],
                !.fades = [save |-> {"succeeded", "failed"}]]

-----------------------------------------------------------------------------
Components ==
  [App |-> App, AppShell |-> AppShell, PipelineActivity |-> PipelineActivity,
   ChatPanel |-> ChatPanel, OverviewPage |-> OverviewPage, UploadPanel |-> UploadPanel,
   SourceDetail |-> SourceDetail, SourcesPage |-> SourcesPage,
   IntegrationMapPage |-> IntegrationMapPage, OfficerDecision |-> OfficerDecision,
   MatchDetail |-> MatchDetail, MatchingPage |-> MatchingPage,
   AttributeMappingPage |-> AttributeMappingPage, ConflictDetail |-> ConflictDetail,
   ConflictsPage |-> ConflictsPage, RecordsPage |-> RecordsPage,
   EpochComparison |-> EpochComparison, NdbiAlerts |-> NdbiAlerts, VerifyPanel |-> VerifyPanel,
   CrsTool |-> CrsTool, GeorefPage |-> GeorefPage, ExtractionPage |-> ExtractionPage,
   TopologyPage |-> TopologyPage, ValidationPage |-> ValidationPage,
   ExchangePage |-> ExchangePage, ActivityPage |-> ActivityPage, SettingsPage |-> SettingsPage]

Always == {"App", "AppShell", "PipelineActivity", "ChatPanel"}

\* App.jsx; the page that compares surveys has two tabs.
Routes ==
  [overview |-> {"OverviewPage"},
   sources |-> {"SourcesPage", "UploadPanel", "SourceDetail"},
   map |-> {"IntegrationMapPage"},
   matching |-> {"MatchingPage", "MatchDetail", "OfficerDecision"},
   attributes |-> {"AttributeMappingPage"},
   conflicts |-> {"ConflictsPage", "ConflictDetail"},
   records |-> {"RecordsPage"},
   changes |-> {"EpochComparison"},
   alerts |-> {"NdbiAlerts", "VerifyPanel"},
   georef |-> {"GeorefPage", "CrsTool"},
   extraction |-> {"ExtractionPage"},
   topology |-> {"TopologyPage"},
   validation |-> {"ValidationPage"},
   exchange |-> {"ExchangePage"},
   activity |-> {"ActivityPage"},
   settings |-> {"SettingsPage"}]

ASSUME PagesAssumption ==
  /\ Repeats \in Nat \ {0}
  /\ \A st \in Starts : st.page \in DOMAIN Routes

Mounted == Always \cup Routes[page]

All(ms, field) == UNION {Components[m][field] : m \in ms}

\* What a call is made for: the picked row, the ward, or everything.
Target(m, t, w, row) ==
  LET by == Head(rootReducer[t].asks).by IN
  IF t \in Components[m].picked \/ by = "row"
    THEN IF row = Nobody THEN AllWards ELSE row
    ELSE IF by = "ward" THEN w ELSE AllWards

NoAfter == [does |-> NothingMore, by |-> "none", ward |-> AllWards, row |-> Nobody]

CallsOf(m, ts, w, row) == {Call(t, Target(m, t, w, row), NoAfter) : t \in ts}

ForWard(m, w) ==
  LET c == Components[m] IN CallsOf(m, c.loads \cup IF w = AllWards THEN {} ELSE c.inWard, w, Nobody)
Unpicked(m) == CallsOf(m, Components[m].unpicked, AllWards, Nobody)
Appearing(ms, w) ==
  UNION {ForWard(m, w) \cup Unpicked(m) \cup CallsOf(m, Components[m].once, w, Nobody) : m \in ms}

\* At most MaxCalls of one thunk are in flight when the user or a poll asks for more.
CallsInFlight(t) ==
  BagCardinality([c \in {d \in BagToSet(calls) : d.thunk = t} |-> calls[c]])

Room(cs) == \A c \in cs : CallsInFlight(c.thunk) < MaxCalls

Dispatch(cs, s, flying) ==
  LET made == Made(cs, s) IN
  /\ store' = Begun(made, s)
  /\ calls' = flying (+) SetToBag(made)

-----------------------------------------------------------------------------
Init ==
  /\ start \in Starts
  /\ page = start.page /\ ward = AllWards /\ pick = Nobody
  /\ work = {} /\ timers = {} /\ moves = 0 /\ faults = 0
  /\ LET blank == [k \in Cells(start.watched) |-> Idle]
         made == Made(Appearing(Always \cup Routes[start.page], AllWards), blank)
     IN  store = Begun(made, blank) /\ calls = SetToBag(made)

Moves == moves < start.moves /\ moves' = moves + 1

\* Timers of these components that are cleared with their effects.
Stopped(ms) == {x \in timers : x.by \in ms /\ Components[x.by].stops}

\* The panel of the picked row goes when the row does.
Gone(ms) == IF pick = Nobody THEN {} ELSE All(ms, "clears")

SelectWard(w) ==
  LET keeps == \E m \in Mounted : Components[m].keeps
      cs == UNION {ForWard(m, w) \cup IF keeps \/ pick = Nobody THEN {} ELSE Unpicked(m) : m \in Mounted}
      cleared == {"villages"} \cup IF keeps THEN {} ELSE All(Mounted, "rewinds") \cup Gone(Mounted)
  IN  /\ w # ward /\ Moves /\ Room(cs)
      /\ ~Is("wards", "loading")
      /\ w = AllWards \/ <<"wards", Nobody>> \notin DOMAIN store \/ Held("wards") # Empty
      /\ ward' = w
      /\ pick' = IF keeps THEN pick ELSE Nobody
      /\ timers' = timers \ Stopped(Mounted)
      /\ Dispatch(cs, Cleared(cleared, store), calls)
      /\ UNCHANGED <<work, faults, start, page>>

Open(p) ==
  LET cs == Appearing(Routes[p], ward) IN
  /\ p # page /\ p \in start.tour /\ Moves /\ Room(cs)
  /\ page' = p /\ pick' = Nobody
  /\ timers' = timers \ Stopped(Routes[page])
  /\ Dispatch(cs, Cleared(Gone(Routes[page]) \cup All(Routes[p], "rewinds"), store), calls)
  /\ UNCHANGED <<work, ward, faults, start>>

\* A row of a list on the page is picked, its property held from the list.
Listed(row) ==
  \A m \in Routes[page] : LET list == Components[m].from IN
     <<list, Nobody>> \in DOMAIN store => Held(list).of \in {AllWards, WardOf[row]}

Pick(row) ==
  LET ms == Routes[page]
      cs == UNION {CallsOf(m, Components[m].picked, ward, row) : m \in ms}
      s == Cleared(Gone(ms) \cup All(ms, "renews"), store)
      held == [k \in DOMAIN s |->
                 IF k[1] = "property" /\ "NdbiAlerts" \in ms
                   THEN [s[k] EXCEPT !.data = [of |-> row, busy |-> FALSE]] ELSE s[k]]
  IN  /\ row # pick /\ Moves /\ Room(cs)
      /\ \E m \in ms : Components[m].from # "none"
      /\ Listed(row)
      /\ pick' = row
      /\ timers' = timers \ {x \in Stopped(ms) : Components[x.by].picked # {}}
      /\ Dispatch(cs, held, calls)
      /\ UNCHANGED <<work, ward, faults, start, page>>

Close ==
  /\ pick # Nobody /\ \E m \in Routes[page] : Components[m].closes
  /\ Moves
  /\ pick' = Nobody
  /\ store' = Cleared(Gone(Routes[page]), store)
  /\ UNCHANGED <<work, ward, calls, faults, start, page, timers>>

\* A button; an upload may be for any ward.
Enabled(t, op) ==
  LET slot == rootReducer[t].slot IN
  /\ op.waits => ~Is(slot, "loading")
  /\ \A other \in op.rests : ~Held(other).busy
  /\ op.inWard => ward # AllWards
  /\ op.fills => Held(slot) = Empty

Operate(m, t) ==
  LET op == Components[m].ops[t]
      by == Head(rootReducer[t].asks).by
  IN  /\ Moves /\ Enabled(t, op)
      /\ by = "row" => pick # Nobody
      /\ \E w \in (IF t = "uploadSource" THEN Wards ELSE {ward}) :
         \E does \in {op.then} \cup IF op.choice THEN {NothingMore} ELSE {} :
           LET c == Call(t, Target(m, t, w, pick), [does |-> does, by |-> m, ward |-> ward, row |-> pick])
           IN  /\ <<rootReducer[t].slot, Nobody>> \in DOMAIN store
               /\ Room({c})
               /\ Dispatch({c}, store, calls)
      /\ UNCHANGED <<work, ward, faults, start, page, pick, timers>>

-----------------------------------------------------------------------------
\* What an answer brings a page to ask next, when the list shows no unfinished work.
Reactions(c, s) ==
  LET slot == rootReducer[c.thunk].slot
      asked(m) == LET t == Components[m].reacts[slot] IN
        IF Head(rootReducer[t].asks).by = "row"
          THEN {Call(t, row, NoAfter) : row \in {r \in Ids : WardOf[r] = ward}}
          ELSE CallsOf(m, {t}, ward, Nobody)
  IN  IF c.stage = "answered" /\ slot \notin Keyed /\ ~Held(slot).busy /\ ward # AllWards
        THEN UNION {asked(m) : m \in {n \in Mounted : slot \in DOMAIN Components[n].reacts}}
        ELSE {}

Deliver(c) ==
  LET done == IF c.stage = "answered" \/ c.after.does.anyway THEN c.after.does ELSE NothingMore
      closes == done.closes /\ c.after.by \in Mounted
      s == Cleared(done.drops \cup IF closes THEN Gone(Mounted) ELSE {}, Taken(c, store))
      follow == IF done.calls = {} THEN {} ELSE CallsOf(c.after.by, done.calls, c.after.ward, c.after.row)
      timer == [by |-> c.after.by, ward |-> c.after.ward, row |-> c.after.row,
                calls |-> done.later, fades |-> done.fades, left |-> done.times]
  IN  /\ c.stage \in {"answered", "refused"}
      /\ pick' = IF closes THEN Nobody ELSE pick
      /\ timers' = IF done.times = 0 THEN timers ELSE (timers \ Stopped({timer.by})) \cup {timer}
      /\ Dispatch(follow \cup Reactions(c, s), s, calls (-) SetToBag({c}))
      /\ UNCHANGED <<work, ward, faults, start, page, moves>>

(* Mutant: a repeating timer fires once more than it should. *)
TimerFiresOnceMore(x) ==
  /\ timers' = (timers \ {x}) \cup IF x.left > 0 THEN {[x EXCEPT !.left = @ - 1]} ELSE {}
  /\ Dispatch(CallsOf(x.by, x.calls, x.ward, x.row), Reset(x.fades, store), calls)
  /\ UNCHANGED <<work, ward, faults, start, page, pick, moves>>

\* A timer acts for the ward and the row it was set for.
TimerFires(x) ==
  /\ timers' = (timers \ {x}) \cup IF x.left > 1 THEN {[x EXCEPT !.left = @ - 1]} ELSE {}
  /\ Dispatch(CallsOf(x.by, {t \in x.calls : ~(x.ward = AllWards /\ t \in Components[x.by].inWard)},
                      x.ward, x.row),
              Reset(x.fades, store), calls)
  /\ UNCHANGED <<work, ward, faults, start, page, pick, moves>>

\* While a list shows unfinished work, its page asks again.
Polling(m, slot) ==
  /\ slot \in DOMAIN Components[m].polls
  /\ Held(slot).busy
  /\ Components[m].polls[slot].inWard => ward # AllWards

Again(cs) ==
  /\ Made(cs, store) # {} /\ Room(cs)
  /\ Dispatch(cs, store, calls)
  /\ UNCHANGED <<work, ward, faults, start, page, pick, timers, moves>>

(* Mutant: a refused poll is the last one. *)
PollsUntilRefused(m) ==
  \E slot \in DOMAIN Components[m].polls :
     Polling(m, slot) /\ ~Is(slot, "failed") /\ Again(CallsOf(m, Components[m].polls[slot].calls, ward, Nobody))

Polls(m) ==
  \E slot \in DOMAIN Components[m].polls :
     Polling(m, slot) /\ Again(CallsOf(m, Components[m].polls[slot].calls, ward, Nobody))

Ticks(m) == \E t \in Components[m].ticks : Again(CallsOf(m, {t}, ward, Nobody))

\* A message fades, or is dismissed.
Fades(m) ==
  /\ \E slot \in DOMAIN Components[m].fades :
       /\ \E status \in Components[m].fades[slot] : Is(slot, status)
       /\ store' = Reset({slot}, store)
  /\ UNCHANGED <<work, ward, calls, faults, start, page, pick, timers, moves>>

InFlight == BagToSet(calls)

pageVars == <<start, page, pick, timers, moves>>
Served(c) == Serve(c) /\ UNCHANGED pageVars
Refused(c) == Refuse(c) /\ UNCHANGED pageVars
WorkEnds == Ends /\ UNCHANGED <<storeVars, pageVars>>

Next ==
  \/ \E w \in Wards \cup {AllWards} : SelectWard(w)
  \/ \E p \in DOMAIN Routes : Open(p)
  \/ \E row \in Ids : Pick(row)
  \/ Close
  \/ \E m \in Mounted : (\E t \in DOMAIN Components[m].ops : Operate(m, t)) \/ Polls(m) \/ Ticks(m) \/ Fades(m)
  \/ \E c \in InFlight : Served(c) \/ Refused(c) \/ Deliver(c)
  \/ \E x \in timers : TimerFires(x)
  \/ WorkEnds

\* Calls are answered, answers are taken, timers fire, polls go on, work ends: the
\* browser's and the server's own steps.  The user need do nothing.
Asked == LET watched == UNION {st.watched : st \in Starts}
         IN  {t \in DOMAIN rootReducer : rootReducer[t].slot \in watched}

Fairness ==
  /\ \A t \in Asked : WF_vars(\E c \in InFlight : c.thunk = t /\ (Served(c) \/ Deliver(c)))
  /\ WF_vars(\E x \in timers : TimerFires(x))
  /\ WF_vars(\E m \in Mounted : Polls(m))
  /\ WF_vars(\E m \in Mounted : Ticks(m))
  /\ WF_vars(WorkEnds)

Spec == Init /\ [][Next]_vars /\ Fairness

-----------------------------------------------------------------------------
(* Properties *)

\* The store, the calls and the timers have the shape the slices give them.
ClientTypeOK ==
  /\ start \in Starts /\ page \in DOMAIN Routes /\ pick \in Ids \cup {Nobody}
  /\ ward \in Wards \cup {AllWards}
  /\ DOMAIN store = Cells(start.watched)
  /\ \A k \in DOMAIN store :
       /\ store[k].status \in {"idle", "loading", "succeeded", "failed"}
       /\ store[k].data \in [of : Ids \cup Wards \cup {AllWards, Nobody}, busy : BOOLEAN]
  /\ \A c \in InFlight : /\ c.thunk \in DOMAIN rootReducer
                         /\ c.arg \in Ids \cup Wards \cup {AllWards}
                         /\ c.stage \in {"sent", "answered", "refused"}
                         /\ c.stage = "sent" <=> c.todo # <<>>
  /\ \A x \in timers : x.by \in DOMAIN Components /\ x.left \in 1..Repeats
  /\ \A x \in work : x.of \in Kinds /\ x.ward \in Wards /\ x.job \in Jobs

\* However late and out of order answers come, the villages drawn are those of the
\* ward chosen now, and the property shown is the row selected now
\* (wardsSlice.js:89, propertiesSlice.js:118, :124).
AnswersAreWanted ==
  /\ Held("villages").of \in {Nobody, ward}
  /\ page = "alerts" => Held("property").of \in {Nobody, pick}

\* A decision on a match, a matching run, a change of the thresholds and a
\* transformation are sent one at a time, whatever is opened and closed meanwhile:
\* nothing resets their status while they are under way.
OneAtATime ==
  \A c, d \in InFlight :
     c.thunk = d.thunk /\ c.thunk \in {"labelMatch", "runMatching", "saveConfig", "transformCoordinates"}
       => c = d /\ calls[c] = 1

\* A page that polls while its list shows unfinished work does not show it as
\* unfinished for ever: each poll may be refused or overtaken, the next catches up.
ShowsFinishedWork(m, slot) ==
  /\ Polling(m, slot)
  /\ ~\E x \in work : x.of \in Head(rootReducer[CHOOSE t \in DOMAIN rootReducer :
                         rootReducer[t].slot = slot /\ rootReducer[t].takes = "answer"].asks).shows
                      /\ x.ward \in Scope(ward)

PollsCatchUp == []<>~\E m \in Mounted : \E slot \in DOMAIN Components[m].polls : ShowsFinishedWork(m, slot)

\* Choose a ward and every page shows only that ward's data, once nothing is under
\* way any more (AppShell.jsx:36).
OnlyTheWardsData ==
  calls = EmptyBag /\ timers = {} =>
    \A m \in Mounted : \A t \in Components[m].loads \cup (IF ward = AllWards THEN {} ELSE Components[m].inWard) :
      LET e == Head(rootReducer[t].asks) IN
      e.by = "ward" => Held(rootReducer[t].slot).of \in {Nobody, ward}
=============================================================================
