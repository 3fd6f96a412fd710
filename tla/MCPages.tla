------------------------------- MODULE MCPages -------------------------------
EXTENDS Pages

CONSTANTS w1, w2, a, b

MCWardOf == (a :> w1) @@ (b :> w2)

Start(p, tour, steps, watched) ==
  [page |-> p, tour |-> tour, moves |-> steps, watched |-> watched]

\* One start for each page, with the slots whose interplay it is about.
AllStarts ==
  {Start("overview", {"matching"}, 4, {"run", "geojson"}),
   Start("sources", {}, 2, {"sources", "upload"}),
   Start("sources", {}, 3, {"source", "digitize", "sources"}),
   Start("map", {}, 4, {"villages", "allVillages"}),
   Start("map", {}, 2, {"villages", "sources", "features"}),
   Start("matching", {"conflicts"}, 5, {"match", "label"}),
   Start("attributes", {}, 3, {"mappings", "suggested"}),
   Start("conflicts", {}, 4, {"conflicts", "resolve"}),
   Start("records", {}, 3, {"exports", "export", "assemble"}),
   Start("changes", {}, 3, {"changeRuns", "detect"}),
   Start("changes", {}, 2, {"changeRuns", "changes", "detect", "verifyChange"}),
   Start("alerts", {}, 5, {"properties", "property", "verify"}),
   Start("georef", {}, 4, {"source", "apply", "preview"}),
   Start("georef", {}, 3, {"transformed", "crsList"}),
   Start("extraction", {}, 4, {"runs", "extract"}),
   Start("topology", {}, 3, {"issues", "topology"}),
   Start("topology", {}, 3, {"features", "issues", "resolveIssue"}),
   Start("topology", {}, 2, {"features", "issues", "acceptAll"}),
   Start("validation", {}, 4, {"reports", "validate"}),
   Start("exchange", {"activity"}, 3, {"collections", "items", "audit"}),
   Start("settings", {}, 3, {"config", "refresh"}),
   Start("settings", {}, 3, {"config", "save"}),
   Start("settings", {}, 4, {"chat", "health"}),
   Start("activity", {"settings"}, 3, {"jobs", "wards"})}

OverviewStarts == {Start("overview", {}, 2, {"matches"})}
=============================================================================
