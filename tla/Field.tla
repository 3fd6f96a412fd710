------------------------------- MODULE Field -------------------------------
(***************************************************************************)
(* The handlers behind the field work: officers verify detections, open    *)
(* and review tickets, alerts are generated, explanations written, drones  *)
(* deliver tiles.  A handler is the sequence of its statements; another    *)
(* request may run between two of them, and any of them may fail.          *)
(***************************************************************************)
EXTENDS Access, Integers

CONSTANTS
  MaxFaults   \* failing statements, over the whole behaviour

VARIABLES
  work,       \* per request: the handler's step, its target, its input and what it has read
  jobs,       \* the jobs pushed: their row's owner, how far they are, what they have read
  faults,
  property,   \* the status in properties and the one in verification_status
  tickets,    \* ticket -> status, and what its author was last mailed
  alerts,     \* the alerts stored
  tiles       \* the sources of drone tiles, by the request that registered them

fieldVars == <<property, tickets, alerts, tiles>>

Verdicts == {"pending", "verified", "false_positive"}
Reviews == {"under_review", "resolved"}
FirstTicket == "T"

FieldRoles ==
  [verify |-> {"official", "admin"}, explain |-> {},
   createTicket |-> {"official"}, reviewTicket |-> {"official", "admin"},
   alert |-> {"analyst", "admin"}, tile |-> {"official"}, chat |-> {}]

ASSUME FieldAssumption == MaxFaults \in Nat /\ FirstTicket \notin Requests

Idle == [step |-> "start", on |-> "none", say |-> "none", saw |-> "none", alone |-> TRUE]

FieldInit ==
  /\ work = [r \in Requests |-> Idle]
  /\ jobs = {}
  /\ faults = 0
  /\ property = [status |-> "pending", verdict |-> "pending"]
  /\ tickets = [t \in {FirstTicket} |-> [status |-> "open", mailed |-> "open"]]
  /\ alerts = {}
  /\ tiles = [r \in {} |-> "processing"]

-----------------------------------------------------------------------------
(* Handlers in general. *)

At(r, route, step) ==
  call[r].at = "handler" /\ call[r].route = route /\ work[r].step = step

\* The handler goes on to its next statement, or answers.
Move(r, w) == work' = [work EXCEPT ![r] = w] /\ UNCHANGED accessVars
Done(r, w) == work' = [work EXCEPT ![r] = w] /\ Return(r)
(* Mutant: the error is sent, and the handler goes on. *)
FailsOnly(r, err) ==
  /\ call[r].at = "handler"
  /\ call' = [call EXCEPT ![r].status = StatusOf(err)]
  /\ UNCHANGED <<traffic, env, up, profiles, work>>

Fails(r, err) == Throw(r, err) /\ UNCHANGED work

\* Another request is between two statements of the same handler.
Others(r, step) == {s \in Requests \ {r} : At(s, call[r].route, step)}

\* Statements of r fall between those of the others: none of them ran alone.
Beside(r, step, w) ==
  work' = [s \in Requests |->
    IF s = r THEN [w EXCEPT !.alone = Others(r, step) = {}]
    ELSE IF s \in Others(r, step) THEN [work[s] EXCEPT !.alone = FALSE]
    ELSE work[s]]

\* The last statements of exportGeojson run under a catch of their own.
Caught(r) == call[r].route = "geojson" /\ work[r].step # "start"

\* Any other statement of a handler may find the database or the queue gone.
HandlerFails(r) ==
  /\ call[r].at = "handler" /\ ~Caught(r) /\ faults < MaxFaults
  /\ faults' = faults + 1
  /\ work' = [work EXCEPT ![r].alone = FALSE]
  /\ Throw(r, "connection")
  /\ UNCHANGED <<jobs, fieldVars>>

\* Queue.enqueue: the pipeline_jobs row is best effort, the push is not.
Push(type, owner) ==
  jobs' = jobs \cup {[type |-> type, owner |-> owner, copy |-> 0, at |-> "queued", saw |-> 0]}

-----------------------------------------------------------------------------
(* VerifyService.updateStatus: two tables, two statements, no transaction. *)

Verify(r) ==
  /\ At(r, "verify", "start")
  /\ \/ \E s \in Verdicts :
          /\ property' = [property EXCEPT !.status = s]
          /\ Beside(r, "updated", [Idle EXCEPT !.step = "updated", !.say = s])
          /\ UNCHANGED accessVars
     \/ /\ \/ Fails(r, "badRequest")    \* a status outside VALID
           \/ Fails(r, "notFound")      \* no such property
        /\ UNCHANGED property
  /\ UNCHANGED <<jobs, faults, tickets, alerts, tiles>>

(* Mutant: only a confirmed detection gets a row in verification_status. *)
RecordOnlyVerified(r) ==
  /\ At(r, "verify", "updated")
  /\ property' = IF work[r].say = "verified" THEN [property EXCEPT !.verdict = "verified"] ELSE property
  /\ Done(r, [work[r] EXCEPT !.step = "recorded"])
  /\ UNCHANGED <<jobs, faults, tickets, alerts, tiles>>

RecordVerdict(r) ==
  /\ At(r, "verify", "updated")
  /\ property' = [property EXCEPT !.verdict = work[r].say]
  /\ Done(r, [work[r] EXCEPT !.step = "recorded"])
  /\ UNCHANGED <<jobs, faults, tickets, alerts, tiles>>

-----------------------------------------------------------------------------
(* LlmService: one call to the model; whatever goes wrong in it is caught, *)
(* and a template answers instead.                                         *)

Chat(works) == IF works THEN "model" ELSE "error"

Fallback(text) == IF text = "error" THEN "template" ELSE text

\* The prompt of an alert is built inside the try: avg_confidence is a number
\* only for a ward without detections (COALESCE to 0), else the text that the
\* driver returns for a numeric, which has no toFixed.
AlertText(works, detections) == Fallback(IF detections THEN Chat(FALSE) ELSE Chat(works))

\* generateWardAlert with what alerts.service passes for spike, false
\* positives and type split: only the average confidence varies.
AlertScore(avg) ==
  LET spike == 0
      changes == 0
  IN  (IF spike > 200 THEN 40 ELSE IF spike > 100 THEN 20 ELSE 0)
      + (IF avg > 80 THEN 30 ELSE IF avg > 60 THEN 15 ELSE 0)
      + 20
      + (IF changes > 5 THEN 10 ELSE 0)

Severity(score) == IF score >= 71 THEN "danger" ELSE IF score >= 41 THEN "warning" ELSE "info"

\* PropertiesService.explain and the officers' chat: read, ask, store or answer.
Explain(r) ==
  /\ At(r, "explain", "start")
  /\ \/ Fails(r, "notFound")
     \/ \E works \in BOOLEAN :
          Done(r, [Idle EXCEPT !.step = "explained", !.saw = Fallback(Chat(works))])
  /\ UNCHANGED <<jobs, faults, fieldVars>>

ChatReply(r) ==
  /\ At(r, "chat", "start")
  /\ \/ Fails(r, "badRequest")
     \/ \E works \in BOOLEAN :
          Done(r, [Idle EXCEPT !.step = "replied", !.saw = Fallback(Chat(works))])
  /\ UNCHANGED <<jobs, faults, fieldVars>>

\* AlertsService.generateAndStore.  An unknown ward has no row to read from.
ReadWardData(r) ==
  /\ At(r, "alert", "start")
  /\ \/ Fails(r, "typeError")
     \/ Move(r, [Idle EXCEPT !.step = "asking"])
  /\ UNCHANGED <<jobs, faults, fieldVars>>

Averages == {0, 61, 81, 100}

StoreAlert(r) ==
  /\ At(r, "alert", "asking")
  /\ \E avg \in Averages, works \in BOOLEAN :
       LET severity == Severity(AlertScore(avg)) IN
         /\ alerts' = alerts \cup {[severity |-> severity, text |-> AlertText(works, avg > 0),
                                    notified |-> severity = "danger"]}
         /\ Done(r, [work[r] EXCEPT !.step = "stored"])
  /\ UNCHANGED <<jobs, faults, property, tickets, tiles>>

-----------------------------------------------------------------------------
(* TicketsService. *)

CreateTicket(r) ==
  /\ At(r, "createTicket", "start")
  /\ \/ /\ \/ Fails(r, "badRequest")    \* a required field is blank
           \/ Fails(r, "notFound")      \* no such ward
        /\ UNCHANGED tickets
     \/ /\ tickets' = [t \in DOMAIN tickets \cup {r} |->
                         IF t = r THEN [status |-> "open", mailed |-> "open"] ELSE tickets[t]]
        /\ Done(r, [Idle EXCEPT !.step = "created"])
  /\ UNCHANGED <<jobs, faults, property, alerts, tiles>>

\* review takes any ticket from any status to either of the two.
Review(r) ==
  /\ At(r, "reviewTicket", "start")
  /\ \/ \E t \in DOMAIN tickets, s \in Reviews :
          /\ tickets' = [tickets EXCEPT ![t].status = s]
          /\ Beside(r, "reviewed", [Idle EXCEPT !.step = "reviewed", !.on = t, !.say = s])
          /\ UNCHANGED accessVars
     \/ /\ Fails(r, "badRequest") \/ Fails(r, "notFound")
        /\ UNCHANGED tickets
  /\ UNCHANGED <<jobs, faults, property, alerts, tiles>>

\* Brevo.send never throws: a mail that could not be sent is only logged.
MailAuthor(r) ==
  LET t == work[r].on
  IN  /\ At(r, "reviewTicket", "reviewed")
      /\ \E sent \in BOOLEAN :
           /\ tickets' = IF sent THEN [tickets EXCEPT ![t].mailed = work[r].say] ELSE tickets
           /\ Done(r, [work[r] EXCEPT !.step = "mailed", !.alone = @ /\ sent])
      /\ UNCHANGED <<jobs, faults, property, alerts, tiles>>

-----------------------------------------------------------------------------
(* DroneController.ingestFlaggedTile: a source, its tile, its job. *)

RegisterTile(r) ==
  /\ At(r, "tile", "start")
  /\ tiles' = [s \in DOMAIN tiles \cup {r} |-> "processing"]
  /\ Move(r, [Idle EXCEPT !.step = "registered"])
  /\ UNCHANGED <<jobs, faults, property, tickets, alerts>>

StoreTile(r) ==
  /\ At(r, "tile", "registered")
  /\ Move(r, [work[r] EXCEPT !.step = "stored"])
  /\ UNCHANGED <<jobs, faults, fieldVars>>

QueueTile(r) ==
  /\ At(r, "tile", "stored")
  /\ Push("NORMALIZE_SOURCE", r)
  /\ Done(r, [work[r] EXCEPT !.step = "queued"])
  /\ UNCHANGED <<faults, fieldVars>>

FieldStep(r) ==
  \/ Verify(r) \/ RecordVerdict(r) \/ Explain(r) \/ ChatReply(r)
  \/ ReadWardData(r) \/ StoreAlert(r)
  \/ CreateTicket(r) \/ Review(r) \/ MailAuthor(r)
  \/ RegisterTile(r) \/ StoreTile(r) \/ QueueTile(r)

-----------------------------------------------------------------------------
\* The two places where a verdict on a detection is kept, and the status of a
\* ticket and what its author was told, only part when two requests overlap or
\* one of them fails half-way (verify.service and tickets.service write in two
\* statements each, without a transaction).
PapersAgree ==
  LET Overlapped(route) == \E r \in Requests : call[r].route = route /\ ~work[r].alone
      Underway(route, step) == \E r \in Requests : At(r, route, step)
  IN  /\ property.status # property.verdict =>
           Overlapped("verify") \/ Underway("verify", "updated")
      /\ \A t \in DOMAIN tickets :
           tickets[t].status # tickets[t].mailed =>
             Overlapped("reviewTicket") \/ Underway("reviewTicket", "reviewed")
=============================================================================
