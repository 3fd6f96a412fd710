------------------------------ MODULE Topology ------------------------------
(***************************************************************************)
(* The topology issues of one polygon source: FIX_TOPOLOGY, which detects  *)
(* overlaps and gaps and may fix them (worker/src/spatial/                 *)
(* topology_fabric.py), and the officers who accept, ignore and reopen     *)
(* what it found (backend/src/topology).                                   *)
(*                                                                         *)
(* Both work in database transactions under READ COMMITTED, without a      *)
(* common lock: a statement sees what was committed when it began, an      *)
(* UPDATE waits for the row and then applies to its newest version, and    *)
(* nobody else sees it before the commit.  Reading the parcel that stays   *)
(* and writing the one that is clipped are therefore two steps.            *)
(*                                                                         *)
(* The ground is a row of cells; a parcel claims a set of them.            *)
(***************************************************************************)
EXTENDS Integers, SequencesExt

CONSTANTS
  Feature,      \* the polygons of the source, by their ids
  Width,        \* the number of cells
  Fabric,       \* the geometries the source may have been ingested with
  Worker,
  Officer,      \* requests of officers that may be under way at once
  Free,         \* a row that no transaction has written
  MaxRuns,      \* how often FIX_TOPOLOGY is queued
  MaxDecisions, \* how often officers decide
  MaxFaults     \* how often a handler raises or dies, or a request fails

Cell == 1 .. Width
Session == Worker \cup Officer

ASSUME TopologyAssumption ==
  /\ Feature \subseteq Nat /\ IsFiniteSet(Feature)
  /\ Width \in Nat
  /\ Fabric \subseteq [Feature -> SUBSET Cell]
  /\ Worker \cap Officer = {}
  /\ Free \notin Session
  /\ MaxRuns \in Nat /\ MaxDecisions \in Nat /\ MaxFaults \in Nat

VARIABLES
  geom,         \* source_features.geom, as committed
  dirty,        \* ... as the transaction that has written the row sees it
  owner,        \* that transaction
  issues,       \* topology_issues, as committed
  ids,          \* the number of issues so far
  jobs,         \* the queued FIX_TOPOLOGY jobs, with autoFix or without
  pc,           \* where each worker and each request stands
  auto,         \* autoFix of the job of each worker
  gone,         \* the issues the transaction of a worker has deleted
  todo,         \* the findings it has still to write, ...
  found,        \* ... and those it has written
  batch,        \* the issues a request has still to accept
  hand,         \* the issue a session is fixing
  kept,         \* the geometry it clips with
  fixed,        \* it has fixed something
  requested, decisions, faults,
  applied,      \* history: the issues whose fixes were committed
  unmatched,    \* history: a fix was committed, and no HARMONIZE_WARD queued since
  severed,      \* history: a fault struck between a commit and its HARMONIZE_WARD
  crossed,      \* history: a fix used a parcel that another transaction was changing
  disturbed,    \* history: another commit changed the fabric under a worker's run
  filled        \* history: how many issues there were when a gap fix of a cell was last committed

table   == <<geom, dirty, owner>>
worker  == <<auto, gone, todo, found>>
session == <<hand, kept, fixed>>
bounds  == <<requested, decisions, faults>>
history == <<applied, unmatched, severed, crossed, disturbed, filled>>
meanwhile == <<crossed, disturbed, filled>>
vars == <<table, issues, ids, jobs, pc, worker, batch, session, bounds, history>>

Status == {"open", "auto_fixed", "accepted", "ignored"}
Finding == [action : {"clip_from", "merge_into"}, target : Feature, keep : Feature, ground : SUBSET Cell]
Issue == [id : Nat, fix : Finding, status : Status]
NoFix == [action |-> "none", target |-> 0, keep |-> 0, ground |-> {}]
NoIssue == [id |-> 0, fix |-> NoFix, status |-> "ignored"]

Deciding == {"next", "read", "write", "commit"}
Running == {"delete", "overlaps", "gaps", "loop", "read", "write"}

FabricOK ==
  /\ geom \in [Feature -> SUBSET Cell] /\ dirty \in [Feature -> SUBSET Cell]
  /\ owner \in [Feature -> Session \cup {Free}]

IssuesOK ==
  /\ issues \subseteq Issue
  /\ \A i, k \in issues : i.id = k.id => i = k
  /\ ids \in Nat

WorkersOK ==
  /\ jobs \in [BOOLEAN -> Nat]
  /\ auto \in [Worker -> BOOLEAN]
  /\ gone \in [Worker -> SUBSET (1 .. ids)]
  /\ todo \in [Worker -> SUBSET Finding]
  /\ found \in [Worker -> SUBSET Issue]

SessionsOK ==
  /\ pc \in [Session -> {"idle", "chain"} \cup Deciding \cup Running]
  /\ batch \in [Officer -> SUBSET (1 .. ids)]
  /\ hand \in [Session -> Issue \cup {NoIssue}]
  /\ kept \in [Session -> SUBSET Cell]
  /\ fixed \in [Session -> BOOLEAN]

HistoryOK ==
  /\ applied \subseteq 1 .. ids
  /\ unmatched \in BOOLEAN /\ severed \in BOOLEAN /\ crossed \in BOOLEAN
  /\ disturbed \in [Worker -> BOOLEAN]
  /\ filled \in [Cell -> 0 .. ids]

TypeOK == FabricOK /\ IssuesOK /\ WorkersOK /\ SessionsOK /\ HistoryOK

Init ==
  /\ geom \in Fabric /\ dirty = geom
  /\ owner = [f \in Feature |-> Free]
  /\ issues = {} /\ ids = 0
  /\ jobs = [b \in BOOLEAN |-> 0]
  /\ pc = [s \in Session |-> "idle"]
  /\ auto = [w \in Worker |-> FALSE]
  /\ gone = [w \in Worker |-> {}] /\ todo = [w \in Worker |-> {}] /\ found = [w \in Worker |-> {}]
  /\ batch = [o \in Officer |-> {}]
  /\ hand = [s \in Session |-> NoIssue]
  /\ kept = [s \in Session |-> {}]
  /\ fixed = [s \in Session |-> FALSE]
  /\ requested = 0 /\ decisions = 0 /\ faults = 0
  /\ applied = {}
  /\ unmatched = FALSE /\ severed = FALSE /\ crossed = FALSE
  /\ disturbed = [w \in Worker |-> FALSE]
  /\ filled = [c \in Cell |-> 0]

At(s, from, to) == pc[s] = from /\ pc' = [pc EXCEPT ![s] = to]

-----------------------------------------------------------------------------
(* Transactions. *)

(* What the next statement of s sees of a row. *)
Seen(s, f) == IF owner[f] = s THEN dirty[f] ELSE geom[f]

(* The issues whose fixes s has written, but not committed, and the ground *)
(* they fill.                                                              *)
Written(s) ==
  IF s \in Worker THEN {i \in found[s] : i.status = "auto_fixed"}
  ELSE IF pc[s] = "commit" THEN {hand[s]}
  ELSE {}
Filling(s) == UNION {i.fix.ground : i \in {i \in Written(s) : i.fix.action = "merge_into"}}

(* The rows s has written take effect and are let go, or are forgotten. *)
Publish(s) ==
  /\ geom' = [f \in Feature |-> Seen(s, f)]
  /\ dirty' = [f \in Feature |-> IF owner[f] \in {s, Free} THEN Seen(s, f) ELSE dirty[f]]
  /\ owner' = [f \in Feature |-> IF owner[f] = s THEN Free ELSE owner[f]]
  /\ disturbed' = [w \in Worker |-> disturbed[w] \/ (w # s /\ geom' # geom)]
  /\ filled' = [c \in Cell |-> IF c \in Filling(s) THEN ids ELSE filled[c]]
Forget(s) ==
  /\ dirty' = [f \in Feature |-> IF owner[f] = s THEN geom[f] ELSE dirty[f]]
  /\ owner' = [f \in Feature |-> IF owner[f] = s THEN Free ELSE owner[f]]
  /\ geom' = geom

(* The rows of topology_issues others have locked. *)
Locked(s) ==
  (UNION {gone[w] : w \in Worker \ {s}})
    \cup {hand[o].id : o \in {o \in Officer \ {s} : pc[o] \in {"read", "write", "commit"}}}

(* APPLY_SQL: the statement begins and sees the parcel that stays, ... *)
ReadKept(s) ==
  /\ At(s, "read", "write")
  /\ kept' = [kept EXCEPT ![s] = Seen(s, hand[s].fix.keep)]
  /\ UNCHANGED <<table, issues, ids, jobs, worker, batch, hand, fixed, bounds, history>>

(* Mutant: the overlap that was found is cut out, as merge_into adds the gap. *)
FixAsFound(fix, ground, keep) ==
  IF fix.action = "clip_from" THEN ground \ fix.ground ELSE ground \cup fix.ground

Fix(fix, ground, keep) ==
  IF fix.action = "clip_from" THEN ground \ keep ELSE ground \cup fix.ground

(* The parcel that stays is no longer what s has seen, or will not be. *)
Crossing(s) ==
  LET k == hand[s].fix.keep IN owner[k] \notin {s, Free} \/ kept[s] # Seen(s, k)

(* Mutant: the geometry that was proposed when the issue was found. *)
WriteProposal(s, next) ==
  LET f == hand[s].fix.target
  IN /\ At(s, "write", next)
     /\ owner[f] \in {s, Free}
     /\ dirty' = [dirty EXCEPT ![f] = Fix(hand[s].fix, geom[f], geom[hand[s].fix.keep])]
     /\ owner' = [owner EXCEPT ![f] = s]
     /\ crossed' = (crossed \/ Crossing(s))
     /\ UNCHANGED geom

(* ... waits for the target and changes its newest version. *)
Write(s, next) ==
  LET f == hand[s].fix.target
  IN /\ At(s, "write", next)
     /\ owner[f] \in {s, Free}
     /\ dirty' = [dirty EXCEPT ![f] = Fix(hand[s].fix, Seen(s, f), kept[s])]
     /\ owner' = [owner EXCEPT ![f] = s]
     /\ crossed' = (crossed \/ Crossing(s))
     /\ UNCHANGED geom

-----------------------------------------------------------------------------
(* The worker. *)

(* NORMALIZE_SOURCE, EXTRACT_FEATURES or POST /topology/run queue a job. *)
Run(b) ==
  /\ requested < MaxRuns
  /\ requested' = requested + 1
  /\ jobs' = [jobs EXCEPT ![b] = @ + 1]
  /\ UNCHANGED <<table, issues, ids, pc, worker, batch, session, decisions, faults, history>>

Take(w, b) ==
  /\ At(w, "idle", "delete")
  /\ jobs[b] > 0
  /\ jobs' = [jobs EXCEPT ![b] = @ - 1]
  /\ auto' = [auto EXCEPT ![w] = b]
  /\ UNCHANGED <<table, issues, ids, gone, todo, found, batch, session, bounds, history>>

Unresolved == {i \in issues : i.status \in {"open", "auto_fixed"}}

(* Re-runs replace the previous unresolved findings. *)
DeleteUnresolved(w) ==
  /\ At(w, "delete", "overlaps")
  /\ \A i \in Unresolved : i.id \notin Locked(w)
  /\ gone' = [gone EXCEPT ![w] = {i.id : i \in Unresolved}]
  /\ UNCHANGED <<table, issues, ids, jobs, auto, todo, found, batch, session, bounds, history>>

(* Mutant: parcels of the same size are not compared. *)
StrictlySmaller(a, b) == Cardinality(geom[a]) < Cardinality(geom[b])

(* _detect: of two parcels that overlap, the smaller is to be clipped ... *)
Smaller(a, b) ==
  LET m == Cardinality(geom[a]) n == Cardinality(geom[b]) IN m < n \/ (m = n /\ a < b)

DetectOverlaps(w) ==
  /\ At(w, "overlaps", "gaps")
  /\ disturbed' = [disturbed EXCEPT ![w] = FALSE]
  /\ todo' = [todo EXCEPT ![w] =
       {[action |-> "clip_from", target |-> p[1], keep |-> p[2], ground |-> geom[p[1]] \cap geom[p[2]]] :
          p \in {p \in Feature \X Feature :
                   p[1] # p[2] /\ Smaller(p[1], p[2]) /\ geom[p[1]] \cap geom[p[2]] # {}}}]
  /\ UNCHANGED <<table, issues, ids, jobs, auto, gone, found, batch, session, bounds, applied, unmatched, severed, crossed, filled>>

(* ... and a strip too narrow to be a parcel goes to one of its neighbours *)
(* that share the longest boundary with it, whichever the query returns.    *)
Claimed == UNION {geom[f] : f \in Feature}
Gap == {c \in Cell : c \notin Claimed /\ c - 1 \in Claimed /\ c + 1 \in Claimed}
Boundary(f, c) == Cardinality({c - 1, c + 1} \cap geom[f])
Neighbours(c) == {f \in Feature : \A k \in Feature : Boundary(f, c) >= Boundary(k, c)}

DetectGaps(w) ==
  /\ At(w, "gaps", "loop")
  /\ \E n \in [Gap -> Feature] :
       /\ \A c \in Gap : n[c] \in Neighbours(c)
       /\ todo' = [todo EXCEPT ![w] = @ \cup
            {[action |-> "merge_into", target |-> n[c], keep |-> n[c], ground |-> {c}] : c \in Gap}]
  /\ UNCHANGED <<table, issues, ids, jobs, auto, gone, found, batch, session, bounds, history>>

(* The findings are written one after another.  Without autoFix they stay *)
(* open ...                                                               *)
Report(w) ==
  /\ pc[w] = "loop" /\ ~auto[w]
  /\ todo[w] # {}
  /\ found' = [found EXCEPT ![w] =
       LET d == SetToSeq(todo[w])
       IN {[id |-> ids + n, fix |-> d[n], status |-> "open"] : n \in DOMAIN d}]
  /\ ids' = ids + Cardinality(todo[w])
  /\ todo' = [todo EXCEPT ![w] = {}]
  /\ UNCHANGED <<table, issues, jobs, pc, auto, gone, batch, session, bounds, history>>

(* ... and with it they are fixed at once, the overlaps first. *)
First(w) ==
  LET clips == {d \in todo[w] : d.action = "clip_from"} IN IF clips # {} THEN clips ELSE todo[w]

FixNext(w, d) ==
  /\ At(w, "loop", "read")
  /\ auto[w]
  /\ d \in First(w)
  /\ todo' = [todo EXCEPT ![w] = @ \ {d}]
  /\ ids' = ids + 1
  /\ hand' = [hand EXCEPT ![w] = [id |-> ids + 1, fix |-> d, status |-> "auto_fixed"]]
  /\ UNCHANGED <<table, issues, jobs, auto, gone, found, batch, kept, fixed, bounds, history>>

Fixed(w) ==
  /\ Write(w, "loop")
  /\ found' = [found EXCEPT ![w] = @ \cup {hand[w]}]
  /\ fixed' = [fixed EXCEPT ![w] = TRUE]
  /\ UNCHANGED <<issues, ids, jobs, auto, gone, todo, batch, hand, kept, bounds, applied, unmatched, severed, disturbed, filled>>

Clear(s) ==
  /\ hand' = [hand EXCEPT ![s] = NoIssue]
  /\ kept' = [kept EXCEPT ![s] = {}]

ClearWorker(w) ==
  /\ gone' = [gone EXCEPT ![w] = {}]
  /\ todo' = [todo EXCEPT ![w] = {}]
  /\ found' = [found EXCEPT ![w] = {}]
  /\ auto' = [auto EXCEPT ![w] = FALSE]
  /\ Clear(w)

(* The transaction of the whole run commits. *)
Commit(w) ==
  /\ At(w, "loop", IF fixed[w] THEN "chain" ELSE "idle")
  /\ todo[w] = {}
  /\ Publish(w)
  /\ issues' = {i \in issues : i.id \notin gone[w]} \cup found[w]
  /\ applied' = applied \cup {i.id : i \in {i \in found[w] : i.status = "auto_fixed"}}
  /\ unmatched' = (unmatched \/ fixed[w])
  /\ gone' = [gone EXCEPT ![w] = {}]
  /\ found' = [found EXCEPT ![w] = {}]
  /\ Clear(w)
  /\ UNCHANGED <<ids, jobs, auto, todo, batch, fixed, bounds, severed, crossed>>

(* What was fixed is matched again. *)
Chain(s) ==
  /\ At(s, "chain", "idle")
  /\ unmatched' = FALSE
  /\ fixed' = [fixed EXCEPT ![s] = FALSE]
  /\ UNCHANGED <<table, issues, ids, jobs, worker, batch, hand, kept, bounds, applied, severed, meanwhile>>

(* The handler raises, is the victim of a deadlock, or its worker dies: its *)
(* transaction is rolled back and the job delivered again.                  *)
Fail(w) ==
  /\ pc[w] # "idle"
  /\ faults < MaxFaults
  /\ faults' = faults + 1
  /\ pc' = [pc EXCEPT ![w] = "idle"]
  /\ jobs' = [jobs EXCEPT ![auto[w]] = @ + 1]
  /\ Forget(w)
  /\ fixed' = [fixed EXCEPT ![w] = FALSE]
  /\ severed' = (severed \/ pc[w] = "chain")
  /\ ClearWorker(w)
  /\ UNCHANGED <<issues, ids, batch, requested, decisions, applied, unmatched, meanwhile>>

-----------------------------------------------------------------------------
(* The officers. *)

Decide == decisions < MaxDecisions /\ decisions' = decisions + 1 /\ UNCHANGED <<requested, faults>>

(* resolve, of one issue, or acceptAll, of those that are open by now. *)
Accept(o, S) ==
  /\ At(o, "idle", "next")
  /\ Decide
  /\ batch' = [batch EXCEPT ![o] = {i.id : i \in S}]
  /\ UNCHANGED <<table, issues, ids, jobs, worker, session, history>>

(* Each is a transaction of its own, which locks the issue ... *)
Begin(o, i) ==
  /\ At(o, "next", "read")
  /\ i.id \in batch[o] /\ i.id \notin Locked(o)
  /\ i.status = "open"
  /\ hand' = [hand EXCEPT ![o] = i]
  /\ batch' = [batch EXCEPT ![o] = @ \ {i.id}]
  /\ UNCHANGED <<table, issues, ids, jobs, worker, kept, fixed, bounds, history>>

(* Mutant: acceptAll does not catch what resolve throws. *)
RefuseThrows(o, n) ==
  /\ At(o, "next", "idle")
  /\ n \in batch[o] /\ n \notin Locked(o)
  /\ \A i \in issues : i.id = n => i.status # "open"
  /\ batch' = [batch EXCEPT ![o] = {}]
  /\ fixed' = [fixed EXCEPT ![o] = FALSE]
  /\ UNCHANGED <<table, issues, ids, jobs, worker, hand, kept, bounds, history>>

(* ... if it is there and open. *)
Refuse(o, n) ==
  /\ pc[o] = "next"
  /\ n \in batch[o] /\ n \notin Locked(o)
  /\ \A i \in issues : i.id = n => i.status # "open"
  /\ batch' = [batch EXCEPT ![o] = @ \ {n}]
  /\ UNCHANGED <<table, issues, ids, jobs, pc, worker, session, bounds, history>>

Apply(o) ==
  /\ Write(o, "commit")
  /\ UNCHANGED <<issues, ids, jobs, worker, batch, session, bounds, applied, unmatched, severed, disturbed, filled>>

Accepted(o) ==
  /\ At(o, "commit", "next")
  /\ Publish(o)
  /\ issues' = (issues \ {hand[o]}) \cup {[hand[o] EXCEPT !.status = "accepted"]}
  /\ applied' = applied \cup {hand[o].id}
  /\ unmatched' = TRUE
  /\ fixed' = [fixed EXCEPT ![o] = TRUE]
  /\ Clear(o)
  /\ UNCHANGED <<ids, jobs, worker, batch, bounds, severed, crossed>>

(* The controller queues HARMONIZE_WARD if something was accepted. *)
Answer(o) ==
  /\ batch[o] = {}
  /\ At(o, "next", IF fixed[o] THEN "chain" ELSE "idle")
  /\ UNCHANGED <<table, issues, ids, jobs, worker, batch, session, bounds, history>>

(* resolve throws, as the victim of a deadlock for one: its transaction is *)
(* rolled back, and acceptAll catches it and goes on with the rest.        *)
Throws(o) ==
  /\ pc[o] \in Deciding
  /\ faults < MaxFaults
  /\ faults' = faults + 1
  /\ pc' = [pc EXCEPT ![o] = "next"]
  /\ \/ pc[o] = "next" /\ \E n \in batch[o] : batch' = [batch EXCEPT ![o] = @ \ {n}]
     \/ pc[o] # "next" /\ UNCHANGED batch
  /\ Forget(o)
  /\ Clear(o)
  /\ UNCHANGED <<issues, ids, jobs, worker, fixed, requested, decisions, history>>

(* The request dies, or its push is refused. *)
Abort(o) ==
  /\ pc[o] # "idle"
  /\ faults < MaxFaults
  /\ faults' = faults + 1
  /\ pc' = [pc EXCEPT ![o] = "idle"]
  /\ batch' = [batch EXCEPT ![o] = {}]
  /\ Forget(o)
  /\ fixed' = [fixed EXCEPT ![o] = FALSE]
  /\ severed' = (severed \/ fixed[o])
  /\ Clear(o)
  /\ UNCHANGED <<issues, ids, jobs, worker, requested, decisions, applied, unmatched, meanwhile>>

SetStatus(i, s) ==
  /\ i.id \notin Locked(Free)
  /\ Decide
  /\ issues' = (issues \ {i}) \cup {[i EXCEPT !.status = s]}
  /\ UNCHANGED <<table, ids, jobs, pc, worker, batch, session, history>>

(* Mutant: the word for a conflict. *)
IgnoreMisnamed(i) == SetStatus(i, "rejected")

Ignore(i) == SetStatus(i, "ignored")

(* An applied fix cannot be reopened. *)
Reopen(i) == i.status \notin {"accepted", "auto_fixed"} /\ SetStatus(i, "open")

-----------------------------------------------------------------------------
FixTopology(w) ==
  \/ \E b \in BOOLEAN : Take(w, b)
  \/ DeleteUnresolved(w) \/ DetectOverlaps(w) \/ DetectGaps(w) \/ Report(w)
  \/ \E d \in todo[w] : FixNext(w, d)
  \/ ReadKept(w) \/ Fixed(w) \/ Commit(w) \/ Chain(w)

Resolve(o) ==
  \/ \E i \in issues : Begin(o, i)
  \/ \E n \in batch[o] : Refuse(o, n)
  \/ ReadKept(o) \/ Apply(o) \/ Accepted(o) \/ Answer(o) \/ Chain(o)

Next ==
  \/ \E b \in BOOLEAN : Run(b)
  \/ \E w \in Worker : FixTopology(w) \/ Fail(w)
  \/ \E o \in Officer :
       \/ \E i \in issues : Accept(o, {i})
       \/ Accept(o, {i \in issues : i.status = "open"})
       \/ Resolve(o) \/ Throws(o) \/ Abort(o)
  \/ \E i \in issues : Ignore(i) \/ Reopen(i)

Spec == Init /\ [][Next]_vars

-----------------------------------------------------------------------------
Quiet ==
  /\ \A b \in BOOLEAN : jobs[b] = 0
  /\ \A s \in Session : pc[s] = "idle"

(* Fixes move ground from one parcel to another or claim more of it.  No    *)
(* fix, or sequence of them, whoever applies it, with issues however stale, *)
(* leaves ground unclaimed that was claimed -- unless it clipped with a     *)
(* parcel that another transaction was clipping: then both may give up what *)
(* they share.  (It takes two issues that clip the same pair in opposite    *)
(* directions, one of them reopened or being found anew after the parcels   *)
(* have changed size.)                                                      *)
GroundIsKept == [][Claimed \subseteq Claimed' \/ crossed']_vars

(* A run with autoFix leaves neither overlaps nor gaps behind, although it  *)
(* finds them all before it fixes the first -- if nobody else changed the   *)
(* fabric meanwhile.                                                        *)
Overlapping == {c \in Cell : Cardinality({f \in Feature : c \in geom[f]}) > 1}
AutoFixHeals ==
  [][\A w \in Worker :
       pc[w] = "loop" /\ pc'[w] \in {"chain", "idle"} /\ auto[w] /\ faults' = faults /\ ~disturbed[w]
       => Overlapping' = {} /\ Gap' = {}]_vars

(* Once the fix of an overlap is applied, the two parcels never share ground *)
(* again, whatever other fixes of the same parcels are applied before or     *)
(* after, at the same time, or twice -- except ground that the fix of a gap  *)
(* claimed after the overlap was found: what was a gap once is added to its  *)
(* parcel even if another has claimed it since.                              *)
AcceptedIsHealed ==
  \A i \in issues : i.status \in {"accepted", "auto_fixed"} /\ i.fix.action = "clip_from" =>
    \A c \in geom[i.fix.target] \cap geom[i.fix.keep] : filled[c] >= i.id

(* plan_finish.md: "each applied fix re-triggers matching".  It does,       *)
(* however many issues of a batch are refused, unless a fault strikes        *)
(* between the commit and the push.                                          *)
FixesAreMatched == Quiet => ~unmatched \/ severed

(* topology.service.ts: "an applied fix cannot be reopened; re-run the      *)
(* topology check instead".                                                 *)
AppliedStaysClosed == \A i \in issues : i.id \in applied => i.status # "open"
=============================================================================
