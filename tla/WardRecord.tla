----------------------------- MODULE WardRecord -----------------------------
(***************************************************************************)
(* The golden record of one ward: the chain of jobs HARMONIZE_WARD,        *)
(* DETECT_CONFLICTS, ASSEMBLE_WARD, VALIDATE_WARD of worker/src/harmonize  *)
(* and worker/src/validate, run by several workers, and the officers who   *)
(* label matches and settle conflicts through the API meanwhile.           *)
(*                                                                         *)
(* The jobs of a ward take its advisory lock and run in one transaction    *)
(* each, but under READ COMMITTED: every statement sees what the officers, *)
(* who take no lock, have committed by then.  A statement is one step.     *)
(* That a queued job is delivered, perhaps twice, is JobQueue's concern.   *)
(***************************************************************************)
EXTENDS Integers, FiniteSets

CONSTANTS
  Feature,      \* source_features of the ward
  SourceOf,     \* feature -> the data source it belongs to
  Polygonal,    \* the features with a polygon geometry
  Pair,         \* the candidates of match_ward.sql: sets of two features
  Disagreeing,  \* those whose attributes or outlines disagree
  Worker,
  NoWorker,     \* no one holds the ward's lock
  Verdict,      \* the conflict statuses officers set
  MaxDecisions, \* how often the officers decide something
  MaxRequests,  \* how often uploads and operators queue a ward job
  MaxCrashes    \* how often a worker or an API request dies

ConflictStatus == {"pending", "resolved", "needs_review", "rejected"}
JobType == {"HARMONIZE_WARD", "DETECT_CONFLICTS", "ASSEMBLE_WARD", "VALIDATE_WARD"}

ASSUME WardRecordAssumption ==
  /\ IsFiniteSet(Feature)
  /\ Polygonal \subseteq Feature
  /\ \A p \in Pair : \E a, b \in Feature : p = {a, b} /\ SourceOf[a] # SourceOf[b]
  /\ Disagreeing \subseteq Pair
  /\ NoWorker \notin Worker
  /\ Verdict \subseteq ConflictStatus
  /\ MaxDecisions \in Nat /\ MaxRequests \in Nat /\ MaxCrashes \in Nat

VARIABLES
  matches,      \* the pairs in the matches table
  conflict,     \* match -> status of its conflict, "none" if it has none
  label,        \* pair -> the officers' label in match_labels
  records,      \* harmonized_parcels: match_ids and conflict_count
  drift,        \* the matches with an attribute_drift finding
  waiting,      \* the types of the ward jobs that are queued
  lock,         \* the worker whose transaction holds the ward's lock
  pc,           \* where each worker stands
  snapshot,     \* what the transaction in progress has read
  rejecting,    \* pair -> what is left to do of a POST that rejects it
  decisions, requests, crashes,
  touched,      \* history: the pairs an officer has ever decided on
  overruled,    \* history: rejected pairs whose conflict an officer settled
  unsettled,    \* history: a verdict or a cascade came after the last assembly
  broken        \* history: a POST that rejects a match died halfway

tables   == <<matches, conflict, label, records, drift>>
bounds   == <<decisions, requests, crashes>>
history  == <<touched, overruled, unsettled, broken>>
vars == <<tables, waiting, lock, pc, snapshot, rejecting, bounds, history>>

Nothing == [decided |-> {}, confirmed |-> {}, rejected |-> {}, rows |-> {}]
Snapshot == [decided : SUBSET Pair, confirmed : SUBSET Pair,
             rejected : SUBSET Pair, rows : SUBSET Pair]
InTransaction == {"labels", "rewrite", "insert", "compose", "report"}
Chaining == {"chain detect", "chain assemble", "chain validate"}

TablesOK ==
  /\ matches \in SUBSET Pair
  /\ conflict \in [Pair -> ConflictStatus \cup {"none"}]
  /\ label \in [Pair -> {"none", "confirmed", "rejected"}]
  /\ records \in SUBSET [matches : SUBSET Pair, open : Nat]
  /\ drift \in SUBSET Pair

ProcessesOK ==
  /\ waiting \in SUBSET JobType
  /\ lock \in Worker \cup {NoWorker}
  /\ pc \in [Worker -> {"idle"} \cup InTransaction \cup Chaining]
  /\ snapshot \in Snapshot
  /\ rejecting \in [Pair -> {"no", "delete", "enqueue"}]

BoundsOK == decisions \in Nat /\ requests \in Nat /\ crashes \in Nat

HistoryOK ==
  /\ touched \in SUBSET Pair
  /\ overruled \in SUBSET Pair

FlagsOK == unsettled \in BOOLEAN /\ broken \in BOOLEAN

TypeOK == TablesOK /\ ProcessesOK /\ BoundsOK /\ HistoryOK /\ FlagsOK

Init ==
  /\ matches = {}
  /\ conflict = [p \in Pair |-> "none"]
  /\ label = [p \in Pair |-> "none"]
  /\ records = {}
  /\ drift = {}
  /\ waiting = {}
  /\ lock = NoWorker
  /\ pc = [w \in Worker |-> "idle"]
  /\ snapshot = Nothing
  /\ rejecting = [p \in Pair |-> "no"]
  /\ decisions = 0 /\ requests = 0 /\ crashes = 0
  /\ touched = {}
  /\ overruled = {}
  /\ unsettled = FALSE
  /\ broken = FALSE

-----------------------------------------------------------------------------
(* Matching and clustering. *)

(* Two pairs of the same two sources that share a feature. *)
Clash(p, q) ==
  /\ p # q /\ p \cap q # {}
  /\ {SourceOf[f] : f \in p} = {SourceOf[f] : f \in q}

OneToOne(S) == \A p, q \in S : ~Clash(p, q)

(* S is one-to-one and no other pair of C fits in. *)
Fills(S, C) == S \subseteq C /\ OneToOne(S) /\ \A q \in C \ S : ~OneToOne(S \cup {q})

(* Mutant: the groups of taken features are not looked at. *)
SelectionsUnpaired(C, locked) == {C}

(* select_one_to_one: what taking the candidates C greedily, the locked ones *)
(* first and then by score, can select.  The scores are not modelled (a new  *)
(* model changes all of them): every order is possible, and a set is the     *)
(* outcome of some order exactly when it fills C and its locked part fills   *)
(* the locked part of C.                                                     *)
Selections(C, locked) == {S \in SUBSET C : Fills(S, C) /\ Fills(S \cap locked, C \cap locked)}

(* The connected components of the graph whose edges are the matches M. *)
Closed(S, M) == \A p \in S, q \in M : p \cap q # {} => q \in S
Components(M) ==
  {S \in (SUBSET M) \ {{}} :
     Closed(S, M) /\ \A T \in (SUBSET S) \ {{}} : Closed(T, M) => T = S}

(* assemble_ward skips a cluster without a polygon. *)
Clusters(M) == {S \in Components(M) : (UNION S) \cap Polygonal # {}}

(* The conflicts that count as unresolved, of the matches M. *)
Open(M) == {p \in M : conflict[p] \notin {"none", "resolved"}}

-----------------------------------------------------------------------------
(* The workers.  A job leaves the queue when its transaction has the lock; *)
(* the transaction commits, and releases the lock, with its last step.     *)

Lock(w, job, next) ==
  /\ pc[w] = "idle"
  /\ lock = NoWorker
  /\ job \in waiting
  /\ waiting' = waiting \ {job}
  /\ lock' = w
  /\ pc' = [pc EXCEPT ![w] = next]

Commit(w, from, next) ==
  /\ pc[w] = from
  /\ lock' = NoWorker
  /\ pc' = [pc EXCEPT ![w] = next]
  /\ snapshot' = Nothing

(* match_ward: the matches whose conflict an officer has decided ... *)
ReadDecided(w) ==
  /\ Lock(w, "HARMONIZE_WARD", "labels")
  /\ snapshot' = [Nothing EXCEPT !.decided =
                    {p \in matches : conflict[p] \notin {"none", "pending"}}]
  /\ UNCHANGED <<tables, rejecting, bounds, history>>

(* ... the officers' labels ... *)
ReadLabels(w) ==
  /\ pc[w] = "labels"
  /\ pc' = [pc EXCEPT ![w] = "rewrite"]
  /\ snapshot' = [snapshot EXCEPT
                    !.confirmed = {p \in Pair : label[p] = "confirmed"},
                    !.rejected = {p \in Pair : label[p] = "rejected"}]
  /\ UNCHANGED <<tables, waiting, lock, rejecting, bounds, history>>

(* Deleting a match deletes its conflict; a POST that was about to delete it *)
(* by its id will find nothing, even if the pair is matched again.           *)
Replace(new) ==
  LET gone == matches \ new IN
  /\ matches' = new
  /\ conflict' = [p \in Pair |-> IF p \in gone THEN "none" ELSE conflict[p]]
  /\ rejecting' = [p \in Pair |-> IF p \in gone /\ rejecting[p] = "delete"
                                  THEN "enqueue" ELSE rejecting[p]]

(* Mutant: rejected pairs are candidates like others. *)
RewriteWithRejected(w) ==
  LET locked == snapshot.decided \cup snapshot.confirmed
  IN /\ Commit(w, "rewrite", "chain detect")
     /\ \E C \in SUBSET Pair :
          /\ locked \subseteq C
          /\ \E S \in Selections(C, locked) : Replace(S \cup (matches \cap locked))
     /\ UNCHANGED <<label, records, drift, waiting, bounds, history>>

(* ... and the rewrite: the candidates that are not rejected and, unless   *)
(* locked, that the model keeps; a selection of them; the other matches    *)
(* deleted unless locked; the selection inserted or updated.               *)
Rewrite(w) ==
  LET proposed == Pair \ snapshot.rejected
      locked == snapshot.decided \cup snapshot.confirmed
  IN /\ Commit(w, "rewrite", "chain detect")
     /\ \E C \in SUBSET proposed :
          /\ proposed \cap locked \subseteq C
          /\ \E S \in Selections(C, locked) : Replace(S \cup (matches \cap locked))
     /\ UNCHANGED <<label, records, drift, waiting, bounds, history>>

(* detect_conflicts: the matches without a conflict ... *)
ReadUnexamined(w) ==
  /\ Lock(w, "DETECT_CONFLICTS", "insert")
  /\ snapshot' = [Nothing EXCEPT !.rows = {p \in matches : conflict[p] = "none"}]
  /\ UNCHANGED <<tables, rejecting, bounds, history>>

(* ... and a conflict for each that disagrees ... *)
InsertConflicts(w) ==
  LET disagreeing == snapshot.rows \cap Disagreeing IN
  /\ disagreeing \subseteq matches
  /\ Commit(w, "insert", "chain assemble")
  /\ conflict' = [p \in Pair |-> IF p \in disagreeing THEN "pending" ELSE conflict[p]]
  /\ UNCHANGED <<matches, label, records, drift, waiting, rejecting, bounds, history>>

(* ... unless one of the matches is gone: the foreign key fails, and with it *)
(* the job, which comes back.                                                *)
ForeignKeyFails(w) ==
  /\ ~(snapshot.rows \cap Disagreeing \subseteq matches)
  /\ Commit(w, "insert", "idle")
  /\ waiting' = waiting \cup {"DETECT_CONFLICTS"}
  /\ UNCHANGED <<tables, rejecting, bounds, history>>

(* assemble_ward: the matches ... *)
ReadMatches(w) ==
  /\ Lock(w, "ASSEMBLE_WARD", "compose")
  /\ snapshot' = [Nothing EXCEPT !.rows = matches]
  /\ UNCHANGED <<tables, rejecting, bounds, history>>

(* Mutant: resolved conflicts count too. *)
ComposeCountingAll(w) ==
  /\ Commit(w, "compose", "chain validate")
  /\ records' = {[matches |-> S, open |-> Cardinality({p \in S : conflict[p] # "none"})] :
                   S \in Clusters(snapshot.rows)}
  /\ unsettled' = FALSE
  /\ UNCHANGED <<matches, conflict, label, drift, waiting, rejecting, bounds, touched, overruled, broken>>

(* ... and one record per cluster, with the number of its open conflicts. *)
Compose(w) ==
  /\ Commit(w, "compose", "chain validate")
  /\ records' = {[matches |-> S, open |-> Cardinality(Open(S))] : S \in Clusters(snapshot.rows)}
  /\ unsettled' = FALSE
  /\ UNCHANGED <<matches, conflict, label, drift, waiting, rejecting, bounds, touched, overruled, broken>>

(* validate_ward: the last job of the chain. *)
BeginValidation(w) ==
  /\ Lock(w, "VALIDATE_WARD", "report")
  /\ UNCHANGED <<tables, snapshot, rejecting, bounds, history>>

Report(w) ==
  /\ Commit(w, "report", "idle")
  /\ drift' = {p \in matches : conflict[p] \in {"pending", "needs_review"}}
  /\ UNCHANGED <<matches, conflict, label, records, waiting, rejecting, bounds, history>>

(* Mutant: a job type no worker has a handler for. *)
FollowsMisnamed == [from \in Chaining |->
  CASE from = "chain detect" -> "DETECT_CONFLICTS"
    [] from = "chain assemble" -> "ASSEMBLE_WARD"
    [] from = "chain validate" -> "VALIDATE"]

(* After the commit the job queues its successor. *)
Follows == [from \in Chaining |->
  CASE from = "chain detect" -> "DETECT_CONFLICTS"
    [] from = "chain assemble" -> "ASSEMBLE_WARD"
    [] from = "chain validate" -> "VALIDATE_WARD"]

Chain(w) ==
  /\ pc[w] \in Chaining
  /\ waiting' = waiting \cup {Follows[pc[w]]}
  /\ pc' = [pc EXCEPT ![w] = "idle"]
  /\ UNCHANGED <<tables, lock, snapshot, rejecting, bounds, history>>

(* The job a worker is at. *)
JobOf == [at \in InTransaction \cup Chaining |->
  CASE at \in {"labels", "rewrite", "chain detect"} -> "HARMONIZE_WARD"
    [] at \in {"insert", "chain assemble"} -> "DETECT_CONFLICTS"
    [] at \in {"compose", "chain validate"} -> "ASSEMBLE_WARD"
    [] at = "report" -> "VALIDATE_WARD"]

(* Mutant: the lock belongs to the session, not to the transaction. *)
CrashKeepingLock(w) ==
  /\ pc[w] # "idle"
  /\ crashes < MaxCrashes
  /\ crashes' = crashes + 1
  /\ waiting' = waiting \cup {JobOf[pc[w]]}
  /\ pc' = [pc EXCEPT ![w] = "idle"]
  /\ UNCHANGED <<tables, lock, snapshot, rejecting, decisions, requests, history>>

(* Mutant: the job was acknowledged before it was done. *)
CrashForgettingJob(w) ==
  /\ pc[w] # "idle"
  /\ crashes < MaxCrashes
  /\ crashes' = crashes + 1
  /\ pc' = [pc EXCEPT ![w] = "idle"]
  /\ IF lock = w THEN lock' = NoWorker /\ snapshot' = Nothing ELSE UNCHANGED <<lock, snapshot>>
  /\ UNCHANGED <<tables, waiting, rejecting, decisions, requests, history>>

(* A worker dies, or its job raises: the transaction in progress, if any, is *)
(* rolled back and the job is delivered again.                               *)
Crash(w) ==
  /\ pc[w] # "idle"
  /\ crashes < MaxCrashes
  /\ crashes' = crashes + 1
  /\ waiting' = waiting \cup {JobOf[pc[w]]}
  /\ pc' = [pc EXCEPT ![w] = "idle"]
  /\ IF lock = w THEN lock' = NoWorker /\ snapshot' = Nothing ELSE UNCHANGED <<lock, snapshot>>
  /\ UNCHANGED <<tables, rejecting, decisions, requests, history>>

-----------------------------------------------------------------------------
(* The officers, each statement of a request on its own. *)

Decide(p) ==
  /\ decisions < MaxDecisions
  /\ decisions' = decisions + 1
  /\ touched' = touched \cup {p}
  /\ UNCHANGED <<requests, crashes>>

Confirm(p) ==
  /\ p \in matches
  /\ Decide(p)
  /\ label' = [label EXCEPT ![p] = "confirmed"]
  /\ UNCHANGED <<matches, conflict, records, drift, waiting, lock, pc, snapshot,
                 rejecting, overruled, unsettled, broken>>

(* labelMatch, the label first, ... *)
Reject(p) ==
  /\ p \in matches
  /\ rejecting[p] = "no"
  /\ Decide(p)
  /\ label' = [label EXCEPT ![p] = "rejected"]
  /\ rejecting' = [rejecting EXCEPT ![p] = "delete"]
  /\ UNCHANGED <<matches, conflict, records, drift, waiting, lock, pc, snapshot,
                 overruled, unsettled, broken>>

(* Mutant: the ward is not matched again. *)
DeleteMatchOnly(p) ==
  /\ rejecting[p] = "delete"
  /\ matches' = matches \ {p}
  /\ conflict' = [conflict EXCEPT ![p] = "none"]
  /\ rejecting' = [rejecting EXCEPT ![p] = "no"]
  /\ unsettled' = TRUE
  /\ UNCHANGED <<label, records, drift, waiting, lock, pc, snapshot, bounds, touched, overruled, broken>>

(* ... then the match and, by cascade, its conflict, ... *)
DeleteMatch(p) ==
  /\ rejecting[p] = "delete"
  /\ Replace(matches \ {p})
  /\ unsettled' = TRUE
  /\ UNCHANGED <<label, records, drift, waiting, lock, pc, snapshot, bounds, touched, overruled, broken>>

(* ... then the job that matches the ward again. *)
Rematch(p) ==
  /\ rejecting[p] = "enqueue"
  /\ rejecting' = [rejecting EXCEPT ![p] = "no"]
  /\ waiting' = waiting \cup {"HARMONIZE_WARD"}
  /\ UNCHANGED <<tables, lock, pc, snapshot, bounds, history>>

(* Nothing undoes the statements of a request that dies between two. *)
Abandon(p) ==
  /\ rejecting[p] # "no"
  /\ crashes < MaxCrashes
  /\ crashes' = crashes + 1
  /\ rejecting' = [rejecting EXCEPT ![p] = "no"]
  /\ broken' = TRUE
  /\ UNCHANGED <<tables, waiting, lock, pc, snapshot, decisions, requests, touched, overruled, unsettled>>

(* ConflictsService.resolve: any status, also back to pending. *)
Resolve(p, verdict) ==
  /\ conflict[p] # "none"
  /\ Decide(p)
  /\ conflict' = [conflict EXCEPT ![p] = verdict]
  /\ overruled' = IF label[p] = "rejected" THEN overruled \cup {p} ELSE overruled
  /\ unsettled' = TRUE
  /\ UNCHANGED <<matches, label, records, drift, waiting, lock, pc, snapshot, rejecting, broken>>

(* An upload, a topology fix or an operator queues a job of the ward. *)
Request(job) ==
  /\ job \in {"HARMONIZE_WARD", "ASSEMBLE_WARD", "VALIDATE_WARD"} \ waiting
  /\ requests < MaxRequests
  /\ requests' = requests + 1
  /\ waiting' = waiting \cup {job}
  /\ UNCHANGED <<tables, lock, pc, snapshot, rejecting, decisions, crashes, history>>

-----------------------------------------------------------------------------
Step(w) ==
  \/ ReadDecided(w) \/ ReadLabels(w) \/ Rewrite(w)
  \/ ReadUnexamined(w) \/ InsertConflicts(w) \/ ForeignKeyFails(w)
  \/ ReadMatches(w) \/ Compose(w)
  \/ BeginValidation(w) \/ Report(w)
  \/ Chain(w)

Officers ==
  \E p \in Pair :
    \/ Confirm(p) \/ Reject(p) \/ DeleteMatch(p) \/ Rematch(p) \/ Abandon(p)
    \/ \E verdict \in Verdict : Resolve(p, verdict)

Next ==
  \/ \E w \in Worker : Step(w) \/ Crash(w)
  \/ Officers
  \/ \E job \in JobType : Request(job)

Spec == Init /\ [][Next]_vars

(* A worker that can go on does, and so does a request that was begun. *)
FairSpec ==
  /\ Spec
  /\ \A w \in Worker : WF_vars(Step(w))
  /\ \A p \in Pair : WF_vars(DeleteMatch(p)) /\ WF_vars(Rematch(p))

-----------------------------------------------------------------------------
(* No job of the ward is queued or running and no request is half done. *)
Quiet ==
  /\ waiting = {}
  /\ \A w \in Worker : pc[w] = "idle"
  /\ \A p \in Pair : rejecting[p] = "no"

(* A match is of two records of one source with one of another only where an *)
(* officer's decision keeps it.                                              *)
ClashesAreDecided ==
  \A p, q \in matches : Clash(p, q) => p \in touched \/ q \in touched

(* When the ward is quiet no match is rejected, unless an officer has settled *)
(* the conflict of the rejected pair, which locks it, ...                     *)
RejectedIsGone ==
  Quiet /\ ~broken => \A p \in matches : label[p] = "rejected" => p \in overruled

(* ... every match that disagrees has a conflict ... *)
ConflictsAreFound ==
  Quiet /\ ~broken => \A p \in matches \cap Disagreeing : conflict[p] # "none"

(* ... the golden record is that of the matches, ... *)
RecordsFollowMatches ==
  Quiet /\ ~broken => {r.matches : r \in records} = Clusters(matches)

(* ... and counts their open conflicts, if none was decided since. *)
CountsAreRight ==
  Quiet /\ ~broken /\ ~unsettled => \A r \in records : r.open = Cardinality(Open(r.matches))

(* The ward comes to rest: every job that is queued is done, with all that it *)
(* queues in turn, whatever the officers do and whichever worker dies.        *)
ComesToRest == []<>Quiet

(* What migration 0020 says of the labels: a confirmed pair is always kept  *)
(* and a rejected pair is never proposed again.                             *)
LabelsAreHonoured ==
  Quiet /\ ~broken => \A p \in Pair :
    /\ label[p] = "confirmed" => p \in matches
    /\ label[p] = "rejected" => p \notin matches
=============================================================================
