-------------------------- MODULE WardRecord_proofs --------------------------
(* Proofs about WardRecord, for every ward, any number of workers and any *)
(* number of decisions, requests and crashes.                             *)
EXTENDS WardRecord, FiniteSetTheorems, TLAPS

USE WardRecordAssumption DEF WardRecordAssumption

-----------------------------------------------------------------------------
(* Types. *)

(* A ward has finitely many candidates, so its conflicts can be counted. *)
LEMMA PairsAreFinite == IsFiniteSet(Pair)
<1>1. Pair \subseteq SUBSET Feature
  OBVIOUS
<1>2. IsFiniteSet(SUBSET Feature)
  BY FS_SUBSET
<1> QED BY <1>1, <1>2, FS_Subset

(* conflict_count is a natural number. *)
LEMMA OpenIsCounted ==
  ASSUME NEW S \in SUBSET Pair
  PROVE  Cardinality(Open(S)) \in Nat
<1>1. Open(S) \subseteq Pair
  BY DEF Open
<1> QED BY <1>1, PairsAreFinite, FS_Subset, FS_CardinalityType

(* A cluster is a set of candidates. *)
LEMMA ClusterType ==
  ASSUME NEW M \in SUBSET Pair
  PROVE  Clusters(M) \subseteq SUBSET Pair
BY DEF Clusters, Components

(* What a rewrite leaves: a one-to-one selection of pairs that are not *)
(* rejected, and the matches that are locked.                          *)
LEMMA Rewritten ==
  ASSUME TypeOK, NEW w \in Worker, Rewrite(w)
  PROVE  \E S \in SUBSET (Pair \ snapshot.rejected) :
           /\ OneToOne(S)
           /\ Replace(S \cup (matches \cap (snapshot.decided \cup snapshot.confirmed)))
BY DEF Rewrite, Selections, Fills

(* Rewriting the matches, with the cascade, keeps the types. *)
LEMMA ReplaceType ==
  ASSUME TypeOK, NEW new \in SUBSET Pair, Replace(new)
  PROVE  /\ matches' \in SUBSET Pair
         /\ conflict' \in [Pair -> ConflictStatus \cup {"none"}]
         /\ rejecting' \in [Pair -> {"no", "delete", "enqueue"}]
BY DEF Replace, TypeOK, TablesOK, ProcessesOK, ConflictStatus

(* Every step keeps the types. *)
LEMMA TypesStep ==
  ASSUME TypeOK, [Next]_vars
  PROVE  TypeOK'
<1>1. ASSUME NEW w \in Worker, ReadDecided(w)
      PROVE  TypeOK'
  <2>10. TablesOK'
    BY <1>1 DEF TypeOK, ReadDecided, Lock, TablesOK, tables, ConflictStatus
  <2>11. ProcessesOK'
    BY <1>1 DEF TypeOK, ReadDecided, Lock, ProcessesOK, InTransaction, Chaining, Nothing, Snapshot,
       JobType, TablesOK
  <2>12. BoundsOK'
    BY <1>1 DEF TypeOK, ReadDecided, Lock, BoundsOK, bounds
  <2>13. HistoryOK'
    BY <1>1 DEF TypeOK, ReadDecided, Lock, HistoryOK, history
  <2>14. FlagsOK'
    BY <1>1 DEF TypeOK, ReadDecided, Lock, FlagsOK, history
  <2> QED BY <2>10, <2>11, <2>12, <2>13, <2>14 DEF TypeOK
<1>2. ASSUME NEW w \in Worker, ReadLabels(w)
      PROVE  TypeOK'
  <2>10. TablesOK'
    BY <1>2 DEF TypeOK, ReadLabels, TablesOK, tables, ConflictStatus
  <2>11. ProcessesOK'
    BY <1>2 DEF TypeOK, ReadLabels, ProcessesOK, InTransaction, Chaining, Snapshot
  <2>12. BoundsOK'
    BY <1>2 DEF TypeOK, ReadLabels, BoundsOK, bounds
  <2>13. HistoryOK'
    BY <1>2 DEF TypeOK, ReadLabels, HistoryOK, history
  <2>14. FlagsOK'
    BY <1>2 DEF TypeOK, ReadLabels, FlagsOK, history
  <2> QED BY <2>10, <2>11, <2>12, <2>13, <2>14 DEF TypeOK
<1>3. ASSUME NEW w \in Worker, Rewrite(w)
      PROVE  TypeOK'
  <2>1. PICK S \in SUBSET (Pair \ snapshot.rejected) :
          Replace(S \cup (matches \cap (snapshot.decided \cup snapshot.confirmed)))
    BY <1>3, Rewritten
  <2>2. S \cup (matches \cap (snapshot.decided \cup snapshot.confirmed)) \in SUBSET Pair
    BY DEF TypeOK, TablesOK
  <2>3. /\ matches' \in SUBSET Pair
        /\ conflict' \in [Pair -> ConflictStatus \cup {"none"}]
        /\ rejecting' \in [Pair -> {"no", "delete", "enqueue"}]
    BY <2>1, <2>2, ReplaceType
  <2>10. TablesOK'
    BY <1>3, <2>3 DEF TypeOK, Rewrite, Commit, TablesOK, tables, ConflictStatus
  <2>11. ProcessesOK'
    BY <1>3, <2>3 DEF TypeOK, Rewrite, Commit, ProcessesOK, InTransaction, Chaining, Nothing,
       Snapshot, JobType
  <2>12. BoundsOK'
    BY <1>3, <2>3 DEF TypeOK, Rewrite, Commit, BoundsOK, bounds
  <2>13. HistoryOK'
    BY <1>3, <2>3 DEF TypeOK, Rewrite, Commit, HistoryOK, history
  <2>14. FlagsOK'
    BY <1>3, <2>3 DEF TypeOK, Rewrite, Commit, FlagsOK, history
  <2> QED BY <2>10, <2>11, <2>12, <2>13, <2>14 DEF TypeOK
<1>4. ASSUME NEW w \in Worker, ReadUnexamined(w)
      PROVE  TypeOK'
  <2>10. TablesOK'
    BY <1>4 DEF TypeOK, ReadUnexamined, Lock, TablesOK, tables, ConflictStatus
  <2>11. ProcessesOK'
    BY <1>4 DEF TypeOK, ReadUnexamined, Lock, ProcessesOK, InTransaction, Chaining, Nothing,
       Snapshot, JobType, TablesOK
  <2>12. BoundsOK'
    BY <1>4 DEF TypeOK, ReadUnexamined, Lock, BoundsOK, bounds
  <2>13. HistoryOK'
    BY <1>4 DEF TypeOK, ReadUnexamined, Lock, HistoryOK, history
  <2>14. FlagsOK'
    BY <1>4 DEF TypeOK, ReadUnexamined, Lock, FlagsOK, history
  <2> QED BY <2>10, <2>11, <2>12, <2>13, <2>14 DEF TypeOK
<1>5. ASSUME NEW w \in Worker, InsertConflicts(w)
      PROVE  TypeOK'
  <2>10. TablesOK'
    BY <1>5 DEF TypeOK, InsertConflicts, Commit, TablesOK, tables, ConflictStatus
  <2>11. ProcessesOK'
    BY <1>5 DEF TypeOK, InsertConflicts, Commit, ProcessesOK, InTransaction, Chaining, Nothing,
       Snapshot, JobType
  <2>12. BoundsOK'
    BY <1>5 DEF TypeOK, InsertConflicts, Commit, BoundsOK, bounds
  <2>13. HistoryOK'
    BY <1>5 DEF TypeOK, InsertConflicts, Commit, HistoryOK, history
  <2>14. FlagsOK'
    BY <1>5 DEF TypeOK, InsertConflicts, Commit, FlagsOK, history
  <2> QED BY <2>10, <2>11, <2>12, <2>13, <2>14 DEF TypeOK
<1>6. ASSUME NEW w \in Worker, ForeignKeyFails(w)
      PROVE  TypeOK'
  <2>10. TablesOK'
    BY <1>6 DEF TypeOK, ForeignKeyFails, Commit, TablesOK, tables, ConflictStatus
  <2>11. ProcessesOK'
    BY <1>6 DEF TypeOK, ForeignKeyFails, Commit, ProcessesOK, InTransaction, Chaining, Nothing,
       Snapshot, JobType
  <2>12. BoundsOK'
    BY <1>6 DEF TypeOK, ForeignKeyFails, Commit, BoundsOK, bounds
  <2>13. HistoryOK'
    BY <1>6 DEF TypeOK, ForeignKeyFails, Commit, HistoryOK, history
  <2>14. FlagsOK'
    BY <1>6 DEF TypeOK, ForeignKeyFails, Commit, FlagsOK, history
  <2> QED BY <2>10, <2>11, <2>12, <2>13, <2>14 DEF TypeOK
<1>7. ASSUME NEW w \in Worker, ReadMatches(w)
      PROVE  TypeOK'
  <2>10. TablesOK'
    BY <1>7 DEF TypeOK, ReadMatches, Lock, TablesOK, tables, ConflictStatus
  <2>11. ProcessesOK'
    BY <1>7 DEF TypeOK, ReadMatches, Lock, ProcessesOK, InTransaction, Chaining, Nothing, Snapshot,
       JobType, TablesOK
  <2>12. BoundsOK'
    BY <1>7 DEF TypeOK, ReadMatches, Lock, BoundsOK, bounds
  <2>13. HistoryOK'
    BY <1>7 DEF TypeOK, ReadMatches, Lock, HistoryOK, history
  <2>14. FlagsOK'
    BY <1>7 DEF TypeOK, ReadMatches, Lock, FlagsOK, history
  <2> QED BY <2>10, <2>11, <2>12, <2>13, <2>14 DEF TypeOK
<1>8. ASSUME NEW w \in Worker, Compose(w)
      PROVE  TypeOK'
  <2>1. snapshot.rows \in SUBSET Pair
    BY DEF TypeOK, ProcessesOK, Snapshot
  <2>2. \A S \in Clusters(snapshot.rows) :
          [matches |-> S, open |-> Cardinality(Open(S))] \in [matches : SUBSET Pair, open : Nat]
    BY <2>1, ClusterType, OpenIsCounted
  <2>3. records' \in SUBSET [matches : SUBSET Pair, open : Nat]
    BY <1>8, <2>2 DEF Compose
  <2>10. TablesOK'
    BY <1>8, <2>3 DEF TypeOK, Compose, TablesOK
  <2>11. ProcessesOK'
    BY <1>8 DEF TypeOK, Compose, Commit, ProcessesOK, InTransaction, Chaining, Nothing, Snapshot, JobType
  <2>12. BoundsOK'
    BY <1>8 DEF TypeOK, Compose, Commit, BoundsOK, bounds
  <2>13. HistoryOK'
    BY <1>8 DEF TypeOK, Compose, Commit, HistoryOK, history
  <2>14. FlagsOK'
    BY <1>8 DEF TypeOK, Compose, Commit, FlagsOK, history
  <2> QED BY <2>10, <2>11, <2>12, <2>13, <2>14 DEF TypeOK
<1>9. ASSUME NEW w \in Worker, BeginValidation(w)
      PROVE  TypeOK'
  <2>10. TablesOK'
    BY <1>9 DEF TypeOK, BeginValidation, Lock, TablesOK, tables, ConflictStatus
  <2>11. ProcessesOK'
    BY <1>9 DEF TypeOK, BeginValidation, Lock, ProcessesOK, InTransaction, Chaining, Nothing,
       Snapshot, JobType
  <2>12. BoundsOK'
    BY <1>9 DEF TypeOK, BeginValidation, Lock, BoundsOK, bounds
  <2>13. HistoryOK'
    BY <1>9 DEF TypeOK, BeginValidation, Lock, HistoryOK, history
  <2>14. FlagsOK'
    BY <1>9 DEF TypeOK, BeginValidation, Lock, FlagsOK, history
  <2> QED BY <2>10, <2>11, <2>12, <2>13, <2>14 DEF TypeOK
<1>10. ASSUME NEW w \in Worker, Report(w)
      PROVE  TypeOK'
  <2>10. TablesOK'
    BY <1>10 DEF TypeOK, Report, Commit, TablesOK, tables, ConflictStatus
  <2>11. ProcessesOK'
    BY <1>10 DEF TypeOK, Report, Commit, ProcessesOK, InTransaction, Chaining, Nothing, Snapshot, JobType
  <2>12. BoundsOK'
    BY <1>10 DEF TypeOK, Report, Commit, BoundsOK, bounds
  <2>13. HistoryOK'
    BY <1>10 DEF TypeOK, Report, Commit, HistoryOK, history
  <2>14. FlagsOK'
    BY <1>10 DEF TypeOK, Report, Commit, FlagsOK, history
  <2> QED BY <2>10, <2>11, <2>12, <2>13, <2>14 DEF TypeOK
<1>11. ASSUME NEW w \in Worker, Chain(w)
      PROVE  TypeOK'
  <2>10. TablesOK'
    BY <1>11 DEF TypeOK, Chain, TablesOK, tables, ConflictStatus
  <2>11. ProcessesOK'
    BY <1>11 DEF TypeOK, Chain, ProcessesOK, InTransaction, Chaining, Follows, JobType
  <2>12. BoundsOK'
    BY <1>11 DEF TypeOK, Chain, BoundsOK, bounds
  <2>13. HistoryOK'
    BY <1>11 DEF TypeOK, Chain, HistoryOK, history
  <2>14. FlagsOK'
    BY <1>11 DEF TypeOK, Chain, FlagsOK, history
  <2> QED BY <2>10, <2>11, <2>12, <2>13, <2>14 DEF TypeOK
<1>12. ASSUME NEW w \in Worker, Crash(w)
      PROVE  TypeOK'
  <2>1. JobOf[pc[w]] \in JobType
    BY <1>12 DEF TypeOK, ProcessesOK, Crash, JobOf, JobType, InTransaction, Chaining
  <2>2. snapshot' \in Snapshot /\ lock' \in Worker \cup {NoWorker}
    BY <1>12 DEF TypeOK, ProcessesOK, Crash, Nothing, Snapshot
  <2>10. TablesOK'
    BY <1>12, <2>1, <2>2 DEF TypeOK, Crash, TablesOK, tables, ConflictStatus
  <2>11. ProcessesOK'
    BY <1>12, <2>1, <2>2 DEF TypeOK, Crash, ProcessesOK, InTransaction, Chaining
  <2>12. BoundsOK'
    BY <1>12, <2>1, <2>2 DEF TypeOK, Crash, BoundsOK, bounds
  <2>13. HistoryOK'
    BY <1>12, <2>1, <2>2 DEF TypeOK, Crash, HistoryOK, history
  <2>14. FlagsOK'
    BY <1>12, <2>1, <2>2 DEF TypeOK, Crash, FlagsOK, history
  <2> QED BY <2>10, <2>11, <2>12, <2>13, <2>14 DEF TypeOK
<1>13. ASSUME NEW p \in Pair, Confirm(p)
      PROVE  TypeOK'
  <2>10. TablesOK'
    BY <1>13 DEF TypeOK, Confirm, Decide, TablesOK, tables, ConflictStatus
  <2>11. ProcessesOK'
    BY <1>13 DEF TypeOK, Confirm, Decide, ProcessesOK, InTransaction, Chaining
  <2>12. BoundsOK'
    BY <1>13 DEF TypeOK, Confirm, Decide, BoundsOK, bounds
  <2>13. HistoryOK'
    BY <1>13 DEF TypeOK, Confirm, Decide, HistoryOK, history
  <2>14. FlagsOK'
    BY <1>13 DEF TypeOK, Confirm, Decide, FlagsOK, history
  <2> QED BY <2>10, <2>11, <2>12, <2>13, <2>14 DEF TypeOK
<1>14. ASSUME NEW p \in Pair, Reject(p)
      PROVE  TypeOK'
  <2>10. TablesOK'
    BY <1>14 DEF TypeOK, Reject, Decide, TablesOK, tables, ConflictStatus
  <2>11. ProcessesOK'
    BY <1>14 DEF TypeOK, Reject, Decide, ProcessesOK, InTransaction, Chaining
  <2>12. BoundsOK'
    BY <1>14 DEF TypeOK, Reject, Decide, BoundsOK, bounds
  <2>13. HistoryOK'
    BY <1>14 DEF TypeOK, Reject, Decide, HistoryOK, history
  <2>14. FlagsOK'
    BY <1>14 DEF TypeOK, Reject, Decide, FlagsOK, history
  <2> QED BY <2>10, <2>11, <2>12, <2>13, <2>14 DEF TypeOK
<1>15. ASSUME NEW p \in Pair, DeleteMatch(p)
      PROVE  TypeOK'
  <2>3. /\ matches' \in SUBSET Pair
        /\ conflict' \in [Pair -> ConflictStatus \cup {"none"}]
        /\ rejecting' \in [Pair -> {"no", "delete", "enqueue"}]
    <3>1. matches \ {p} \in SUBSET Pair /\ Replace(matches \ {p})
      BY <1>15 DEF DeleteMatch, TypeOK, TablesOK
    <3> QED BY <3>1, ReplaceType
  <2>10. TablesOK'
    BY <1>15, <2>3 DEF TypeOK, DeleteMatch, TablesOK, tables, ConflictStatus
  <2>11. ProcessesOK'
    BY <1>15, <2>3 DEF TypeOK, DeleteMatch, ProcessesOK, InTransaction, Chaining
  <2>12. BoundsOK'
    BY <1>15, <2>3 DEF TypeOK, DeleteMatch, BoundsOK, bounds
  <2>13. HistoryOK'
    BY <1>15, <2>3 DEF TypeOK, DeleteMatch, HistoryOK, history
  <2>14. FlagsOK'
    BY <1>15, <2>3 DEF TypeOK, DeleteMatch, FlagsOK, history
  <2> QED BY <2>10, <2>11, <2>12, <2>13, <2>14 DEF TypeOK
<1>16. ASSUME NEW p \in Pair, Rematch(p)
      PROVE  TypeOK'
  <2>10. TablesOK'
    BY <1>16 DEF TypeOK, Rematch, TablesOK, tables, ConflictStatus
  <2>11. ProcessesOK'
    BY <1>16 DEF TypeOK, Rematch, ProcessesOK, InTransaction, Chaining, JobType
  <2>12. BoundsOK'
    BY <1>16 DEF TypeOK, Rematch, BoundsOK, bounds
  <2>13. HistoryOK'
    BY <1>16 DEF TypeOK, Rematch, HistoryOK, history
  <2>14. FlagsOK'
    BY <1>16 DEF TypeOK, Rematch, FlagsOK, history
  <2> QED BY <2>10, <2>11, <2>12, <2>13, <2>14 DEF TypeOK
<1>17. ASSUME NEW p \in Pair, Abandon(p)
      PROVE  TypeOK'
  <2>10. TablesOK'
    BY <1>17 DEF TypeOK, Abandon, TablesOK, tables, ConflictStatus
  <2>11. ProcessesOK'
    BY <1>17 DEF TypeOK, Abandon, ProcessesOK, InTransaction, Chaining
  <2>12. BoundsOK'
    BY <1>17 DEF TypeOK, Abandon, BoundsOK, bounds
  <2>13. HistoryOK'
    BY <1>17 DEF TypeOK, Abandon, HistoryOK, history
  <2>14. FlagsOK'
    BY <1>17 DEF TypeOK, Abandon, FlagsOK, history
  <2> QED BY <2>10, <2>11, <2>12, <2>13, <2>14 DEF TypeOK
<1>18. ASSUME NEW p \in Pair, NEW verdict \in Verdict, Resolve(p, verdict)
      PROVE  TypeOK'
  <2>10. TablesOK'
    BY <1>18 DEF TypeOK, Resolve, Decide, TablesOK, tables, ConflictStatus
  <2>11. ProcessesOK'
    BY <1>18 DEF TypeOK, Resolve, Decide, ProcessesOK, InTransaction, Chaining
  <2>12. BoundsOK'
    BY <1>18 DEF TypeOK, Resolve, Decide, BoundsOK, bounds
  <2>13. HistoryOK'
    BY <1>18 DEF TypeOK, Resolve, Decide, HistoryOK, history
  <2>14. FlagsOK'
    BY <1>18 DEF TypeOK, Resolve, Decide, FlagsOK, history
  <2> QED BY <2>10, <2>11, <2>12, <2>13, <2>14 DEF TypeOK
<1>19. ASSUME NEW job \in JobType, Request(job)
      PROVE  TypeOK'
  <2>10. TablesOK'
    BY <1>19 DEF TypeOK, Request, TablesOK, tables, ConflictStatus
  <2>11. ProcessesOK'
    BY <1>19 DEF TypeOK, Request, ProcessesOK, InTransaction, Chaining, JobType
  <2>12. BoundsOK'
    BY <1>19 DEF TypeOK, Request, BoundsOK, bounds
  <2>13. HistoryOK'
    BY <1>19 DEF TypeOK, Request, HistoryOK, history
  <2>14. FlagsOK'
    BY <1>19 DEF TypeOK, Request, FlagsOK, history
  <2> QED BY <2>10, <2>11, <2>12, <2>13, <2>14 DEF TypeOK
<1>20. CASE UNCHANGED vars
  BY <1>20 DEF vars, tables, bounds, history, TypeOK, TablesOK, ProcessesOK, BoundsOK, HistoryOK, FlagsOK
<1> QED
  BY <1>1, <1>2, <1>3, <1>4, <1>5, <1>6, <1>7, <1>8, <1>9, <1>10, <1>11, <1>12, <1>13, <1>14, <1>15,
     <1>16, <1>17, <1>18, <1>19, <1>20 DEF Next, Step, Officers

(* The empty ward is well-typed. *)
LEMMA TypesInitially == Init => TypeOK
<1>1. Init => TablesOK /\ ProcessesOK /\ BoundsOK
  BY DEF Init, TablesOK, ProcessesOK, BoundsOK, Nothing, Snapshot
<1>2. Init => HistoryOK
  BY DEF Init, HistoryOK
<1>3. Init => FlagsOK
  BY DEF Init, FlagsOK
<1> QED BY <1>1, <1>2, <1>3 DEF TypeOK

(* Every job of the chain and every request of an officer leaves the tables, *)
(* the workers and the bounds well-typed; a count is of a finite set.        *)
THEOREM TypeCorrect == Spec => []TypeOK
BY TypesInitially, TypesStep, PTL DEF Spec

-----------------------------------------------------------------------------
(* The invariants the properties of a quiet ward follow from. *)

(* A worker is in a transaction exactly while it holds the ward's lock, so  *)
(* there is one transaction at a time, and one snapshot.                    *)
OneTransaction == \A w \in Worker : pc[w] \in InTransaction <=> lock = w

(* The foreign key: only a match has a conflict. *)
ConflictsOfMatches == \A p \in Pair : conflict[p] # "none" => p \in matches

Decided(p) == conflict[p] \notin {"none", "pending"}

(* What is locked against the rewrite is what officers have decided. *)
DecisionsAreTouched ==
  /\ \A p \in Pair : Decided(p) \/ label[p] # "none" => p \in touched
  /\ snapshot.decided \cup snapshot.confirmed \subseteq touched

(* A job is queued, or a worker is on its way to queue it. *)
DueMatching == "HARMONIZE_WARD" \in waiting \/ \E p \in Pair : rejecting[p] # "no"
DueDetection ==
  \/ DueMatching
  \/ "DETECT_CONFLICTS" \in waiting
  \/ \E w \in Worker : pc[w] \in {"labels", "rewrite", "chain detect"}
DueAssembly ==
  \/ DueDetection
  \/ "ASSEMBLE_WARD" \in waiting
  \/ \E w \in Worker : pc[w] \in {"insert", "chain assemble"}

(* A rejected match that no verdict has settled since will be matched again, *)
(* or the transaction that does so will not keep it; ...                     *)
RejectionsArePending ==
  ~broken => \A p \in matches : label[p] = "rejected" /\ p \notin overruled =>
    \/ DueMatching
    \/ \E w \in Worker : pc[w] = "labels" /\ p \notin snapshot.decided
    \/ \E w \in Worker : /\ pc[w] = "rewrite"
                         /\ p \in snapshot.rejected
                         /\ p \notin snapshot.decided \cup snapshot.confirmed

(* ... a label the transaction has not read is of a rejection in progress, ... *)
LabelsAreRead ==
  ~broken => \A p \in Pair, w \in Worker : pc[w] = "rewrite" /\ label[p] = "rejected" =>
    p \in snapshot.rejected \/ DueMatching

(* ... and a conflict that was decided before its match was rejected goes *)
(* with the match.                                                        *)
VerdictsOverrule ==
  ~broken => \A p \in Pair : label[p] = "rejected" /\ Decided(p) /\ p \notin overruled =>
    rejecting[p] = "delete"

(* A match without its conflict will be examined, or is being examined. *)
ConflictsArePending ==
  ~broken => \A p \in matches \cap Disagreeing : conflict[p] = "none" =>
    DueDetection \/ \E w \in Worker : pc[w] = "insert" /\ p \in snapshot.rows

(* A golden record that is behind will be assembled, and the one that is    *)
(* being assembled is not behind when its transaction ends.                 *)
RecordsArePending ==
  ~broken =>
    \/ DueAssembly
    \/ \E w \in Worker : pc[w] = "compose" /\ snapshot.rows = matches
    \/ /\ \A w \in Worker : pc[w] # "compose"
       /\ {r.matches : r \in records} = Clusters(matches)

(* The counts of the golden record are right, or will be made so. *)
CountsMatch == \A r \in records : r.open = Cardinality(Open(r.matches))

CountsArePending ==
  ~broken /\ ~unsettled =>
    DueAssembly \/ (\E w \in Worker : pc[w] = "compose") \/ CountsMatch

-----------------------------------------------------------------------------

(* The advisory lock: every step keeps one transaction at a time. *)
LEMMA OneTransactionStep ==
  ASSUME TypeOK, OneTransaction, [Next]_vars
  PROVE  OneTransaction'
<1>1. ASSUME NEW w \in Worker, ReadDecided(w)
      PROVE  OneTransaction'
  BY <1>1 DEF ReadDecided, Lock, TypeOK, ProcessesOK, OneTransaction, InTransaction, Chaining
<1>2. ASSUME NEW w \in Worker, ReadLabels(w)
      PROVE  OneTransaction'
  BY <1>2 DEF ReadLabels, TypeOK, ProcessesOK, OneTransaction, InTransaction, Chaining
<1>3. ASSUME NEW w \in Worker, Rewrite(w)
      PROVE  OneTransaction'
  BY <1>3 DEF Rewrite, Commit, TypeOK, ProcessesOK, OneTransaction, InTransaction, Chaining
<1>4. ASSUME NEW w \in Worker, ReadUnexamined(w)
      PROVE  OneTransaction'
  BY <1>4 DEF ReadUnexamined, Lock, TypeOK, ProcessesOK, OneTransaction, InTransaction, Chaining
<1>5. ASSUME NEW w \in Worker, InsertConflicts(w)
      PROVE  OneTransaction'
  BY <1>5 DEF InsertConflicts, Commit, TypeOK, ProcessesOK, OneTransaction, InTransaction, Chaining
<1>6. ASSUME NEW w \in Worker, ForeignKeyFails(w)
      PROVE  OneTransaction'
  BY <1>6 DEF ForeignKeyFails, Commit, TypeOK, ProcessesOK, OneTransaction, InTransaction, Chaining
<1>7. ASSUME NEW w \in Worker, ReadMatches(w)
      PROVE  OneTransaction'
  BY <1>7 DEF ReadMatches, Lock, TypeOK, ProcessesOK, OneTransaction, InTransaction, Chaining
<1>8. ASSUME NEW w \in Worker, Compose(w)
      PROVE  OneTransaction'
  BY <1>8 DEF Compose, Commit, TypeOK, ProcessesOK, OneTransaction, InTransaction, Chaining
<1>9. ASSUME NEW w \in Worker, BeginValidation(w)
      PROVE  OneTransaction'
  BY <1>9 DEF BeginValidation, Lock, TypeOK, ProcessesOK, OneTransaction, InTransaction, Chaining
<1>10. ASSUME NEW w \in Worker, Report(w)
      PROVE  OneTransaction'
  BY <1>10 DEF Report, Commit, TypeOK, ProcessesOK, OneTransaction, InTransaction, Chaining
<1>11. ASSUME NEW w \in Worker, Chain(w)
      PROVE  OneTransaction'
  BY <1>11 DEF Chain, TypeOK, ProcessesOK, OneTransaction, InTransaction, Chaining
<1>12. ASSUME NEW w \in Worker, Crash(w)
      PROVE  OneTransaction'
  BY <1>12 DEF Crash, TypeOK, ProcessesOK, OneTransaction, InTransaction, Chaining
<1>13. ASSUME NEW p \in Pair, Confirm(p)
      PROVE  OneTransaction'
  BY <1>13 DEF Confirm, Decide, TypeOK, ProcessesOK, OneTransaction, InTransaction, Chaining
<1>14. ASSUME NEW p \in Pair, Reject(p)
      PROVE  OneTransaction'
  BY <1>14 DEF Reject, Decide, TypeOK, ProcessesOK, OneTransaction, InTransaction, Chaining
<1>15. ASSUME NEW p \in Pair, DeleteMatch(p)
      PROVE  OneTransaction'
  BY <1>15 DEF DeleteMatch, Replace, TypeOK, ProcessesOK, OneTransaction, InTransaction, Chaining
<1>16. ASSUME NEW p \in Pair, Rematch(p)
      PROVE  OneTransaction'
  BY <1>16 DEF Rematch, TypeOK, ProcessesOK, OneTransaction, InTransaction, Chaining
<1>17. ASSUME NEW p \in Pair, Abandon(p)
      PROVE  OneTransaction'
  BY <1>17 DEF Abandon, TypeOK, ProcessesOK, OneTransaction, InTransaction, Chaining
<1>18. ASSUME NEW p \in Pair, NEW verdict \in Verdict, Resolve(p, verdict)
      PROVE  OneTransaction'
  BY <1>18 DEF Resolve, Decide, TypeOK, ProcessesOK, OneTransaction, InTransaction, Chaining
<1>19. ASSUME NEW job \in JobType, Request(job)
      PROVE  OneTransaction'
  BY <1>19 DEF Request, TypeOK, ProcessesOK, OneTransaction, InTransaction, Chaining
<1>20. CASE UNCHANGED vars
  BY <1>20 DEF vars, tables, bounds, history, TypeOK, ProcessesOK, OneTransaction, InTransaction, Chaining
<1> QED
  BY <1>1, <1>2, <1>3, <1>4, <1>5, <1>6, <1>7, <1>8, <1>9, <1>10, <1>11, <1>12, <1>13, <1>14, <1>15,
     <1>16, <1>17, <1>18, <1>19, <1>20 DEF Next, Step, Officers

(* Deleting a match deletes its conflict, and a conflict is only inserted for a match. *)
LEMMA ForeignKeyStep ==
  ASSUME TypeOK, ConflictsOfMatches, [Next]_vars
  PROVE  ConflictsOfMatches'
<1>1. ASSUME NEW w \in Worker, ReadDecided(w)
      PROVE  ConflictsOfMatches'
  BY <1>1 DEF ReadDecided, Lock, TypeOK, TablesOK, ConflictsOfMatches, tables
<1>2. ASSUME NEW w \in Worker, ReadLabels(w)
      PROVE  ConflictsOfMatches'
  BY <1>2 DEF ReadLabels, TypeOK, TablesOK, ConflictsOfMatches, tables
<1>3. ASSUME NEW w \in Worker, Rewrite(w)
      PROVE  ConflictsOfMatches'
  <2> DEFINE locked == snapshot.decided \cup snapshot.confirmed
  <2>1. PICK S \in SUBSET (Pair \ snapshot.rejected) :
          OneToOne(S) /\ Replace(S \cup (matches \cap locked))
    BY <1>3, Rewritten
  <2>2. /\ UNCHANGED <<label, records, drift, waiting, bounds, history>>
        /\ lock' = NoWorker /\ snapshot' = Nothing
        /\ pc' = [pc EXCEPT ![w] = "chain detect"] /\ pc[w] = "rewrite"
    BY <1>3 DEF Rewrite, Commit
  <2> QED BY <2>1 DEF Replace, ConflictsOfMatches, TypeOK, TablesOK
<1>4. ASSUME NEW w \in Worker, ReadUnexamined(w)
      PROVE  ConflictsOfMatches'
  BY <1>4 DEF ReadUnexamined, Lock, TypeOK, TablesOK, ConflictsOfMatches, tables
<1>5. ASSUME NEW w \in Worker, InsertConflicts(w)
      PROVE  ConflictsOfMatches'
  BY <1>5 DEF InsertConflicts, Commit, TypeOK, TablesOK, ConflictsOfMatches, tables
<1>6. ASSUME NEW w \in Worker, ForeignKeyFails(w)
      PROVE  ConflictsOfMatches'
  BY <1>6 DEF ForeignKeyFails, Commit, TypeOK, TablesOK, ConflictsOfMatches, tables
<1>7. ASSUME NEW w \in Worker, ReadMatches(w)
      PROVE  ConflictsOfMatches'
  BY <1>7 DEF ReadMatches, Lock, TypeOK, TablesOK, ConflictsOfMatches, tables
<1>8. ASSUME NEW w \in Worker, Compose(w)
      PROVE  ConflictsOfMatches'
  BY <1>8 DEF Compose, Commit, TypeOK, TablesOK, ConflictsOfMatches, tables
<1>9. ASSUME NEW w \in Worker, BeginValidation(w)
      PROVE  ConflictsOfMatches'
  BY <1>9 DEF BeginValidation, Lock, TypeOK, TablesOK, ConflictsOfMatches, tables
<1>10. ASSUME NEW w \in Worker, Report(w)
      PROVE  ConflictsOfMatches'
  BY <1>10 DEF Report, Commit, TypeOK, TablesOK, ConflictsOfMatches, tables
<1>11. ASSUME NEW w \in Worker, Chain(w)
      PROVE  ConflictsOfMatches'
  BY <1>11 DEF Chain, TypeOK, TablesOK, ConflictsOfMatches, tables
<1>12. ASSUME NEW w \in Worker, Crash(w)
      PROVE  ConflictsOfMatches'
  BY <1>12 DEF Crash, TypeOK, TablesOK, ConflictsOfMatches, tables
<1>13. ASSUME NEW p \in Pair, Confirm(p)
      PROVE  ConflictsOfMatches'
  BY <1>13 DEF Confirm, Decide, TypeOK, TablesOK, ConflictsOfMatches, tables
<1>14. ASSUME NEW p \in Pair, Reject(p)
      PROVE  ConflictsOfMatches'
  BY <1>14 DEF Reject, Decide, TypeOK, TablesOK, ConflictsOfMatches, tables
<1>15. ASSUME NEW p \in Pair, DeleteMatch(p)
      PROVE  ConflictsOfMatches'
  BY <1>15 DEF DeleteMatch, Replace, TypeOK, TablesOK, ConflictsOfMatches, tables
<1>16. ASSUME NEW p \in Pair, Rematch(p)
      PROVE  ConflictsOfMatches'
  BY <1>16 DEF Rematch, TypeOK, TablesOK, ConflictsOfMatches, tables
<1>17. ASSUME NEW p \in Pair, Abandon(p)
      PROVE  ConflictsOfMatches'
  BY <1>17 DEF Abandon, TypeOK, TablesOK, ConflictsOfMatches, tables
<1>18. ASSUME NEW p \in Pair, NEW verdict \in Verdict, Resolve(p, verdict)
      PROVE  ConflictsOfMatches'
  BY <1>18 DEF Resolve, Decide, TypeOK, TablesOK, ConflictsOfMatches, tables
<1>19. ASSUME NEW job \in JobType, Request(job)
      PROVE  ConflictsOfMatches'
  BY <1>19 DEF Request, TypeOK, TablesOK, ConflictsOfMatches, tables
<1>20. CASE UNCHANGED vars
  BY <1>20 DEF vars, tables, bounds, history, TypeOK, TablesOK, ConflictsOfMatches, tables
<1> QED
  BY <1>1, <1>2, <1>3, <1>4, <1>5, <1>6, <1>7, <1>8, <1>9, <1>10, <1>11, <1>12, <1>13, <1>14, <1>15,
     <1>16, <1>17, <1>18, <1>19, <1>20 DEF Next, Step, Officers

(* Only officers label a match or decide a conflict, and the rewrite locks no more than that. *)
LEMMA TouchedStep ==
  ASSUME TypeOK, DecisionsAreTouched, [Next]_vars
  PROVE  DecisionsAreTouched'
<1>1. ASSUME NEW w \in Worker, ReadDecided(w)
      PROVE  DecisionsAreTouched'
  BY <1>1 DEF ReadDecided, Lock, TypeOK, TablesOK, ProcessesOK, HistoryOK, Snapshot, Nothing,
     DecisionsAreTouched, Decided, tables, history
<1>2. ASSUME NEW w \in Worker, ReadLabels(w)
      PROVE  DecisionsAreTouched'
  BY <1>2 DEF ReadLabels, TypeOK, TablesOK, ProcessesOK, HistoryOK, Snapshot, Nothing,
     DecisionsAreTouched, Decided, tables, history
<1>3. ASSUME NEW w \in Worker, Rewrite(w)
      PROVE  DecisionsAreTouched'
  <2> DEFINE locked == snapshot.decided \cup snapshot.confirmed
  <2>1. PICK S \in SUBSET (Pair \ snapshot.rejected) :
          OneToOne(S) /\ Replace(S \cup (matches \cap locked))
    BY <1>3, Rewritten
  <2>2. /\ UNCHANGED <<label, records, drift, waiting, bounds, history>>
        /\ lock' = NoWorker /\ snapshot' = Nothing
        /\ pc' = [pc EXCEPT ![w] = "chain detect"] /\ pc[w] = "rewrite"
    BY <1>3 DEF Rewrite, Commit
  <2> QED BY <2>1, <2>2 DEF Replace, DecisionsAreTouched, Decided, TypeOK, TablesOK, Nothing, history
<1>4. ASSUME NEW w \in Worker, ReadUnexamined(w)
      PROVE  DecisionsAreTouched'
  BY <1>4 DEF ReadUnexamined, Lock, TypeOK, TablesOK, ProcessesOK, HistoryOK, Snapshot, Nothing,
     DecisionsAreTouched, Decided, tables, history
<1>5. ASSUME NEW w \in Worker, InsertConflicts(w)
      PROVE  DecisionsAreTouched'
  BY <1>5 DEF InsertConflicts, Commit, TypeOK, TablesOK, ProcessesOK, HistoryOK, Snapshot, Nothing,
     DecisionsAreTouched, Decided, tables, history
<1>6. ASSUME NEW w \in Worker, ForeignKeyFails(w)
      PROVE  DecisionsAreTouched'
  BY <1>6 DEF ForeignKeyFails, Commit, TypeOK, TablesOK, ProcessesOK, HistoryOK, Snapshot, Nothing,
     DecisionsAreTouched, Decided, tables, history
<1>7. ASSUME NEW w \in Worker, ReadMatches(w)
      PROVE  DecisionsAreTouched'
  BY <1>7 DEF ReadMatches, Lock, TypeOK, TablesOK, ProcessesOK, HistoryOK, Snapshot, Nothing,
     DecisionsAreTouched, Decided, tables, history
<1>8. ASSUME NEW w \in Worker, Compose(w)
      PROVE  DecisionsAreTouched'
  BY <1>8 DEF Compose, Commit, TypeOK, TablesOK, ProcessesOK, HistoryOK, Snapshot, Nothing,
     DecisionsAreTouched, Decided, tables, history
<1>9. ASSUME NEW w \in Worker, BeginValidation(w)
      PROVE  DecisionsAreTouched'
  BY <1>9 DEF BeginValidation, Lock, TypeOK, TablesOK, ProcessesOK, HistoryOK, Snapshot, Nothing,
     DecisionsAreTouched, Decided, tables, history
<1>10. ASSUME NEW w \in Worker, Report(w)
      PROVE  DecisionsAreTouched'
  BY <1>10 DEF Report, Commit, TypeOK, TablesOK, ProcessesOK, HistoryOK, Snapshot, Nothing,
     DecisionsAreTouched, Decided, tables, history
<1>11. ASSUME NEW w \in Worker, Chain(w)
      PROVE  DecisionsAreTouched'
  BY <1>11 DEF Chain, TypeOK, TablesOK, ProcessesOK, HistoryOK, Snapshot, Nothing,
     DecisionsAreTouched, Decided, tables, history
<1>12. ASSUME NEW w \in Worker, Crash(w)
      PROVE  DecisionsAreTouched'
  BY <1>12 DEF Crash, TypeOK, TablesOK, ProcessesOK, HistoryOK, Snapshot, Nothing,
     DecisionsAreTouched, Decided, tables, history
<1>13. ASSUME NEW p \in Pair, Confirm(p)
      PROVE  DecisionsAreTouched'
  BY <1>13 DEF Confirm, Decide, TypeOK, TablesOK, ProcessesOK, HistoryOK, Snapshot, Nothing,
     DecisionsAreTouched, Decided, tables, history
<1>14. ASSUME NEW p \in Pair, Reject(p)
      PROVE  DecisionsAreTouched'
  BY <1>14 DEF Reject, Decide, TypeOK, TablesOK, ProcessesOK, HistoryOK, Snapshot, Nothing,
     DecisionsAreTouched, Decided, tables, history
<1>15. ASSUME NEW p \in Pair, DeleteMatch(p)
      PROVE  DecisionsAreTouched'
  BY <1>15 DEF DeleteMatch, Replace, TypeOK, TablesOK, ProcessesOK, HistoryOK, Snapshot, Nothing,
     DecisionsAreTouched, Decided, tables, history
<1>16. ASSUME NEW p \in Pair, Rematch(p)
      PROVE  DecisionsAreTouched'
  BY <1>16 DEF Rematch, TypeOK, TablesOK, ProcessesOK, HistoryOK, Snapshot, Nothing,
     DecisionsAreTouched, Decided, tables, history
<1>17. ASSUME NEW p \in Pair, Abandon(p)
      PROVE  DecisionsAreTouched'
  BY <1>17 DEF Abandon, TypeOK, TablesOK, ProcessesOK, HistoryOK, Snapshot, Nothing,
     DecisionsAreTouched, Decided, tables, history
<1>18. ASSUME NEW p \in Pair, NEW verdict \in Verdict, Resolve(p, verdict)
      PROVE  DecisionsAreTouched'
  BY <1>18 DEF Resolve, Decide, TypeOK, TablesOK, ProcessesOK, HistoryOK, Snapshot, Nothing,
     DecisionsAreTouched, Decided, tables, history
<1>19. ASSUME NEW job \in JobType, Request(job)
      PROVE  DecisionsAreTouched'
  BY <1>19 DEF Request, TypeOK, TablesOK, ProcessesOK, HistoryOK, Snapshot, Nothing,
     DecisionsAreTouched, Decided, tables, history
<1>20. CASE UNCHANGED vars
  BY <1>20 DEF vars, tables, bounds, history, TypeOK, TablesOK, ProcessesOK, HistoryOK, Snapshot,
     Nothing, DecisionsAreTouched, Decided
<1> QED
  BY <1>1, <1>2, <1>3, <1>4, <1>5, <1>6, <1>7, <1>8, <1>9, <1>10, <1>11, <1>12, <1>13, <1>14, <1>15,
     <1>16, <1>17, <1>18, <1>19, <1>20 DEF Next, Step,
     Officers

(* Beside a worker that holds the lock, or takes it, there is no transaction. *)
LEMMA Alone ==
  ASSUME TypeOK, OneTransaction, NEW w \in Worker, lock = NoWorker \/ lock = w \/ pc[w] \in InTransaction
  PROVE  \A v \in Worker \ {w} : pc[v] \notin InTransaction
BY DEF TypeOK, ProcessesOK, OneTransaction

(* What counts depends on the records and the conflicts alone. *)
LEMMA CountsStay ==
  ASSUME UNCHANGED <<records, conflict>>
  PROVE  CountsMatch' <=> CountsMatch
BY DEF CountsMatch, Open

(* A selection has no clash, so a clash needs a match that is locked. *)
LEMMA ClashesStep ==
  ASSUME TypeOK, DecisionsAreTouched, ClashesAreDecided, [Next]_vars
  PROVE  ClashesAreDecided'
<1>1. ASSUME NEW w \in Worker, ReadDecided(w)
      PROVE  ClashesAreDecided'
  BY <1>1 DEF ReadDecided, Lock, TypeOK, TablesOK, ClashesAreDecided, tables, history
<1>2. ASSUME NEW w \in Worker, ReadLabels(w)
      PROVE  ClashesAreDecided'
  BY <1>2 DEF ReadLabels, TypeOK, TablesOK, ClashesAreDecided, tables, history
<1>3. ASSUME NEW w \in Worker, Rewrite(w)
      PROVE  ClashesAreDecided'
  <2> DEFINE locked == snapshot.decided \cup snapshot.confirmed
  <2>1. PICK S \in SUBSET (Pair \ snapshot.rejected) :
          OneToOne(S) /\ Replace(S \cup (matches \cap locked))
    BY <1>3, Rewritten
  <2>2. /\ UNCHANGED <<label, records, drift, waiting, bounds, history>>
        /\ lock' = NoWorker /\ snapshot' = Nothing
        /\ pc' = [pc EXCEPT ![w] = "chain detect"] /\ pc[w] = "rewrite"
    BY <1>3 DEF Rewrite, Commit
  <2> QED BY <2>1, <2>2 DEF Replace, OneToOne, ClashesAreDecided, DecisionsAreTouched, TypeOK,
     TablesOK, history
<1>4. ASSUME NEW w \in Worker, ReadUnexamined(w)
      PROVE  ClashesAreDecided'
  BY <1>4 DEF ReadUnexamined, Lock, TypeOK, TablesOK, ClashesAreDecided, tables, history
<1>5. ASSUME NEW w \in Worker, InsertConflicts(w)
      PROVE  ClashesAreDecided'
  BY <1>5 DEF InsertConflicts, Commit, TypeOK, TablesOK, ClashesAreDecided, tables, history
<1>6. ASSUME NEW w \in Worker, ForeignKeyFails(w)
      PROVE  ClashesAreDecided'
  BY <1>6 DEF ForeignKeyFails, Commit, TypeOK, TablesOK, ClashesAreDecided, tables, history
<1>7. ASSUME NEW w \in Worker, ReadMatches(w)
      PROVE  ClashesAreDecided'
  BY <1>7 DEF ReadMatches, Lock, TypeOK, TablesOK, ClashesAreDecided, tables, history
<1>8. ASSUME NEW w \in Worker, Compose(w)
      PROVE  ClashesAreDecided'
  BY <1>8 DEF Compose, Commit, TypeOK, TablesOK, ClashesAreDecided, tables, history
<1>9. ASSUME NEW w \in Worker, BeginValidation(w)
      PROVE  ClashesAreDecided'
  BY <1>9 DEF BeginValidation, Lock, TypeOK, TablesOK, ClashesAreDecided, tables, history
<1>10. ASSUME NEW w \in Worker, Report(w)
      PROVE  ClashesAreDecided'
  BY <1>10 DEF Report, Commit, TypeOK, TablesOK, ClashesAreDecided, tables, history
<1>11. ASSUME NEW w \in Worker, Chain(w)
      PROVE  ClashesAreDecided'
  BY <1>11 DEF Chain, TypeOK, TablesOK, ClashesAreDecided, tables, history
<1>12. ASSUME NEW w \in Worker, Crash(w)
      PROVE  ClashesAreDecided'
  BY <1>12 DEF Crash, TypeOK, TablesOK, ClashesAreDecided, tables, history
<1>13. ASSUME NEW p \in Pair, Confirm(p)
      PROVE  ClashesAreDecided'
  BY <1>13 DEF Confirm, Decide, TypeOK, TablesOK, ClashesAreDecided, tables, history
<1>14. ASSUME NEW p \in Pair, Reject(p)
      PROVE  ClashesAreDecided'
  BY <1>14 DEF Reject, Decide, TypeOK, TablesOK, ClashesAreDecided, tables, history
<1>15. ASSUME NEW p \in Pair, DeleteMatch(p)
      PROVE  ClashesAreDecided'
  BY <1>15 DEF DeleteMatch, Replace, TypeOK, TablesOK, ClashesAreDecided, tables, history
<1>16. ASSUME NEW p \in Pair, Rematch(p)
      PROVE  ClashesAreDecided'
  BY <1>16 DEF Rematch, TypeOK, TablesOK, ClashesAreDecided, tables, history
<1>17. ASSUME NEW p \in Pair, Abandon(p)
      PROVE  ClashesAreDecided'
  BY <1>17 DEF Abandon, TypeOK, TablesOK, ClashesAreDecided, tables, history
<1>18. ASSUME NEW p \in Pair, NEW verdict \in Verdict, Resolve(p, verdict)
      PROVE  ClashesAreDecided'
  BY <1>18 DEF Resolve, Decide, TypeOK, TablesOK, ClashesAreDecided, tables, history
<1>19. ASSUME NEW job \in JobType, Request(job)
      PROVE  ClashesAreDecided'
  BY <1>19 DEF Request, TypeOK, TablesOK, ClashesAreDecided, tables, history
<1>20. CASE UNCHANGED vars
  BY <1>20 DEF vars, tables, bounds, history, TypeOK, TablesOK, ClashesAreDecided, tables, history
<1> QED
  BY <1>1, <1>2, <1>3, <1>4, <1>5, <1>6, <1>7, <1>8, <1>9, <1>10, <1>11, <1>12, <1>13, <1>14, <1>15,
     <1>16, <1>17, <1>18, <1>19, <1>20 DEF Next, Step, Officers

(* A rejection after the labels were read has a POST in progress or a job queued. *)
LEMMA LabelsStep ==
  ASSUME TypeOK, OneTransaction, LabelsAreRead, [Next]_vars
  PROVE  LabelsAreRead'
<1>1. ASSUME NEW w \in Worker, ReadDecided(w)
      PROVE  LabelsAreRead'
  <2>1. lock = NoWorker
    BY <1>1 DEF ReadDecided, Lock, InTransaction
  <2>2. \A v \in Worker \ {w} : pc[v] \notin InTransaction
    BY <2>1, Alone
  <2> QED BY <1>1, <2>2 DEF ReadDecided, Lock, TypeOK, TablesOK, ProcessesOK, InTransaction,
     Chaining, tables, history, LabelsAreRead, DueMatching, Snapshot
<1>2. ASSUME NEW w \in Worker, ReadLabels(w)
      PROVE  LabelsAreRead'
  BY <1>2 DEF ReadLabels, TypeOK, TablesOK, ProcessesOK, InTransaction, Chaining, tables, history,
     LabelsAreRead, DueMatching, Snapshot
<1>3. ASSUME NEW w \in Worker, Rewrite(w)
      PROVE  LabelsAreRead'
  <2>1. \A v \in Worker : pc'[v] # "rewrite"
    BY <1>3, Alone DEF Rewrite, Commit, TypeOK, ProcessesOK, InTransaction
  <2> QED BY <2>1 DEF LabelsAreRead
<1>4. ASSUME NEW w \in Worker, ReadUnexamined(w)
      PROVE  LabelsAreRead'
  <2>1. lock = NoWorker
    BY <1>4 DEF ReadUnexamined, Lock, InTransaction
  <2>2. \A v \in Worker \ {w} : pc[v] \notin InTransaction
    BY <2>1, Alone
  <2> QED BY <1>4, <2>2 DEF ReadUnexamined, Lock, TypeOK, TablesOK, ProcessesOK, InTransaction,
     Chaining, tables, history, LabelsAreRead, DueMatching, Snapshot
<1>5. ASSUME NEW w \in Worker, InsertConflicts(w)
      PROVE  LabelsAreRead'
  <2>1. pc[w] \in InTransaction
    BY <1>5 DEF InsertConflicts, Commit, InTransaction
  <2>2. \A v \in Worker \ {w} : pc[v] \notin InTransaction
    BY <2>1, Alone
  <2> QED BY <1>5, <2>2 DEF InsertConflicts, Commit, TypeOK, TablesOK, ProcessesOK, InTransaction,
     Chaining, tables, history, LabelsAreRead, DueMatching, Snapshot
<1>6. ASSUME NEW w \in Worker, ForeignKeyFails(w)
      PROVE  LabelsAreRead'
  <2>1. pc[w] \in InTransaction
    BY <1>6 DEF ForeignKeyFails, Commit, InTransaction
  <2>2. \A v \in Worker \ {w} : pc[v] \notin InTransaction
    BY <2>1, Alone
  <2> QED BY <1>6, <2>2 DEF ForeignKeyFails, Commit, TypeOK, TablesOK, ProcessesOK, InTransaction,
     Chaining, tables, history, LabelsAreRead, DueMatching, Snapshot
<1>7. ASSUME NEW w \in Worker, ReadMatches(w)
      PROVE  LabelsAreRead'
  <2>1. lock = NoWorker
    BY <1>7 DEF ReadMatches, Lock, InTransaction
  <2>2. \A v \in Worker \ {w} : pc[v] \notin InTransaction
    BY <2>1, Alone
  <2> QED BY <1>7, <2>2 DEF ReadMatches, Lock, TypeOK, TablesOK, ProcessesOK, InTransaction,
     Chaining, tables, history, LabelsAreRead, DueMatching, Snapshot
<1>8. ASSUME NEW w \in Worker, Compose(w)
      PROVE  LabelsAreRead'
  <2>1. pc[w] \in InTransaction
    BY <1>8 DEF Compose, Commit, InTransaction
  <2>2. \A v \in Worker \ {w} : pc[v] \notin InTransaction
    BY <2>1, Alone
  <2> QED BY <1>8, <2>2 DEF Compose, Commit, TypeOK, TablesOK, ProcessesOK, InTransaction, Chaining,
     tables, history, LabelsAreRead, DueMatching, Snapshot
<1>9. ASSUME NEW w \in Worker, BeginValidation(w)
      PROVE  LabelsAreRead'
  <2>1. lock = NoWorker
    BY <1>9 DEF BeginValidation, Lock, InTransaction
  <2>2. \A v \in Worker \ {w} : pc[v] \notin InTransaction
    BY <2>1, Alone
  <2> QED BY <1>9, <2>2 DEF BeginValidation, Lock, TypeOK, TablesOK, ProcessesOK, InTransaction,
     Chaining, tables, history, LabelsAreRead, DueMatching, Snapshot
<1>10. ASSUME NEW w \in Worker, Report(w)
      PROVE  LabelsAreRead'
  <2>1. pc[w] \in InTransaction
    BY <1>10 DEF Report, Commit, InTransaction
  <2>2. \A v \in Worker \ {w} : pc[v] \notin InTransaction
    BY <2>1, Alone
  <2> QED BY <1>10, <2>2 DEF Report, Commit, TypeOK, TablesOK, ProcessesOK, InTransaction, Chaining,
     tables, history, LabelsAreRead, DueMatching, Snapshot
<1>11. ASSUME NEW w \in Worker, Chain(w)
      PROVE  LabelsAreRead'
  BY <1>11 DEF Chain, TypeOK, TablesOK, ProcessesOK, InTransaction, Chaining, tables, history,
     LabelsAreRead, DueMatching, Snapshot
<1>12. ASSUME NEW w \in Worker, Crash(w)
      PROVE  LabelsAreRead'
  <2>1. \A v \in Worker : pc'[v] = "rewrite" => pc[v] = "rewrite" /\ snapshot' = snapshot
    BY <1>12 DEF Crash, TypeOK, ProcessesOK, OneTransaction, InTransaction
  <2> QED BY <1>12, <2>1 DEF Crash, LabelsAreRead, DueMatching, tables, history, TypeOK, ProcessesOK
<1>13. ASSUME NEW p \in Pair, Confirm(p)
      PROVE  LabelsAreRead'
  BY <1>13 DEF Confirm, Decide, TypeOK, TablesOK, ProcessesOK, InTransaction, Chaining, tables,
     history, LabelsAreRead, DueMatching, Snapshot
<1>14. ASSUME NEW p \in Pair, Reject(p)
      PROVE  LabelsAreRead'
  BY <1>14 DEF Reject, Decide, TypeOK, TablesOK, ProcessesOK, InTransaction, Chaining, tables,
     history, LabelsAreRead, DueMatching, Snapshot
<1>15. ASSUME NEW p \in Pair, DeleteMatch(p)
      PROVE  LabelsAreRead'
  BY <1>15 DEF DeleteMatch, Replace, TypeOK, TablesOK, ProcessesOK, InTransaction, Chaining, tables,
     history, LabelsAreRead, DueMatching, Snapshot
<1>16. ASSUME NEW p \in Pair, Rematch(p)
      PROVE  LabelsAreRead'
  BY <1>16 DEF Rematch, TypeOK, TablesOK, ProcessesOK, InTransaction, Chaining, tables, history,
     LabelsAreRead, DueMatching, Snapshot
<1>17. ASSUME NEW p \in Pair, Abandon(p)
      PROVE  LabelsAreRead'
  BY <1>17 DEF Abandon, TypeOK, TablesOK, ProcessesOK, InTransaction, Chaining, tables, history,
     LabelsAreRead, DueMatching, Snapshot
<1>18. ASSUME NEW p \in Pair, NEW verdict \in Verdict, Resolve(p, verdict)
      PROVE  LabelsAreRead'
  BY <1>18 DEF Resolve, Decide, TypeOK, TablesOK, ProcessesOK, InTransaction, Chaining, tables,
     history, LabelsAreRead, DueMatching, Snapshot
<1>19. ASSUME NEW job \in JobType, Request(job)
      PROVE  LabelsAreRead'
  BY <1>19 DEF Request, TypeOK, TablesOK, ProcessesOK, InTransaction, Chaining, tables, history,
     LabelsAreRead, DueMatching, Snapshot
<1>20. CASE UNCHANGED vars
  BY <1>20 DEF vars, tables, bounds, history, TypeOK, TablesOK, ProcessesOK, InTransaction,
     Chaining, LabelsAreRead, DueMatching, Snapshot
<1> QED
  BY <1>1, <1>2, <1>3, <1>4, <1>5, <1>6, <1>7, <1>8, <1>9, <1>10, <1>11, <1>12, <1>13, <1>14, <1>15,
     <1>16, <1>17, <1>18, <1>19, <1>20 DEF Next, Step, Officers

(* A verdict on a rejected pair is an overruling, or goes with the match. *)
LEMMA VerdictsStep ==
  ASSUME TypeOK, ConflictsOfMatches, VerdictsOverrule, [Next]_vars
  PROVE  VerdictsOverrule'
<1>1. ASSUME NEW w \in Worker, ReadDecided(w)
      PROVE  VerdictsOverrule'
  BY <1>1 DEF ReadDecided, Lock, TypeOK, TablesOK, ProcessesOK, VerdictsOverrule, Decided, tables, history
<1>2. ASSUME NEW w \in Worker, ReadLabels(w)
      PROVE  VerdictsOverrule'
  BY <1>2 DEF ReadLabels, TypeOK, TablesOK, ProcessesOK, VerdictsOverrule, Decided, tables, history
<1>3. ASSUME NEW w \in Worker, Rewrite(w)
      PROVE  VerdictsOverrule'
  <2> DEFINE locked == snapshot.decided \cup snapshot.confirmed
  <2>1. PICK S \in SUBSET (Pair \ snapshot.rejected) :
          OneToOne(S) /\ Replace(S \cup (matches \cap locked))
    BY <1>3, Rewritten
  <2>2. /\ UNCHANGED <<label, records, drift, waiting, bounds, history>>
        /\ lock' = NoWorker /\ snapshot' = Nothing
        /\ pc' = [pc EXCEPT ![w] = "chain detect"] /\ pc[w] = "rewrite"
    BY <1>3 DEF Rewrite, Commit
  <2> QED BY <2>1, <2>2 DEF Replace, VerdictsOverrule, Decided, TypeOK, TablesOK, ProcessesOK, history
<1>4. ASSUME NEW w \in Worker, ReadUnexamined(w)
      PROVE  VerdictsOverrule'
  BY <1>4 DEF ReadUnexamined, Lock, TypeOK, TablesOK, ProcessesOK, VerdictsOverrule, Decided, tables, history
<1>5. ASSUME NEW w \in Worker, InsertConflicts(w)
      PROVE  VerdictsOverrule'
  BY <1>5 DEF InsertConflicts, Commit, TypeOK, TablesOK, ProcessesOK, VerdictsOverrule, Decided,
     tables, history
<1>6. ASSUME NEW w \in Worker, ForeignKeyFails(w)
      PROVE  VerdictsOverrule'
  BY <1>6 DEF ForeignKeyFails, Commit, TypeOK, TablesOK, ProcessesOK, VerdictsOverrule, Decided,
     tables, history
<1>7. ASSUME NEW w \in Worker, ReadMatches(w)
      PROVE  VerdictsOverrule'
  BY <1>7 DEF ReadMatches, Lock, TypeOK, TablesOK, ProcessesOK, VerdictsOverrule, Decided, tables, history
<1>8. ASSUME NEW w \in Worker, Compose(w)
      PROVE  VerdictsOverrule'
  BY <1>8 DEF Compose, Commit, TypeOK, TablesOK, ProcessesOK, VerdictsOverrule, Decided, tables, history
<1>9. ASSUME NEW w \in Worker, BeginValidation(w)
      PROVE  VerdictsOverrule'
  BY <1>9 DEF BeginValidation, Lock, TypeOK, TablesOK, ProcessesOK, VerdictsOverrule, Decided, tables, history
<1>10. ASSUME NEW w \in Worker, Report(w)
      PROVE  VerdictsOverrule'
  BY <1>10 DEF Report, Commit, TypeOK, TablesOK, ProcessesOK, VerdictsOverrule, Decided, tables, history
<1>11. ASSUME NEW w \in Worker, Chain(w)
      PROVE  VerdictsOverrule'
  BY <1>11 DEF Chain, TypeOK, TablesOK, ProcessesOK, VerdictsOverrule, Decided, tables, history
<1>12. ASSUME NEW w \in Worker, Crash(w)
      PROVE  VerdictsOverrule'
  BY <1>12 DEF Crash, TypeOK, TablesOK, ProcessesOK, VerdictsOverrule, Decided, tables, history
<1>13. ASSUME NEW p \in Pair, Confirm(p)
      PROVE  VerdictsOverrule'
  BY <1>13 DEF Confirm, Decide, TypeOK, TablesOK, ProcessesOK, VerdictsOverrule, Decided, tables, history
<1>14. ASSUME NEW p \in Pair, Reject(p)
      PROVE  VerdictsOverrule'
  BY <1>14 DEF Reject, Decide, TypeOK, TablesOK, ProcessesOK, VerdictsOverrule, Decided, tables, history
<1>15. ASSUME NEW p \in Pair, DeleteMatch(p)
      PROVE  VerdictsOverrule'
  BY <1>15 DEF DeleteMatch, Replace, ConflictsOfMatches, VerdictsOverrule, Decided, TypeOK,
     TablesOK, ProcessesOK
<1>16. ASSUME NEW p \in Pair, Rematch(p)
      PROVE  VerdictsOverrule'
  BY <1>16 DEF Rematch, TypeOK, TablesOK, ProcessesOK, VerdictsOverrule, Decided, tables, history
<1>17. ASSUME NEW p \in Pair, Abandon(p)
      PROVE  VerdictsOverrule'
  BY <1>17 DEF Abandon, TypeOK, TablesOK, ProcessesOK, VerdictsOverrule, Decided, tables, history
<1>18. ASSUME NEW p \in Pair, NEW verdict \in Verdict, Resolve(p, verdict)
      PROVE  VerdictsOverrule'
  BY <1>18 DEF Resolve, Decide, TypeOK, TablesOK, ProcessesOK, VerdictsOverrule, Decided, tables, history
<1>19. ASSUME NEW job \in JobType, Request(job)
      PROVE  VerdictsOverrule'
  BY <1>19 DEF Request, TypeOK, TablesOK, ProcessesOK, VerdictsOverrule, Decided, tables, history
<1>20. CASE UNCHANGED vars
  BY <1>20 DEF vars, tables, bounds, history, TypeOK, TablesOK, ProcessesOK, VerdictsOverrule,
     Decided
<1> QED
  BY <1>1, <1>2, <1>3, <1>4, <1>5, <1>6, <1>7, <1>8, <1>9, <1>10, <1>11, <1>12, <1>13, <1>14, <1>15,
     <1>16, <1>17, <1>18, <1>19, <1>20 DEF Next, Step, Officers

(* A rejected match stays on its way out. *)
LEMMA RejectionsStep ==
  ASSUME TypeOK, OneTransaction, LabelsAreRead, VerdictsOverrule, RejectionsArePending, [Next]_vars
  PROVE  RejectionsArePending'
<1>1. ASSUME NEW w \in Worker, ReadDecided(w)
      PROVE  RejectionsArePending'
  <2>1. \A p \in matches : label[p] = "rejected" /\ p \notin overruled /\ ~broken =>
          DueMatching' \/ p \notin snapshot.decided'
    BY <1>1 DEF ReadDecided, VerdictsOverrule, Decided, DueMatching, Nothing, TypeOK, TablesOK
  <2>2. pc'[w] = "labels" /\ UNCHANGED <<matches, label, overruled, broken>>
    BY <1>1 DEF ReadDecided, Lock, tables, history, TypeOK, ProcessesOK
  <2> QED BY <2>1, <2>2 DEF RejectionsArePending
<1>2. ASSUME NEW w \in Worker, ReadLabels(w)
      PROVE  RejectionsArePending'
  <2>1. UNCHANGED <<matches, label, overruled, broken, waiting, rejecting>>
    BY <1>2 DEF ReadLabels, tables, history
  <2>2. /\ pc[w] = "labels" /\ pc'[w] = "rewrite"
        /\ \A v \in Worker \ {w} : pc[v] \notin InTransaction
        /\ \A v \in Worker \ {w} : pc'[v] = pc[v]
    BY <1>2, Alone DEF ReadLabels, InTransaction, TypeOK, ProcessesOK
  <2>3. /\ snapshot'.decided = snapshot.decided
        /\ snapshot'.rejected = {p \in Pair : label[p] = "rejected"}
        /\ snapshot'.confirmed = {p \in Pair : label[p] = "confirmed"}
    BY <1>2 DEF ReadLabels, TypeOK, ProcessesOK, Snapshot
  <2>4. ASSUME ~broken, NEW p \in matches, label[p] = "rejected", p \notin overruled
        PROVE  \/ DueMatching
               \/ /\ p \in snapshot'.rejected
                  /\ p \notin snapshot'.decided \cup snapshot'.confirmed
    <3>1. DueMatching \/ p \notin snapshot.decided
      BY <2>4 DEF RejectionsArePending
    <3>2. p \in Pair
      BY DEF TypeOK, TablesOK
    <3> QED BY <2>3, <2>4, <3>1, <3>2
  <2> QED BY <2>1, <2>2, <2>4 DEF RejectionsArePending, DueMatching
<1>3. ASSUME NEW w \in Worker, Rewrite(w)
      PROVE  RejectionsArePending'
  <2> DEFINE locked == snapshot.decided \cup snapshot.confirmed
  <2>1. PICK S \in SUBSET (Pair \ snapshot.rejected) :
          OneToOne(S) /\ Replace(S \cup (matches \cap locked))
    BY <1>3, Rewritten
  <2>2. /\ UNCHANGED <<label, records, drift, waiting, bounds, history>>
        /\ lock' = NoWorker /\ snapshot' = Nothing
        /\ pc' = [pc EXCEPT ![w] = "chain detect"] /\ pc[w] = "rewrite"
    BY <1>3 DEF Rewrite, Commit
  <2>3. /\ \A v \in Worker \ {w} : pc[v] \notin InTransaction
        /\ matches' = S \cup (matches \cap locked)
        /\ DueMatching => DueMatching'
    BY <1>3, <2>1, <2>2, Alone DEF Replace, DueMatching, InTransaction, TypeOK, TablesOK, ProcessesOK
  <2>4. ASSUME ~broken, NEW p \in matches', label[p] = "rejected", p \notin overruled
        PROVE  DueMatching
    <3>1. CASE p \in S
      BY <2>2, <2>4, <3>1 DEF LabelsAreRead
    <3>2. CASE p \in matches \cap locked
      BY <2>2, <2>3, <2>4, <3>2 DEF RejectionsArePending, InTransaction
    <3> QED BY <2>3, <3>1, <3>2
  <2> QED BY <2>2, <2>3, <2>4 DEF RejectionsArePending, history
<1>4. ASSUME NEW w \in Worker, ReadUnexamined(w)
      PROVE  RejectionsArePending'
  <2>1. lock = NoWorker
    BY <1>4 DEF ReadUnexamined, Lock, InTransaction
  <2>2. \A v \in Worker \ {w} : pc[v] \notin InTransaction
    BY <2>1, Alone
  <2> QED BY <1>4, <2>2 DEF ReadUnexamined, Lock, TypeOK, TablesOK, ProcessesOK, InTransaction,
     Chaining, tables, history, RejectionsArePending, DueMatching, Snapshot
<1>5. ASSUME NEW w \in Worker, InsertConflicts(w)
      PROVE  RejectionsArePending'
  <2>1. pc[w] \in InTransaction
    BY <1>5 DEF InsertConflicts, Commit, InTransaction
  <2>2. \A v \in Worker \ {w} : pc[v] \notin InTransaction
    BY <2>1, Alone
  <2> QED BY <1>5, <2>2 DEF InsertConflicts, Commit, TypeOK, TablesOK, ProcessesOK, InTransaction,
     Chaining, tables, history, RejectionsArePending, DueMatching, Snapshot
<1>6. ASSUME NEW w \in Worker, ForeignKeyFails(w)
      PROVE  RejectionsArePending'
  <2>1. pc[w] \in InTransaction
    BY <1>6 DEF ForeignKeyFails, Commit, InTransaction
  <2>2. \A v \in Worker \ {w} : pc[v] \notin InTransaction
    BY <2>1, Alone
  <2> QED BY <1>6, <2>2 DEF ForeignKeyFails, Commit, TypeOK, TablesOK, ProcessesOK, InTransaction,
     Chaining, tables, history, RejectionsArePending, DueMatching, Snapshot
<1>7. ASSUME NEW w \in Worker, ReadMatches(w)
      PROVE  RejectionsArePending'
  <2>1. lock = NoWorker
    BY <1>7 DEF ReadMatches, Lock, InTransaction
  <2>2. \A v \in Worker \ {w} : pc[v] \notin InTransaction
    BY <2>1, Alone
  <2> QED BY <1>7, <2>2 DEF ReadMatches, Lock, TypeOK, TablesOK, ProcessesOK, InTransaction,
     Chaining, tables, history, RejectionsArePending, DueMatching, Snapshot
<1>8. ASSUME NEW w \in Worker, Compose(w)
      PROVE  RejectionsArePending'
  <2>1. pc[w] \in InTransaction
    BY <1>8 DEF Compose, Commit, InTransaction
  <2>2. \A v \in Worker \ {w} : pc[v] \notin InTransaction
    BY <2>1, Alone
  <2> QED BY <1>8, <2>2 DEF Compose, Commit, TypeOK, TablesOK, ProcessesOK, InTransaction, Chaining,
     tables, history, RejectionsArePending, DueMatching, Snapshot
<1>9. ASSUME NEW w \in Worker, BeginValidation(w)
      PROVE  RejectionsArePending'
  <2>1. lock = NoWorker
    BY <1>9 DEF BeginValidation, Lock, InTransaction
  <2>2. \A v \in Worker \ {w} : pc[v] \notin InTransaction
    BY <2>1, Alone
  <2> QED BY <1>9, <2>2 DEF BeginValidation, Lock, TypeOK, TablesOK, ProcessesOK, InTransaction,
     Chaining, tables, history, RejectionsArePending, DueMatching, Snapshot
<1>10. ASSUME NEW w \in Worker, Report(w)
      PROVE  RejectionsArePending'
  <2>1. pc[w] \in InTransaction
    BY <1>10 DEF Report, Commit, InTransaction
  <2>2. \A v \in Worker \ {w} : pc[v] \notin InTransaction
    BY <2>1, Alone
  <2> QED BY <1>10, <2>2 DEF Report, Commit, TypeOK, TablesOK, ProcessesOK, InTransaction, Chaining,
     tables, history, RejectionsArePending, DueMatching, Snapshot
<1>11. ASSUME NEW w \in Worker, Chain(w)
      PROVE  RejectionsArePending'
  BY <1>11 DEF Chain, TypeOK, TablesOK, ProcessesOK, InTransaction, Chaining, tables, history,
     RejectionsArePending, DueMatching, Snapshot
<1>12. ASSUME NEW w \in Worker, Crash(w)
      PROVE  RejectionsArePending'
  <2>1. pc[w] \in {"labels", "rewrite"} => "HARMONIZE_WARD" \in waiting'
    BY <1>12 DEF Crash, JobOf, InTransaction, Chaining
  <2>2. pc[w] \notin {"labels", "rewrite"} =>
          \A v \in Worker : pc[v] \in {"labels", "rewrite"} => pc'[v] = pc[v] /\ snapshot' = snapshot
    BY <1>12 DEF Crash, OneTransaction, InTransaction, TypeOK, ProcessesOK
  <2>3. UNCHANGED <<matches, label, overruled, broken, rejecting>> /\ waiting \subseteq waiting'
    BY <1>12 DEF Crash, tables, history
  <2> QED BY <2>1, <2>2, <2>3 DEF RejectionsArePending, DueMatching
<1>13. ASSUME NEW p \in Pair, Confirm(p)
      PROVE  RejectionsArePending'
  <2>1. /\ UNCHANGED <<matches, overruled, broken, waiting, rejecting, pc, snapshot>>
        /\ \A q \in Pair : label'[q] = "rejected" => label[q] = "rejected"
        /\ matches \subseteq Pair
    BY <1>13 DEF Confirm, TypeOK, TablesOK
  <2> QED BY <2>1 DEF RejectionsArePending, DueMatching
<1>14. ASSUME NEW p \in Pair, Reject(p)
      PROVE  RejectionsArePending'
  <2>1. DueMatching'
    BY <1>14 DEF Reject, DueMatching, TypeOK, ProcessesOK
  <2> QED BY <2>1 DEF RejectionsArePending
<1>15. ASSUME NEW p \in Pair, DeleteMatch(p)
      PROVE  RejectionsArePending'
  BY <1>15 DEF DeleteMatch, Replace, TypeOK, TablesOK, ProcessesOK, InTransaction, Chaining, tables,
     history, RejectionsArePending, DueMatching, Snapshot
<1>16. ASSUME NEW p \in Pair, Rematch(p)
      PROVE  RejectionsArePending'
  BY <1>16 DEF Rematch, TypeOK, TablesOK, ProcessesOK, InTransaction, Chaining, tables, history,
     RejectionsArePending, DueMatching, Snapshot
<1>17. ASSUME NEW p \in Pair, Abandon(p)
      PROVE  RejectionsArePending'
  BY <1>17 DEF Abandon, TypeOK, TablesOK, ProcessesOK, InTransaction, Chaining, tables, history,
     RejectionsArePending, DueMatching, Snapshot
<1>18. ASSUME NEW p \in Pair, NEW verdict \in Verdict, Resolve(p, verdict)
      PROVE  RejectionsArePending'
  BY <1>18 DEF Resolve, Decide, TypeOK, TablesOK, ProcessesOK, InTransaction, Chaining, tables,
     history, RejectionsArePending, DueMatching, Snapshot
<1>19. ASSUME NEW job \in JobType, Request(job)
      PROVE  RejectionsArePending'
  BY <1>19 DEF Request, TypeOK, TablesOK, ProcessesOK, InTransaction, Chaining, tables, history,
     RejectionsArePending, DueMatching, Snapshot
<1>20. CASE UNCHANGED vars
  BY <1>20 DEF vars, tables, bounds, history, RejectionsArePending, DueMatching, Snapshot
<1> QED
  BY <1>1, <1>2, <1>3, <1>4, <1>5, <1>6, <1>7, <1>8, <1>9, <1>10, <1>11, <1>12, <1>13, <1>14, <1>15,
     <1>16, <1>17, <1>18, <1>19, <1>20 DEF Next, Step, Officers

(* A match that disagrees stays on its way to a conflict. *)
LEMMA ConflictsStep ==
  ASSUME TypeOK, OneTransaction, ConflictsOfMatches, ConflictsArePending, [Next]_vars
  PROVE  ConflictsArePending'
<1>1. ASSUME NEW w \in Worker, ReadDecided(w)
      PROVE  ConflictsArePending'
  <2>1. lock = NoWorker
    BY <1>1 DEF ReadDecided, Lock, InTransaction
  <2>2. \A v \in Worker \ {w} : pc[v] \notin InTransaction
    BY <2>1, Alone
  <2> QED BY <1>1, <2>2 DEF ReadDecided, Lock, TypeOK, TablesOK, ProcessesOK, InTransaction,
     Chaining, tables, history, ConflictsArePending, DueMatching, DueDetection
<1>2. ASSUME NEW w \in Worker, ReadLabels(w)
      PROVE  ConflictsArePending'
  BY <1>2 DEF ReadLabels, TypeOK, TablesOK, ProcessesOK, InTransaction, Chaining, tables, history,
     ConflictsArePending, DueMatching, DueDetection, Snapshot, Nothing, ConflictsOfMatches, Follows
<1>3. ASSUME NEW w \in Worker, Rewrite(w)
      PROVE  ConflictsArePending'
  BY <1>3 DEF Rewrite, Commit, ConflictsArePending, DueDetection, TypeOK, ProcessesOK
<1>4. ASSUME NEW w \in Worker, ReadUnexamined(w)
      PROVE  ConflictsArePending'
  <2>1. lock = NoWorker
    BY <1>4 DEF ReadUnexamined, Lock, InTransaction
  <2>2. \A v \in Worker \ {w} : pc[v] \notin InTransaction
    BY <2>1, Alone
  <2>3. /\ UNCHANGED <<matches, conflict, broken>>
        /\ pc'[w] = "insert"
        /\ snapshot'.rows = {p \in matches : conflict[p] = "none"}
    BY <1>4 DEF ReadUnexamined, Lock, Nothing, tables, history, TypeOK, ProcessesOK
  <2>4. \A p \in matches \cap Disagreeing : conflict[p] = "none" => p \in snapshot'.rows
    BY <2>3
  <2> QED BY <2>3, <2>4 DEF ConflictsArePending
<1>5. ASSUME NEW w \in Worker, InsertConflicts(w)
      PROVE  ConflictsArePending'
  <2>1. pc[w] \in InTransaction
    BY <1>5 DEF InsertConflicts, Commit, InTransaction
  <2>2. \A v \in Worker \ {w} : pc[v] \notin InTransaction
    BY <2>1, Alone
  <2> QED BY <1>5, <2>2 DEF InsertConflicts, Commit, TypeOK, TablesOK, ProcessesOK, InTransaction,
     Chaining, tables, history, ConflictsArePending, DueMatching, DueDetection
<1>6. ASSUME NEW w \in Worker, ForeignKeyFails(w)
      PROVE  ConflictsArePending'
  <2>1. pc[w] \in InTransaction
    BY <1>6 DEF ForeignKeyFails, Commit, InTransaction
  <2>2. \A v \in Worker \ {w} : pc[v] \notin InTransaction
    BY <2>1, Alone
  <2> QED BY <1>6, <2>2 DEF ForeignKeyFails, Commit, TypeOK, TablesOK, ProcessesOK, InTransaction,
     Chaining, tables, history, ConflictsArePending, DueMatching, DueDetection
<1>7. ASSUME NEW w \in Worker, ReadMatches(w)
      PROVE  ConflictsArePending'
  <2>1. lock = NoWorker
    BY <1>7 DEF ReadMatches, Lock, InTransaction
  <2>2. \A v \in Worker \ {w} : pc[v] \notin InTransaction
    BY <2>1, Alone
  <2> QED BY <1>7, <2>2 DEF ReadMatches, Lock, TypeOK, TablesOK, ProcessesOK, InTransaction,
     Chaining, tables, history, ConflictsArePending, DueMatching, DueDetection
<1>8. ASSUME NEW w \in Worker, Compose(w)
      PROVE  ConflictsArePending'
  <2>1. pc[w] \in InTransaction
    BY <1>8 DEF Compose, Commit, InTransaction
  <2>2. \A v \in Worker \ {w} : pc[v] \notin InTransaction
    BY <2>1, Alone
  <2> QED BY <1>8, <2>2 DEF Compose, Commit, TypeOK, TablesOK, ProcessesOK, InTransaction, Chaining,
     tables, history, ConflictsArePending, DueMatching, DueDetection
<1>9. ASSUME NEW w \in Worker, BeginValidation(w)
      PROVE  ConflictsArePending'
  <2>1. lock = NoWorker
    BY <1>9 DEF BeginValidation, Lock, InTransaction
  <2>2. \A v \in Worker \ {w} : pc[v] \notin InTransaction
    BY <2>1, Alone
  <2> QED BY <1>9, <2>2 DEF BeginValidation, Lock, TypeOK, TablesOK, ProcessesOK, InTransaction,
     Chaining, tables, history, ConflictsArePending, DueMatching, DueDetection
<1>10. ASSUME NEW w \in Worker, Report(w)
      PROVE  ConflictsArePending'
  <2>1. pc[w] \in InTransaction
    BY <1>10 DEF Report, Commit, InTransaction
  <2>2. \A v \in Worker \ {w} : pc[v] \notin InTransaction
    BY <2>1, Alone
  <2> QED BY <1>10, <2>2 DEF Report, Commit, TypeOK, TablesOK, ProcessesOK, InTransaction, Chaining,
     tables, history, ConflictsArePending, DueMatching, DueDetection
<1>11. ASSUME NEW w \in Worker, Chain(w)
      PROVE  ConflictsArePending'
  BY <1>11 DEF Chain, TypeOK, TablesOK, ProcessesOK, InTransaction, Chaining, tables, history,
     ConflictsArePending, DueMatching, DueDetection, Snapshot, Nothing, ConflictsOfMatches, Follows
<1>12. ASSUME NEW w \in Worker, Crash(w)
      PROVE  ConflictsArePending'
  <2>1. /\ pc[w] \in {"labels", "rewrite", "chain detect"} => "HARMONIZE_WARD" \in waiting'
        /\ pc[w] = "insert" => "DETECT_CONFLICTS" \in waiting'
    BY <1>12 DEF Crash, JobOf, InTransaction, Chaining
  <2>2. \A v \in Worker : pc[v] \in {"labels", "rewrite", "chain detect"} /\ v # w => pc'[v] = pc[v]
    BY <1>12 DEF Crash, TypeOK, ProcessesOK
  <2>3. \A v \in Worker : pc[v] = "insert" /\ v # w => pc'[v] = pc[v] /\ snapshot' = snapshot
    BY <1>12 DEF Crash, OneTransaction, InTransaction, TypeOK, ProcessesOK
  <2>4. UNCHANGED <<matches, conflict, broken, rejecting>> /\ waiting \subseteq waiting'
    BY <1>12 DEF Crash, tables, history
  <2>5. DueDetection \/ pc[w] = "insert" => DueDetection'
    BY <2>1, <2>2, <2>4 DEF DueDetection, DueMatching
  <2>6. ASSUME ~broken, NEW p \in matches \cap Disagreeing, conflict[p] = "none"
        PROVE  DueDetection' \/ \E v \in Worker : pc'[v] = "insert" /\ p \in snapshot'.rows
    <3>1. CASE DueDetection \/ pc[w] = "insert"
      BY <2>5, <3>1
    <3>2. CASE ~DueDetection /\ pc[w] # "insert"
      <4>1. PICK v \in Worker : pc[v] = "insert" /\ p \in snapshot.rows
        BY <2>6, <3>2 DEF ConflictsArePending
      <4> QED BY <2>3, <3>2, <4>1
    <3> QED BY <3>1, <3>2
  <2> QED BY <2>4, <2>6 DEF ConflictsArePending
<1>13. ASSUME NEW p \in Pair, Confirm(p)
      PROVE  ConflictsArePending'
  BY <1>13 DEF Confirm, Decide, TypeOK, TablesOK, ProcessesOK, InTransaction, Chaining, tables,
     history, ConflictsArePending, DueMatching, DueDetection, Snapshot, Nothing, ConflictsOfMatches,
     Follows
<1>14. ASSUME NEW p \in Pair, Reject(p)
      PROVE  ConflictsArePending'
  BY <1>14 DEF Reject, Decide, TypeOK, TablesOK, ProcessesOK, InTransaction, Chaining, tables,
     history, ConflictsArePending, DueMatching, DueDetection, Snapshot, Nothing, ConflictsOfMatches,
     Follows
<1>15. ASSUME NEW p \in Pair, DeleteMatch(p)
      PROVE  ConflictsArePending'
  BY <1>15 DEF DeleteMatch, Replace, TypeOK, TablesOK, ProcessesOK, InTransaction, Chaining, tables,
     history, ConflictsArePending, DueMatching, DueDetection, Snapshot, Nothing, ConflictsOfMatches,
     Follows
<1>16. ASSUME NEW p \in Pair, Rematch(p)
      PROVE  ConflictsArePending'
  BY <1>16 DEF Rematch, TypeOK, TablesOK, ProcessesOK, InTransaction, Chaining, tables, history,
     ConflictsArePending, DueMatching, DueDetection, Snapshot, Nothing, ConflictsOfMatches, Follows
<1>17. ASSUME NEW p \in Pair, Abandon(p)
      PROVE  ConflictsArePending'
  BY <1>17 DEF Abandon, TypeOK, TablesOK, ProcessesOK, InTransaction, Chaining, tables, history,
     ConflictsArePending, DueMatching, DueDetection, Snapshot, Nothing, ConflictsOfMatches, Follows
<1>18. ASSUME NEW p \in Pair, NEW verdict \in Verdict, Resolve(p, verdict)
      PROVE  ConflictsArePending'
  <2>1. /\ UNCHANGED <<matches, broken, waiting, rejecting, pc, snapshot>>
        /\ \A q \in Pair : conflict'[q] = "none" => conflict[q] = "none" \/ q = p
        /\ p \in matches /\ matches \subseteq Pair
    BY <1>18 DEF Resolve, TypeOK, TablesOK, ConflictsOfMatches
  <2>2. conflict'[p] # "none"
    BY <1>18 DEF Resolve, TypeOK, TablesOK, ConflictStatus
  <2> QED BY <2>1, <2>2 DEF ConflictsArePending, DueDetection, DueMatching
<1>19. ASSUME NEW job \in JobType, Request(job)
      PROVE  ConflictsArePending'
  BY <1>19 DEF Request, TypeOK, TablesOK, ProcessesOK, InTransaction, Chaining, tables, history,
     ConflictsArePending, DueMatching, DueDetection, Snapshot, Nothing, ConflictsOfMatches, Follows
<1>20. CASE UNCHANGED vars
  BY <1>20 DEF vars, tables, bounds, history, TypeOK, TablesOK, ProcessesOK, InTransaction,
     Chaining, ConflictsArePending, DueMatching, DueDetection, Snapshot, Nothing,
     ConflictsOfMatches, Follows
<1> QED
  BY <1>1, <1>2, <1>3, <1>4, <1>5, <1>6, <1>7, <1>8, <1>9, <1>10, <1>11, <1>12, <1>13, <1>14, <1>15,
     <1>16, <1>17, <1>18, <1>19, <1>20 DEF Next, Step, Officers

(* A golden record that is behind stays on its way to an assembly. *)
LEMMA RecordsStep ==
  ASSUME TypeOK, OneTransaction, RecordsArePending, [Next]_vars
  PROVE  RecordsArePending'
<1>1. ASSUME NEW w \in Worker, ReadDecided(w)
      PROVE  RecordsArePending'
  BY <1>1 DEF ReadDecided, Lock, TypeOK, ProcessesOK, InTransaction, Chaining, tables, history,
     RecordsArePending, DueMatching, DueDetection, DueAssembly, Nothing, Follows, TablesOK
<1>2. ASSUME NEW w \in Worker, ReadLabels(w)
      PROVE  RecordsArePending'
  BY <1>2 DEF ReadLabels, TypeOK, ProcessesOK, InTransaction, Chaining, tables, history,
     RecordsArePending, DueMatching, DueDetection, DueAssembly, Nothing, Follows, TablesOK
<1>3. ASSUME NEW w \in Worker, Rewrite(w)
      PROVE  RecordsArePending'
  BY <1>3 DEF Rewrite, Commit, RecordsArePending, DueDetection, DueAssembly, TypeOK, ProcessesOK
<1>4. ASSUME NEW w \in Worker, ReadUnexamined(w)
      PROVE  RecordsArePending'
  BY <1>4 DEF ReadUnexamined, Lock, TypeOK, ProcessesOK, InTransaction, Chaining, tables, history,
     RecordsArePending, DueMatching, DueDetection, DueAssembly, Nothing, Follows, TablesOK
<1>5. ASSUME NEW w \in Worker, InsertConflicts(w)
      PROVE  RecordsArePending'
  BY <1>5 DEF InsertConflicts, Commit, TypeOK, ProcessesOK, InTransaction, Chaining, tables,
     history, RecordsArePending, DueMatching, DueDetection, DueAssembly, Nothing, Follows, TablesOK
<1>6. ASSUME NEW w \in Worker, ForeignKeyFails(w)
      PROVE  RecordsArePending'
  BY <1>6 DEF ForeignKeyFails, Commit, TypeOK, ProcessesOK, InTransaction, Chaining, tables,
     history, RecordsArePending, DueMatching, DueDetection, DueAssembly, Nothing, Follows, TablesOK
<1>7. ASSUME NEW w \in Worker, ReadMatches(w)
      PROVE  RecordsArePending'
  BY <1>7 DEF ReadMatches, Lock, TypeOK, ProcessesOK, InTransaction, Chaining, tables, history,
     RecordsArePending, DueMatching, DueDetection, DueAssembly, Nothing, Follows, TablesOK
<1>8. ASSUME NEW w \in Worker, Compose(w)
      PROVE  RecordsArePending'
  <2>1. /\ pc[w] = "compose" /\ pc' = [pc EXCEPT ![w] = "chain validate"]
        /\ records' = {[matches |-> S, open |-> Cardinality(Open(S))] : S \in Clusters(snapshot.rows)}
        /\ UNCHANGED <<matches, conflict, waiting, rejecting, broken>>
    BY <1>8 DEF Compose, Commit
  <2>2. DueAssembly => DueAssembly'
    BY <2>1 DEF DueAssembly, DueDetection, DueMatching, TypeOK, ProcessesOK
  <2>3. \A v \in Worker : pc'[v] # "compose"
    BY <2>1, Alone DEF InTransaction, TypeOK, ProcessesOK
  <2>4. {r.matches : r \in records'} = Clusters(snapshot.rows)
    <3>1. ASSUME NEW r \in records'
          PROVE  r.matches \in Clusters(snapshot.rows)
      <4>1. PICK S \in Clusters(snapshot.rows) : r = [matches |-> S, open |-> Cardinality(Open(S))]
        BY <2>1
      <4> QED BY <4>1
    <3>2. ASSUME NEW S \in Clusters(snapshot.rows)
          PROVE  \E r \in records' : r.matches = S
      <4> DEFINE r == [matches |-> S, open |-> Cardinality(Open(S))]
      <4>1. r \in records'
        BY <2>1
      <4>2. r.matches = S
        OBVIOUS
      <4> QED BY <4>1, <4>2
    <3> QED BY <3>1, <3>2
  <2>5. ~broken => DueAssembly \/ snapshot.rows = matches
    BY <2>1 DEF RecordsArePending
  <2>6. snapshot.rows = matches => {r.matches : r \in records'} = Clusters(matches')
    BY <2>1, <2>4
  <2> QED BY <2>1, <2>2, <2>3, <2>5, <2>6 DEF RecordsArePending
<1>9. ASSUME NEW w \in Worker, BeginValidation(w)
      PROVE  RecordsArePending'
  BY <1>9 DEF BeginValidation, Lock, TypeOK, ProcessesOK, InTransaction, Chaining, tables, history,
     RecordsArePending, DueMatching, DueDetection, DueAssembly, Nothing, Follows, TablesOK
<1>10. ASSUME NEW w \in Worker, Report(w)
      PROVE  RecordsArePending'
  <2>1. /\ pc[w] = "report" /\ pc' = [pc EXCEPT ![w] = "idle"]
        /\ UNCHANGED <<matches, records, waiting, rejecting, broken>>
    BY <1>10 DEF Report, Commit, history
  <2>2. DueAssembly => DueAssembly'
    BY <2>1 DEF DueAssembly, DueDetection, DueMatching, TypeOK, ProcessesOK
  <2>3. \A v \in Worker : pc[v] # "compose" /\ pc'[v] # "compose"
    BY <2>1, Alone DEF InTransaction, TypeOK, ProcessesOK
  <2> QED BY <2>1, <2>2, <2>3 DEF RecordsArePending
<1>11. ASSUME NEW w \in Worker, Chain(w)
      PROVE  RecordsArePending'
  BY <1>11 DEF Chain, TypeOK, ProcessesOK, InTransaction, Chaining, tables, history,
     RecordsArePending, DueMatching, DueDetection, DueAssembly, Nothing, Follows, TablesOK
<1>12. ASSUME NEW w \in Worker, Crash(w)
      PROVE  RecordsArePending'
  <2>1. /\ pc[w] \in {"labels", "rewrite", "chain detect"} => "HARMONIZE_WARD" \in waiting'
        /\ pc[w] \in {"insert", "chain assemble"} => "DETECT_CONFLICTS" \in waiting'
        /\ pc[w] = "compose" => "ASSEMBLE_WARD" \in waiting'
    BY <1>12 DEF Crash, JobOf, InTransaction, Chaining
  <2>2. \A v \in Worker : v # w => pc'[v] = pc[v]
    BY <1>12 DEF Crash, TypeOK, ProcessesOK
  <2>3. DueAssembly \/ pc[w] = "compose" => DueAssembly'
    BY <1>12, <2>1, <2>2 DEF Crash, DueAssembly, DueDetection, DueMatching
  <2>4. \A v \in Worker : pc[v] = "compose" /\ v # w => snapshot' = snapshot
    BY <1>12 DEF Crash, OneTransaction, InTransaction, TypeOK, ProcessesOK
  <2>5. pc'[w] # "compose" /\ UNCHANGED <<matches, records, broken>>
    BY <1>12 DEF Crash, tables, history, TypeOK, ProcessesOK
  <2> QED BY <2>2, <2>3, <2>4, <2>5 DEF RecordsArePending
<1>13. ASSUME NEW p \in Pair, Confirm(p)
      PROVE  RecordsArePending'
  BY <1>13 DEF Confirm, Decide, TypeOK, ProcessesOK, InTransaction, Chaining, tables, history,
     RecordsArePending, DueMatching, DueDetection, DueAssembly, Nothing, Follows, TablesOK
<1>14. ASSUME NEW p \in Pair, Reject(p)
      PROVE  RecordsArePending'
  BY <1>14 DEF Reject, Decide, TypeOK, ProcessesOK, InTransaction, Chaining, tables, history,
     RecordsArePending, DueMatching, DueDetection, DueAssembly, Nothing, Follows, TablesOK
<1>15. ASSUME NEW p \in Pair, DeleteMatch(p)
      PROVE  RecordsArePending'
  BY <1>15 DEF DeleteMatch, Replace, TypeOK, ProcessesOK, InTransaction, Chaining, tables, history,
     RecordsArePending, DueMatching, DueDetection, DueAssembly, Nothing, Follows, TablesOK
<1>16. ASSUME NEW p \in Pair, Rematch(p)
      PROVE  RecordsArePending'
  BY <1>16 DEF Rematch, TypeOK, ProcessesOK, InTransaction, Chaining, tables, history,
     RecordsArePending, DueMatching, DueDetection, DueAssembly, Nothing, Follows, TablesOK
<1>17. ASSUME NEW p \in Pair, Abandon(p)
      PROVE  RecordsArePending'
  BY <1>17 DEF Abandon, TypeOK, ProcessesOK, InTransaction, Chaining, tables, history,
     RecordsArePending, DueMatching, DueDetection, DueAssembly, Nothing, Follows, TablesOK
<1>18. ASSUME NEW p \in Pair, NEW verdict \in Verdict, Resolve(p, verdict)
      PROVE  RecordsArePending'
  BY <1>18 DEF Resolve, Decide, TypeOK, ProcessesOK, InTransaction, Chaining, tables, history,
     RecordsArePending, DueMatching, DueDetection, DueAssembly, Nothing, Follows, TablesOK
<1>19. ASSUME NEW job \in JobType, Request(job)
      PROVE  RecordsArePending'
  BY <1>19 DEF Request, TypeOK, ProcessesOK, InTransaction, Chaining, tables, history,
     RecordsArePending, DueMatching, DueDetection, DueAssembly, Nothing, Follows, TablesOK
<1>20. CASE UNCHANGED vars
  BY <1>20 DEF vars, tables, bounds, history, TypeOK, ProcessesOK, InTransaction, Chaining,
     RecordsArePending, DueMatching, DueDetection, DueAssembly, Nothing, Follows, TablesOK
<1> QED
  BY <1>1, <1>2, <1>3, <1>4, <1>5, <1>6, <1>7, <1>8, <1>9, <1>10, <1>11, <1>12, <1>13, <1>14, <1>15,
     <1>16, <1>17, <1>18, <1>19, <1>20 DEF Next, Step, Officers

(* Counts that are behind stay on their way to an assembly. *)
LEMMA CountsStep ==
  ASSUME TypeOK, OneTransaction, CountsArePending, [Next]_vars
  PROVE  CountsArePending'
<1>1. ASSUME NEW w \in Worker, ReadDecided(w)
      PROVE  CountsArePending'
  <2>1. UNCHANGED <<records, conflict, broken, unsettled>>
    BY <1>1 DEF ReadDecided, Lock, tables, history
  <2>2. DueAssembly \/ (\E v \in Worker : pc[v] = "compose") =>
          (DueAssembly \/ \E v \in Worker : pc[v] = "compose")'
    BY <1>1 DEF ReadDecided, Lock, DueAssembly, DueDetection, DueMatching, TypeOK, ProcessesOK
  <2> QED BY <2>1, <2>2, CountsStay DEF CountsArePending
<1>2. ASSUME NEW w \in Worker, ReadLabels(w)
      PROVE  CountsArePending'
  <2>1. UNCHANGED <<records, conflict, broken, unsettled>>
    BY <1>2 DEF ReadLabels, tables, history
  <2>2. DueAssembly \/ (\E v \in Worker : pc[v] = "compose") =>
          (DueAssembly \/ \E v \in Worker : pc[v] = "compose")'
    BY <1>2 DEF ReadLabels, DueAssembly, DueDetection, DueMatching, TypeOK, ProcessesOK
  <2> QED BY <2>1, <2>2, CountsStay DEF CountsArePending
<1>3. ASSUME NEW w \in Worker, Rewrite(w)
      PROVE  CountsArePending'
  BY <1>3 DEF Rewrite, Commit, CountsArePending, DueDetection, DueAssembly, TypeOK, ProcessesOK
<1>4. ASSUME NEW w \in Worker, ReadUnexamined(w)
      PROVE  CountsArePending'
  <2>1. UNCHANGED <<records, conflict, broken, unsettled>>
    BY <1>4 DEF ReadUnexamined, Lock, tables, history
  <2>2. DueAssembly \/ (\E v \in Worker : pc[v] = "compose") =>
          (DueAssembly \/ \E v \in Worker : pc[v] = "compose")'
    BY <1>4 DEF ReadUnexamined, Lock, DueAssembly, DueDetection, DueMatching, TypeOK, ProcessesOK
  <2> QED BY <2>1, <2>2, CountsStay DEF CountsArePending
<1>5. ASSUME NEW w \in Worker, InsertConflicts(w)
      PROVE  CountsArePending'
  BY <1>5 DEF InsertConflicts, Commit, CountsArePending, DueAssembly, TypeOK, ProcessesOK,
     InTransaction, Chaining
<1>6. ASSUME NEW w \in Worker, ForeignKeyFails(w)
      PROVE  CountsArePending'
  <2>1. UNCHANGED <<records, conflict, broken, unsettled>>
    BY <1>6 DEF ForeignKeyFails, Commit, tables, history
  <2>2. DueAssembly \/ (\E v \in Worker : pc[v] = "compose") =>
          (DueAssembly \/ \E v \in Worker : pc[v] = "compose")'
    BY <1>6 DEF ForeignKeyFails, Commit, DueAssembly, DueDetection, DueMatching, TypeOK, ProcessesOK
  <2> QED BY <2>1, <2>2, CountsStay DEF CountsArePending
<1>7. ASSUME NEW w \in Worker, ReadMatches(w)
      PROVE  CountsArePending'
  <2>1. UNCHANGED <<records, conflict, broken, unsettled>>
    BY <1>7 DEF ReadMatches, Lock, tables, history
  <2>2. DueAssembly \/ (\E v \in Worker : pc[v] = "compose") =>
          (DueAssembly \/ \E v \in Worker : pc[v] = "compose")'
    BY <1>7 DEF ReadMatches, Lock, DueAssembly, DueDetection, DueMatching, TypeOK, ProcessesOK
  <2> QED BY <2>1, <2>2, CountsStay DEF CountsArePending
<1>8. ASSUME NEW w \in Worker, Compose(w)
      PROVE  CountsArePending'
  <2>1. /\ pc[w] = "compose" /\ pc' = [pc EXCEPT ![w] = "chain validate"]
        /\ records' = {[matches |-> S, open |-> Cardinality(Open(S))] : S \in Clusters(snapshot.rows)}
        /\ UNCHANGED <<matches, conflict, waiting, rejecting, broken>>
    BY <1>8 DEF Compose, Commit
  <2>2. DueAssembly => DueAssembly'
    BY <2>1 DEF DueAssembly, DueDetection, DueMatching, TypeOK, ProcessesOK
  <2>3. CountsMatch'
    <3> SUFFICES ASSUME NEW r \in records'
                 PROVE  r.open = Cardinality({p \in r.matches : conflict[p] \notin {"none", "resolved"}})
      BY <2>1 DEF CountsMatch, Open
    <3>1. PICK S \in Clusters(snapshot.rows) : r = [matches |-> S, open |-> Cardinality(Open(S))]
      BY <2>1
    <3>2. r.matches = S /\ r.open = Cardinality(Open(S))
      BY <3>1
    <3> QED BY <3>2 DEF Open
  <2> QED BY <2>3 DEF CountsArePending
<1>9. ASSUME NEW w \in Worker, BeginValidation(w)
      PROVE  CountsArePending'
  <2>1. UNCHANGED <<records, conflict, broken, unsettled>>
    BY <1>9 DEF BeginValidation, Lock, tables, history
  <2>2. DueAssembly \/ (\E v \in Worker : pc[v] = "compose") =>
          (DueAssembly \/ \E v \in Worker : pc[v] = "compose")'
    BY <1>9 DEF BeginValidation, Lock, DueAssembly, DueDetection, DueMatching, TypeOK, ProcessesOK
  <2> QED BY <2>1, <2>2, CountsStay DEF CountsArePending
<1>10. ASSUME NEW w \in Worker, Report(w)
      PROVE  CountsArePending'
  <2>1. UNCHANGED <<records, conflict, broken, unsettled>>
    BY <1>10 DEF Report, Commit, tables, history
  <2>2. DueAssembly \/ (\E v \in Worker : pc[v] = "compose") =>
          (DueAssembly \/ \E v \in Worker : pc[v] = "compose")'
    BY <1>10 DEF Report, Commit, DueAssembly, DueDetection, DueMatching, TypeOK, ProcessesOK
  <2> QED BY <2>1, <2>2, CountsStay DEF CountsArePending
<1>11. ASSUME NEW w \in Worker, Chain(w)
      PROVE  CountsArePending'
  <2>1. UNCHANGED <<records, conflict, broken, unsettled>>
    BY <1>11 DEF Chain, tables, history
  <2>2. DueAssembly \/ (\E v \in Worker : pc[v] = "compose") =>
          (DueAssembly \/ \E v \in Worker : pc[v] = "compose")'
    BY <1>11 DEF Chain, DueAssembly, DueDetection, DueMatching, Follows, Chaining, TypeOK, ProcessesOK
  <2> QED BY <2>1, <2>2, CountsStay DEF CountsArePending
<1>12. ASSUME NEW w \in Worker, Crash(w)
      PROVE  CountsArePending'
  <2>1. /\ pc[w] \in {"labels", "rewrite", "chain detect"} => "HARMONIZE_WARD" \in waiting'
        /\ pc[w] \in {"insert", "chain assemble"} => "DETECT_CONFLICTS" \in waiting'
        /\ pc[w] = "compose" => "ASSEMBLE_WARD" \in waiting'
    BY <1>12 DEF Crash, JobOf, InTransaction, Chaining
  <2>2. \A v \in Worker : v # w => pc'[v] = pc[v]
    BY <1>12 DEF Crash, TypeOK, ProcessesOK
  <2>3. DueAssembly \/ pc[w] = "compose" => DueAssembly'
    BY <1>12, <2>1, <2>2 DEF Crash, DueAssembly, DueDetection, DueMatching
  <2>4. UNCHANGED <<records, conflict, broken, unsettled>>
    BY <1>12 DEF Crash, tables, history
  <2> QED BY <2>2, <2>3, <2>4, CountsStay DEF CountsArePending
<1>13. ASSUME NEW p \in Pair, Confirm(p)
      PROVE  CountsArePending'
  <2>1. UNCHANGED <<records, conflict, broken, unsettled>>
    BY <1>13 DEF Confirm, Decide, tables, history
  <2>2. DueAssembly \/ (\E v \in Worker : pc[v] = "compose") =>
          (DueAssembly \/ \E v \in Worker : pc[v] = "compose")'
    BY <1>13 DEF Confirm, Decide, DueAssembly, DueDetection, DueMatching, TypeOK, ProcessesOK
  <2> QED BY <2>1, <2>2, CountsStay DEF CountsArePending
<1>14. ASSUME NEW p \in Pair, Reject(p)
      PROVE  CountsArePending'
  <2>1. UNCHANGED <<records, conflict, broken, unsettled>>
    BY <1>14 DEF Reject, Decide, tables, history
  <2>2. DueAssembly \/ (\E v \in Worker : pc[v] = "compose") =>
          (DueAssembly \/ \E v \in Worker : pc[v] = "compose")'
    BY <1>14 DEF Reject, Decide, DueAssembly, DueDetection, DueMatching, TypeOK, ProcessesOK
  <2> QED BY <2>1, <2>2, CountsStay DEF CountsArePending
<1>15. ASSUME NEW p \in Pair, DeleteMatch(p)
      PROVE  CountsArePending'
  BY <1>15 DEF DeleteMatch, CountsArePending
<1>16. ASSUME NEW p \in Pair, Rematch(p)
      PROVE  CountsArePending'
  <2>1. UNCHANGED <<records, conflict, broken, unsettled>>
    BY <1>16 DEF Rematch, tables, history
  <2>2. DueAssembly \/ (\E v \in Worker : pc[v] = "compose") =>
          (DueAssembly \/ \E v \in Worker : pc[v] = "compose")'
    BY <1>16 DEF Rematch, DueAssembly, DueDetection, DueMatching, TypeOK, ProcessesOK
  <2> QED BY <2>1, <2>2, CountsStay DEF CountsArePending
<1>17. ASSUME NEW p \in Pair, Abandon(p)
      PROVE  CountsArePending'
  BY <1>17 DEF Abandon, TypeOK, ProcessesOK, InTransaction, Chaining, tables, history,
     CountsArePending, DueMatching, DueDetection, DueAssembly, Follows
<1>18. ASSUME NEW p \in Pair, NEW verdict \in Verdict, Resolve(p, verdict)
      PROVE  CountsArePending'
  BY <1>18 DEF Resolve, CountsArePending
<1>19. ASSUME NEW job \in JobType, Request(job)
      PROVE  CountsArePending'
  <2>1. UNCHANGED <<records, conflict, broken, unsettled>>
    BY <1>19 DEF Request, tables, history
  <2>2. DueAssembly \/ (\E v \in Worker : pc[v] = "compose") =>
          (DueAssembly \/ \E v \in Worker : pc[v] = "compose")'
    BY <1>19 DEF Request, DueAssembly, DueDetection, DueMatching, TypeOK, ProcessesOK
  <2> QED BY <2>1, <2>2, CountsStay DEF CountsArePending
<1>20. CASE UNCHANGED vars
  BY <1>20, CountsStay DEF vars, tables, bounds, history, CountsArePending, DueMatching,
     DueDetection, DueAssembly
<1> QED
  BY <1>1, <1>2, <1>3, <1>4, <1>5, <1>6, <1>7, <1>8, <1>9, <1>10, <1>11, <1>12, <1>13, <1>14, <1>15,
     <1>16, <1>17, <1>18, <1>19, <1>20 DEF Next, Step, Officers

-----------------------------------------------------------------------------
(* The inductive invariant, and what it says of the ward. *)

IInv ==
  /\ TypeOK
  /\ OneTransaction
  /\ ConflictsOfMatches
  /\ DecisionsAreTouched
  /\ ClashesAreDecided
  /\ LabelsAreRead
  /\ VerdictsOverrule
  /\ RejectionsArePending
  /\ ConflictsArePending
  /\ RecordsArePending
  /\ CountsArePending

(* A ward without matches has no records. *)
LEMMA NoMatchesNoClusters == Clusters({}) = {}
BY DEF Clusters, Components

(* The empty ward satisfies the invariant ... *)
LEMMA InvariantInitially == Init => IInv
<1> SUFFICES ASSUME Init
             PROVE  IInv
  OBVIOUS
<1>1. TypeOK
  BY TypesInitially
<1>2. OneTransaction
  BY DEF Init, OneTransaction, InTransaction
<1>3. ConflictsOfMatches /\ DecisionsAreTouched /\ ClashesAreDecided
  BY DEF Init, ConflictsOfMatches, DecisionsAreTouched, Decided, ClashesAreDecided, Nothing
<1>4. LabelsAreRead /\ RejectionsArePending /\ ConflictsArePending
  BY DEF Init, LabelsAreRead, RejectionsArePending, ConflictsArePending
<1>5. VerdictsOverrule
  BY DEF Init, VerdictsOverrule
<1>6. RecordsArePending
  BY NoMatchesNoClusters DEF Init, RecordsArePending
<1>7. CountsArePending
  BY DEF Init, CountsArePending, CountsMatch
<1> QED BY <1>1, <1>2, <1>3, <1>4, <1>5, <1>6, <1>7 DEF IInv

(* ... and every step keeps it, ... *)
LEMMA InvariantStep == IInv /\ [Next]_vars => IInv'
BY TypesStep, OneTransactionStep, ForeignKeyStep, TouchedStep, ClashesStep, LabelsStep,
   VerdictsStep, RejectionsStep, ConflictsStep, RecordsStep, CountsStep DEF IInv

(* ... so the ward always satisfies it. *)
THEOREM Invariant == Spec => []IInv
BY InvariantInitially, InvariantStep, PTL DEF Spec

(* Nothing is due in a quiet ward. *)
LEMMA QuietIsDone == Quiet => ~DueAssembly /\ \A w \in Worker : pc[w] = "idle"
BY DEF Quiet, DueAssembly, DueDetection, DueMatching

(* match_ward keeps the golden record one-to-one: two matches that clash are *)
(* there only by the decision of an officer, at every moment of the rewrite. *)
THEOREM ClashesDecided == Spec => []ClashesAreDecided
<1>1. IInv => ClashesAreDecided
  BY DEF IInv
<1> QED BY <1>1, Invariant, PTL

(* A POST that rejects a match is not undone by a rewrite that read the     *)
(* labels too early: it has queued another one, or will.                    *)
THEOREM RejectedStayOut == Spec => []RejectedIsGone
<1>1. IInv => RejectedIsGone
  BY QuietIsDone DEF IInv, RejectionsArePending, RejectedIsGone, DueAssembly, DueDetection
<1> QED BY <1>1, Invariant, PTL

(* detect_conflicts examines every match in the end, those matched again    *)
(* after their conflict went with the old match included.                   *)
THEOREM ConflictsFound == Spec => []ConflictsAreFound
<1>1. IInv => ConflictsAreFound
  BY QuietIsDone DEF IInv, ConflictsArePending, ConflictsAreFound, DueAssembly
<1> QED BY <1>1, Invariant, PTL

(* assemble_ward is queued after every change of the matches, by the chain  *)
(* of the job that changed them, and wins over an assembly under way.       *)
THEOREM RecordsFollow == Spec => []RecordsFollowMatches
<1>1. IInv => RecordsFollowMatches
  BY QuietIsDone DEF IInv, RecordsArePending, RecordsFollowMatches
<1> QED BY <1>1, Invariant, PTL

(* conflict_count of a record is that of its open conflicts, unless an      *)
(* officer decided one since assemble_ward ran: every other change of the   *)
(* conflicts is followed by an assembly.                                    *)
THEOREM CountsRight == Spec => []CountsAreRight
<1>1. IInv => CountsAreRight
  BY QuietIsDone DEF IInv, CountsArePending, CountsMatch, CountsAreRight
<1> QED BY <1>1, Invariant, PTL
=============================================================================
