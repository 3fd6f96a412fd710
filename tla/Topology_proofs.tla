--------------------------- MODULE Topology_proofs ---------------------------
(* Proofs about Topology, for every finite source, any number of cells, *)
(* workers, officers, runs, decisions and faults.                       *)
EXTENDS Topology, FiniteSetTheorems, TLAPS

-----------------------------------------------------------------------------
(* The invariants. *)

AtIssue == {"read", "write", "commit"}

(* Who may stand where, and with what in hand. *)
Stations ==
  /\ \A w \in Worker : pc[w] \in {"idle", "chain"} \cup Running
  /\ \A o \in Officer : pc[o] \in {"idle", "chain"} \cup Deciding
  /\ \A s \in Session : pc[s] \in AtIssue => hand[s] \in Issue /\ hand[s].id \in 1 .. ids
  /\ \A w \in Worker : pc[w] \in {"read", "write"} => hand[w].status = "auto_fixed" /\ auto[w]
  /\ \A w \in Worker : pc[w] \notin {"loop", "read", "write"} => found[w] = {}
  /\ \A w \in Worker : ~ auto[w] => \A i \in found[w] : i.status = "open"
  /\ \A w \in Worker : \A i \in found[w] : i.status \in {"open", "auto_fixed"}

(* What a worker is about to report has ids that nobody else uses. *)
Draft(w) == found[w] \cup (IF pc[w] \in {"read", "write"} THEN {hand[w]} ELSE {})

Numbered ==
  /\ \A i \in issues : i.id \in 1 .. ids
  /\ \A w \in Worker : \A i \in Draft(w) : i.id \in 1 .. ids
  /\ \A w \in Worker : \A i, k \in Draft(w) : i.id = k.id => i = k
  /\ \A w \in Worker : \A i \in Draft(w), k \in issues : i.id # k.id
  /\ \A v, w \in Worker : v # w => \A i \in Draft(v), k \in Draft(w) : i.id # k.id

(* An officer at an issue has locked it. *)
Locking ==
  \A o \in Officer : pc[o] \in AtIssue =>
    /\ hand[o] \in issues
    /\ hand[o].status = "open"
    /\ \A w \in Worker : hand[o].id \notin gone[w]
    /\ \A p \in Officer : p # o /\ pc[p] \in AtIssue => hand[p].id # hand[o].id

Typing == TypeOK /\ Stations /\ Numbered /\ Locking

-----------------------------------------------------------------------------
(* A clip is of two parcels. *)
ProperFix(fix) == fix.action = "clip_from" => fix.target # fix.keep

Proper ==
  /\ \A i \in issues : ProperFix(i.fix)
  /\ \A s \in Session : ProperFix(hand[s].fix)
  /\ \A w \in Worker : \A i \in found[w] : ProperFix(i.fix)
  /\ \A w \in Worker : \A d \in todo[w] : ProperFix(d)

(* The parcel f, and the ground they all claim, once the sessions T have *)
(* committed what they have written.                                     *)
After(T, f) == IF owner[f] \in T THEN dirty[f] ELSE geom[f]
Ground(T) == UNION {After(T, f) : f \in Feature}

(* Whoever commits, and in whatever order, no ground is given up. *)
Growing == ~crossed => \A T, U \in SUBSET Session : T \subseteq U => Ground(T) \subseteq Ground(U)

(* The cells that gap fixes have claimed since there were n issues, and *)
(* those that the sessions T are about to claim.                        *)
Fresh(n) == {c \in Cell : filled[c] >= n}
Pending(T) == UNION {Filling(s) : s \in T}
Filled(n, T) == Fresh(n) \cup Pending(T)

Apart(i, T) == After(T, i.fix.target) \cap After(T, i.fix.keep) \subseteq Filled(i.id, T)

(* A transaction adds nothing to a row but gaps. *)
Additions == \A t \in Session, f \in Feature : owner[f] = t => dirty[f] \subseteq geom[f] \cup Filling(t)

(* What a session clips with covers the parcel that stays, whoever commits. *)
Covering ==
  \A s \in Session : pc[s] = "write" =>
    \A T \in SUBSET Session : s \in T =>
      After(T, hand[s].fix.keep) \subseteq kept[s] \cup Filled(hand[s].id, T)

(* A clip that is written, or committed, has parted the two parcels. *)
IsClip(i) == i.fix.action = "clip_from"
IsApplied(i) == i.status \in {"accepted", "auto_fixed"}
Parting == \A s \in Session : \A i \in Written(s) : IsClip(i) => \A T \in SUBSET Session : s \in T => Apart(i, T)
Parted ==
  \A i \in issues : IsApplied(i) /\ IsClip(i) => \A T \in SUBSET Session : Apart(i, T)

(* Somebody is about to queue HARMONIZE_WARD for what was fixed. *)
Attended ==
  /\ unmatched /\ ~ severed =>
       \/ \E w \in Worker : pc[w] = "chain"
       \/ \E o \in Officer : fixed[o] /\ pc[o] # "idle"
  /\ \A s \in Session : pc[s] = "chain" => fixed[s]

(* What the transaction of a worker has still to fix, ... *)
Underway == {"loop", "read", "write"}
Outstanding(w) == todo[w] \cup (IF pc[w] \in {"read", "write"} THEN {hand[w].fix} ELSE {})

(* ... and the fabric as it sees it. *)
View(w) == [f \in Feature |-> Seen(w, f)]

Held(S) == UNION {S[f] : f \in Feature}
Merges(O) == {d \in O : d.action = "merge_into"}
Promised(O) == UNION {d.ground : d \in Merges(O)}

(* Of a fabric S and the findings O: every overlap is still to be clipped; *)
(* what is still to be filled is unclaimed; and no strip is left but those. *)
Listed(S, O) ==
  \A a, b \in Feature : a # b /\ S[a] \cap S[b] # {} =>
    \E d \in O : d.action = "clip_from" /\ {d.target, d.keep} = {a, b}
Vacant(S, O) ==
  \A d \in Merges(O) :
    /\ d.ground \cap Held(S) = {}
    /\ \A e \in Merges(O) : d # e => d.ground \cap e.ground = {}
Stripless(C) == \A c \in Cell : c - 1 \in C /\ c + 1 \in C => c \in C
Whole(S, O) == Stripless(Held(S) \cup Promised(O))

(* A worker has written nothing before it fixes, fixes each finding once,   *)
(* and clips with the parcel as it sees it; if nobody disturbs it, the      *)
(* findings it has left are all that keeps the fabric from being healed.    *)
Ready(w) ==
  /\ pc[w] \notin Underway => \A f \in Feature : owner[f] # w
  /\ pc[w] \in {"read", "write"} => hand[w].fix \notin todo[w]
  /\ pc[w] = "gaps" => Merges(todo[w]) = {}
  /\ pc[w] = "write" /\ ~ disturbed[w] => kept[w] = Seen(w, hand[w].fix.keep)
Healed(w) ==
  /\ pc[w] \in Underway \cup {"gaps"} /\ auto[w] /\ ~ disturbed[w] => Listed(View(w), Outstanding(w))
  /\ pc[w] \in Underway /\ auto[w] /\ ~ disturbed[w] =>
       Vacant(View(w), Outstanding(w)) /\ Whole(View(w), Outstanding(w))
Healing == \A w \in Worker : Ready(w) /\ Healed(w)

USE TopologyAssumption DEF TopologyAssumption, vars, table, worker, session, bounds, history, meanwhile

-----------------------------------------------------------------------------
(* Operators. *)

(* A source has finitely many possible findings, so they can be numbered. *)
LEMMA FindingsAreFinite == IsFiniteSet(Finding)
<1> DEFINE A == {"clip_from", "merge_into"}
           P == (A \X Feature) \X (Feature \X SUBSET Cell)
           F(p) == [action |-> p[1][1], target |-> p[1][2], keep |-> p[2][1], ground |-> p[2][2]]
<1>1. IsFiniteSet(A)
  <2>1. IsFiniteSet({"clip_from"}) /\ IsFiniteSet({"merge_into"})
    BY FS_Singleton
  <2>2. A = {"clip_from"} \cup {"merge_into"}
    OBVIOUS
  <2> HIDE DEF A
  <2> QED BY <2>1, <2>2, FS_Union
<1>2. IsFiniteSet(SUBSET Cell)
  <2>1. IsFiniteSet(1 .. Width)
    BY FS_Interval
  <2> QED BY <2>1, FS_SUBSET DEF Cell
<1>3. IsFiniteSet(P)
  <2>1. IsFiniteSet(A \X Feature) /\ IsFiniteSet(Feature \X SUBSET Cell)
    BY <1>1, <1>2, FS_Product
  <2> QED BY <2>1, FS_Product
<1>4. IsFiniteSet({F(p) : p \in P})
  <2> DEFINE f == [p \in P |-> F(p)]
             Q == {F(p) : p \in P}
  <2>1. f \in Surjection(P, Q)
    BY DEF Surjection
  <2> HIDE DEF f, Q, P
  <2>3. IsFiniteSet(Q)
    BY <1>3, <2>1, FS_Surjection
  <2> QED BY <2>3 DEF Q
<1>5. Finding \subseteq {F(p) : p \in P}
  <2> SUFFICES ASSUME NEW d \in Finding PROVE d \in {F(p) : p \in P}
    OBVIOUS
  <2> DEFINE p == <<<<d.action, d.target>>, <<d.keep, d.ground>>>>
  <2>1. p \in P /\ d = F(p)
    BY DEF Finding
  <2> QED BY <2>1
<1> QED BY <1>4, <1>5, FS_Subset

(* SetToSeq numbers the members of a finite set. *)
LEMMA Numbering ==
  ASSUME NEW S, IsFiniteSet(S)
  PROVE  /\ Cardinality(S) \in Nat
         /\ SetToSeq(S) \in [1 .. Cardinality(S) -> S]
<1>1. Cardinality(S) \in Nat /\ ExistsBijection(1 .. Cardinality(S), S)
  BY FS_CardinalityType
<1>2. PICK f \in Bijection(1 .. Cardinality(S), S) : TRUE
  BY <1>1 DEF ExistsBijection
<1>3. f \in [1 .. Cardinality(S) -> S] /\ IsInjective(f)
  BY <1>2 DEF Bijection, Injection, IsInjective
<1> QED BY <1>1, <1>3 DEF SetToSeq

-----------------------------------------------------------------------------
(* Types. *)

(* What is left of a parcel, or what it becomes, is ground. *)
LEMMA SeenIsGround == ASSUME FabricOK, NEW s \in Session, NEW f \in Feature PROVE Seen(s, f) \subseteq Cell
BY DEF FabricOK, Seen

LEMMA FixIsGround ==
  ASSUME FabricOK, SessionsOK, Stations, NEW s \in Session, pc[s] = "write"
  PROVE  /\ hand[s] \in Issue /\ hand[s].fix \in Finding
         /\ hand[s].fix.target \in Feature /\ hand[s].fix.keep \in Feature
         /\ hand[s].fix.ground \subseteq Cell
         /\ Fix(hand[s].fix, Seen(s, hand[s].fix.target), kept[s]) \subseteq Cell
<1>1. hand[s] \in Issue
  BY DEF Stations, AtIssue
<1>2. hand[s].fix \in Finding
  BY <1>1 DEF Issue
<1>3. hand[s].fix.target \in Feature /\ hand[s].fix.keep \in Feature /\ hand[s].fix.ground \subseteq Cell
  BY <1>2 DEF Finding
<1>4. Seen(s, hand[s].fix.target) \subseteq Cell
  BY <1>3, SeenIsGround
<1> QED BY <1>1, <1>2, <1>3, <1>4 DEF Fix

(* The rows of the fabric. *)
LEMMA FabricStep ==
  ASSUME FabricOK, SessionsOK, Stations, [Next]_vars
  PROVE  FabricOK'
<1>1. ASSUME NEW b \in BOOLEAN, Run(b)
      PROVE  FabricOK'
  BY <1>1 DEF Run, FabricOK
<1>2. ASSUME NEW w \in Worker, NEW b \in BOOLEAN, Take(w, b)
      PROVE  FabricOK'
  BY <1>2 DEF Take, At, FabricOK
<1>3. ASSUME NEW w \in Worker, DeleteUnresolved(w)
      PROVE  FabricOK'
  BY <1>3 DEF DeleteUnresolved, At, FabricOK
<1>4. ASSUME NEW w \in Worker, DetectOverlaps(w)
      PROVE  FabricOK'
  BY <1>4 DEF DetectOverlaps, At, FabricOK
<1>5. ASSUME NEW w \in Worker, DetectGaps(w)
      PROVE  FabricOK'
  BY <1>5 DEF DetectGaps, At, FabricOK
<1>6. ASSUME NEW w \in Worker, Report(w)
      PROVE  FabricOK'
  BY <1>6 DEF Report, FabricOK
<1>7. ASSUME NEW w \in Worker, NEW d \in todo[w], FixNext(w, d)
      PROVE  FabricOK'
  BY <1>7 DEF FixNext, At, FabricOK
<1>8. ASSUME NEW s \in Session, ReadKept(s)
      PROVE  FabricOK'
  BY <1>8 DEF ReadKept, At, FabricOK
<1>9. ASSUME NEW w \in Worker, Fixed(w)
      PROVE  FabricOK'
  <2>1. w \in Session /\ pc[w] = "write"
    BY <1>9 DEF Fixed, Write, At, Session
  <2>2. Fix(hand[w].fix, Seen(w, hand[w].fix.target), kept[w]) \subseteq Cell
    BY <2>1, FixIsGround
  <2> QED BY <1>9, <2>1, <2>2 DEF Fixed, Write, FabricOK
<1>10. ASSUME NEW w \in Worker, Commit(w)
      PROVE  FabricOK'
  <2>1. w \in Session /\ Publish(w)
    BY <1>10 DEF Commit, Session
  <2>2. \A f \in Feature : Seen(w, f) \subseteq Cell
    BY <2>1, SeenIsGround
  <2> QED BY <2>1, <2>2 DEF Publish, FabricOK
<1>11. ASSUME NEW s \in Session, Chain(s)
      PROVE  FabricOK'
  BY <1>11 DEF Chain, At, FabricOK
<1>12. ASSUME NEW w \in Worker, Fail(w)
      PROVE  FabricOK'
  BY <1>12 DEF Fail, ClearWorker, Clear, FabricOK, Forget
<1>13. ASSUME NEW o \in Officer, NEW S \in SUBSET issues, Accept(o, S)
      PROVE  FabricOK'
  BY <1>13 DEF Accept, At, Decide, FabricOK
<1>14. ASSUME NEW o \in Officer, NEW i \in issues, Begin(o, i)
      PROVE  FabricOK'
  BY <1>14 DEF Begin, At, FabricOK
<1>15. ASSUME NEW o \in Officer, NEW n \in batch[o], Refuse(o, n)
      PROVE  FabricOK'
  BY <1>15 DEF Refuse, FabricOK
<1>16. ASSUME NEW o \in Officer, Apply(o)
      PROVE  FabricOK'
  <2>1. o \in Session /\ pc[o] = "write"
    BY <1>16 DEF Apply, Write, At, Session
  <2>2. Fix(hand[o].fix, Seen(o, hand[o].fix.target), kept[o]) \subseteq Cell
    BY <2>1, FixIsGround
  <2> QED BY <1>16, <2>1, <2>2 DEF Apply, Write, FabricOK
<1>17. ASSUME NEW o \in Officer, Accepted(o)
      PROVE  FabricOK'
  <2>1. o \in Session /\ Publish(o)
    BY <1>17 DEF Accepted, Session
  <2>2. \A f \in Feature : Seen(o, f) \subseteq Cell
    BY <2>1, SeenIsGround
  <2> QED BY <2>1, <2>2 DEF Publish, FabricOK
<1>18. ASSUME NEW o \in Officer, Answer(o)
      PROVE  FabricOK'
  BY <1>18 DEF Answer, At, FabricOK
<1>19. ASSUME NEW o \in Officer, Abort(o)
      PROVE  FabricOK'
  BY <1>19 DEF Abort, Clear, FabricOK, Forget
<1>22. ASSUME NEW o \in Officer, Throws(o)
      PROVE  FabricOK'
  BY <1>22 DEF Throws, Clear, FabricOK, Forget
<1>20. ASSUME NEW i \in issues, NEW st \in {"open", "ignored"}, SetStatus(i, st)
      PROVE  FabricOK'
  BY <1>20 DEF SetStatus, Decide, FabricOK
<1>21. CASE UNCHANGED vars
  BY <1>21 DEF FabricOK
<1> QED
  BY <1>1, <1>2, <1>3, <1>4, <1>5, <1>6, <1>7, <1>8, <1>9, <1>10, <1>11, <1>12, <1>13, <1>14,
     <1>15, <1>16, <1>17, <1>18, <1>19, <1>20, <1>21, <1>22 DEF Next, FixTopology, Resolve, Ignore,
     Reopen, Session

(* The issues. *)
LEMMA IssuesStep ==
  ASSUME IssuesOK, WorkersOK, SessionsOK, Stations, Numbered, Locking, [Next]_vars
  PROVE  IssuesOK'
<1>1. ASSUME NEW b \in BOOLEAN, Run(b)
      PROVE  IssuesOK'
  BY <1>1 DEF Run, IssuesOK
<1>2. ASSUME NEW w \in Worker, NEW b \in BOOLEAN, Take(w, b)
      PROVE  IssuesOK'
  BY <1>2 DEF Take, At, IssuesOK
<1>3. ASSUME NEW w \in Worker, DeleteUnresolved(w)
      PROVE  IssuesOK'
  BY <1>3 DEF DeleteUnresolved, At, IssuesOK
<1>4. ASSUME NEW w \in Worker, DetectOverlaps(w)
      PROVE  IssuesOK'
  BY <1>4 DEF DetectOverlaps, At, IssuesOK
<1>5. ASSUME NEW w \in Worker, DetectGaps(w)
      PROVE  IssuesOK'
  BY <1>5 DEF DetectGaps, At, IssuesOK
<1>6. ASSUME NEW w \in Worker, Report(w)
      PROVE  IssuesOK'
  <2>1. IsFiniteSet(todo[w])
    BY FindingsAreFinite, FS_Subset DEF WorkersOK
  <2> QED BY <1>6, <2>1, FS_CardinalityType DEF Report, IssuesOK
<1>7. ASSUME NEW w \in Worker, NEW d \in todo[w], FixNext(w, d)
      PROVE  IssuesOK'
  BY <1>7 DEF FixNext, At, IssuesOK
<1>8. ASSUME NEW s \in Session, ReadKept(s)
      PROVE  IssuesOK'
  BY <1>8 DEF ReadKept, At, IssuesOK
<1>9. ASSUME NEW w \in Worker, Fixed(w)
      PROVE  IssuesOK'
  BY <1>9 DEF Fixed, Write, At, IssuesOK
<1>10. ASSUME NEW w \in Worker, Commit(w)
      PROVE  IssuesOK'
  <2>1. found[w] \subseteq Issue
    BY DEF WorkersOK
  <2>2. \A i, k \in found[w] : i.id = k.id => i = k
    BY DEF Numbered, Draft
  <2>3. \A i \in found[w], k \in issues : i.id # k.id
    BY DEF Numbered, Draft
  <2> QED BY <1>10, <2>1, <2>2, <2>3 DEF Commit, IssuesOK
<1>11. ASSUME NEW s \in Session, Chain(s)
      PROVE  IssuesOK'
  BY <1>11 DEF Chain, At, IssuesOK
<1>12. ASSUME NEW w \in Worker, Fail(w)
      PROVE  IssuesOK'
  BY <1>12 DEF Fail, ClearWorker, Clear, IssuesOK
<1>13. ASSUME NEW o \in Officer, NEW S \in SUBSET issues, Accept(o, S)
      PROVE  IssuesOK'
  BY <1>13 DEF Accept, At, Decide, IssuesOK
<1>14. ASSUME NEW o \in Officer, NEW i \in issues, Begin(o, i)
      PROVE  IssuesOK'
  BY <1>14 DEF Begin, At, IssuesOK
<1>15. ASSUME NEW o \in Officer, NEW n \in batch[o], Refuse(o, n)
      PROVE  IssuesOK'
  BY <1>15 DEF Refuse, IssuesOK
<1>16. ASSUME NEW o \in Officer, Apply(o)
      PROVE  IssuesOK'
  BY <1>16 DEF Apply, Write, At, IssuesOK
<1>17. ASSUME NEW o \in Officer, Accepted(o)
      PROVE  IssuesOK'
  <2>1. hand[o] \in issues /\ hand[o] \in Issue
    BY <1>17 DEF Accepted, At, Locking, AtIssue, IssuesOK
  <2> DEFINE a == [hand[o] EXCEPT !.status = "accepted"]
  <2>3. a \in Issue /\ a.id = hand[o].id
    BY <2>1 DEF Issue, Status
  <2>4. issues' = (issues \ {hand[o]}) \cup {a} /\ ids' = ids
    BY <1>17 DEF Accepted
  <2> HIDE DEF a
  <2> QED BY <2>1, <2>3, <2>4 DEF IssuesOK
<1>18. ASSUME NEW o \in Officer, Answer(o)
      PROVE  IssuesOK'
  BY <1>18 DEF Answer, At, IssuesOK
<1>19. ASSUME NEW o \in Officer, Abort(o)
      PROVE  IssuesOK'
  BY <1>19 DEF Abort, Clear, IssuesOK
<1>22. ASSUME NEW o \in Officer, Throws(o)
      PROVE  IssuesOK'
  BY <1>22 DEF Throws, Clear, IssuesOK
<1>20. ASSUME NEW i \in issues, NEW st \in {"open", "ignored"}, SetStatus(i, st)
      PROVE  IssuesOK'
  <2> DEFINE a == [i EXCEPT !.status = st]
  <2>2. a \in Issue /\ a.id = i.id
    BY DEF Issue, Status, IssuesOK
  <2>3. issues' = (issues \ {i}) \cup {a} /\ ids' = ids
    BY <1>20 DEF SetStatus
  <2> HIDE DEF a
  <2> QED BY <2>2, <2>3 DEF IssuesOK
<1>21. CASE UNCHANGED vars
  BY <1>21 DEF IssuesOK
<1> QED
  BY <1>1, <1>2, <1>3, <1>4, <1>5, <1>6, <1>7, <1>8, <1>9, <1>10, <1>11, <1>12, <1>13, <1>14,
     <1>15, <1>16, <1>17, <1>18, <1>19, <1>20, <1>21, <1>22 DEF Next, FixTopology, Resolve, Ignore,
     Reopen, Session

(* The workers. *)
LEMMA WorkersStep ==
  ASSUME FabricOK, IssuesOK, WorkersOK, SessionsOK, Stations, Numbered, [Next]_vars
  PROVE  WorkersOK'
<1>1. ASSUME NEW b \in BOOLEAN, Run(b)
      PROVE  WorkersOK'
  BY <1>1 DEF Run, WorkersOK
<1>2. ASSUME NEW w \in Worker, NEW b \in BOOLEAN, Take(w, b)
      PROVE  WorkersOK'
  BY <1>2 DEF Take, At, WorkersOK
<1>3. ASSUME NEW w \in Worker, DeleteUnresolved(w)
      PROVE  WorkersOK'
  <2>1. \A i \in issues : i.id \in 1 .. ids
    BY DEF Numbered
  <2> QED BY <1>3, <2>1 DEF DeleteUnresolved, Unresolved, WorkersOK
<1>4. ASSUME NEW w \in Worker, DetectOverlaps(w)
      PROVE  WorkersOK'
  <2> DEFINE P == {p \in Feature \X Feature : p[1] # p[2] /\ Smaller(p[1], p[2]) /\ geom[p[1]] \cap geom[p[2]] # {}}
             F(p) == [action |-> "clip_from", target |-> p[1], keep |-> p[2], ground |-> geom[p[1]] \cap geom[p[2]]]
  <2>1. ASSUME NEW p \in P PROVE F(p) \in Finding
    <3>1. p[1] \in Feature /\ p[2] \in Feature
      OBVIOUS
    <3>2. geom[p[1]] \cap geom[p[2]] \subseteq Cell
      BY <3>1 DEF FabricOK
    <3> QED BY <3>1, <3>2 DEF Finding
  <2>2. todo' = [todo EXCEPT ![w] = {F(p) : p \in P}]
    BY <1>4 DEF DetectOverlaps
  <2>3. UNCHANGED <<ids, jobs, auto, gone, found>>
    BY <1>4 DEF DetectOverlaps
  <2> HIDE DEF P, F
  <2>4. {F(p) : p \in P} \subseteq Finding
    BY <2>1
  <2> QED BY <2>2, <2>3, <2>4 DEF WorkersOK
<1>5. ASSUME NEW w \in Worker, DetectGaps(w)
      PROVE  WorkersOK'
  <2>1. PICK n \in [Gap -> Feature] : todo' = [todo EXCEPT ![w] = @ \cup
          {[action |-> "merge_into", target |-> n[c], keep |-> n[c], ground |-> {c}] : c \in Gap}]
    BY <1>5 DEF DetectGaps
  <2>2. UNCHANGED <<ids, jobs, auto, gone, found>>
    BY <1>5 DEF DetectGaps
  <2>3. ASSUME NEW c \in Gap
        PROVE  [action |-> "merge_into", target |-> n[c], keep |-> n[c], ground |-> {c}] \in Finding
    BY DEF Gap, Finding
  <2>4. {[action |-> "merge_into", target |-> n[c], keep |-> n[c], ground |-> {c}] : c \in Gap} \subseteq Finding
    BY <2>3
  <2> QED BY <2>1, <2>2, <2>4 DEF WorkersOK
<1>6. ASSUME NEW w \in Worker, Report(w)
      PROVE  WorkersOK'
  <2> DEFINE d == SetToSeq(todo[w])
             F(n) == [id |-> ids + n, fix |-> d[n], status |-> "open"]
             new == {F(n) : n \in DOMAIN d}
  <2>1. IsFiniteSet(todo[w]) /\ todo[w] \subseteq Finding
    BY FindingsAreFinite, FS_Subset DEF WorkersOK
  <2>2. Cardinality(todo[w]) \in Nat /\ d \in [1 .. Cardinality(todo[w]) -> todo[w]]
    BY <2>1, Numbering
  <2>3. ids \in Nat
    BY DEF IssuesOK
  <2>4. ASSUME NEW n \in DOMAIN d PROVE F(n) \in Issue
    <3>1. n \in 1 .. Cardinality(todo[w]) /\ d[n] \in Finding
      BY <2>1, <2>2
    <3>2. ids + n \in Nat
      BY <3>1, <2>2, <2>3
    <3> QED BY <3>1, <3>2 DEF Issue, Status
  <2>5. found' = [found EXCEPT ![w] = new] /\ todo' = [todo EXCEPT ![w] = {}] /\ ids' = ids + Cardinality(todo[w])
    BY <1>6 DEF Report
  <2>6. UNCHANGED <<jobs, auto, gone>>
    BY <1>6 DEF Report
  <2>7. ids' \in Nat /\ ids <= ids'
    BY <2>2, <2>3, <2>5
  <2>8. new \subseteq Issue
    BY <2>4
  <2>9. \A v \in Worker : gone[v] \subseteq 1 .. ids'
    BY <2>3, <2>7 DEF WorkersOK
  <2> HIDE DEF new
  <2> QED BY <2>5, <2>6, <2>8, <2>9 DEF WorkersOK
<1>7. ASSUME NEW w \in Worker, NEW d \in todo[w], FixNext(w, d)
      PROVE  WorkersOK'
  BY <1>7 DEF FixNext, At, WorkersOK, IssuesOK
<1>8. ASSUME NEW s \in Session, ReadKept(s)
      PROVE  WorkersOK'
  BY <1>8 DEF ReadKept, At, WorkersOK
<1>9. ASSUME NEW w \in Worker, Fixed(w)
      PROVE  WorkersOK'
  <2>1. w \in Session /\ pc[w] = "write"
    BY <1>9 DEF Fixed, Write, At, Session
  <2>2. hand[w] \in Issue
    BY <2>1, FixIsGround
  <2> QED BY <1>9, <2>2 DEF Fixed, WorkersOK
<1>10. ASSUME NEW w \in Worker, Commit(w)
      PROVE  WorkersOK'
  BY <1>10 DEF Commit, At, Clear, WorkersOK
<1>11. ASSUME NEW s \in Session, Chain(s)
      PROVE  WorkersOK'
  BY <1>11 DEF Chain, At, WorkersOK
<1>12. ASSUME NEW w \in Worker, Fail(w)
      PROVE  WorkersOK'
  <2>1. jobs[auto[w]] \in Nat
    BY DEF WorkersOK
  <2> QED BY <1>12, <2>1 DEF Fail, ClearWorker, WorkersOK
<1>13. ASSUME NEW o \in Officer, NEW S \in SUBSET issues, Accept(o, S)
      PROVE  WorkersOK'
  BY <1>13 DEF Accept, At, Decide, WorkersOK
<1>14. ASSUME NEW o \in Officer, NEW i \in issues, Begin(o, i)
      PROVE  WorkersOK'
  BY <1>14 DEF Begin, At, WorkersOK
<1>15. ASSUME NEW o \in Officer, NEW n \in batch[o], Refuse(o, n)
      PROVE  WorkersOK'
  BY <1>15 DEF Refuse, WorkersOK
<1>16. ASSUME NEW o \in Officer, Apply(o)
      PROVE  WorkersOK'
  BY <1>16 DEF Apply, Write, At, WorkersOK
<1>17. ASSUME NEW o \in Officer, Accepted(o)
      PROVE  WorkersOK'
  BY <1>17 DEF Accepted, At, Clear, WorkersOK
<1>18. ASSUME NEW o \in Officer, Answer(o)
      PROVE  WorkersOK'
  BY <1>18 DEF Answer, At, WorkersOK
<1>19. ASSUME NEW o \in Officer, Abort(o)
      PROVE  WorkersOK'
  BY <1>19 DEF Abort, Clear, WorkersOK
<1>22. ASSUME NEW o \in Officer, Throws(o)
      PROVE  WorkersOK'
  BY <1>22 DEF Throws, Clear, WorkersOK
<1>20. ASSUME NEW i \in issues, NEW st \in {"open", "ignored"}, SetStatus(i, st)
      PROVE  WorkersOK'
  BY <1>20 DEF SetStatus, Decide, WorkersOK
<1>21. CASE UNCHANGED vars
  BY <1>21 DEF WorkersOK
<1> QED
  BY <1>1, <1>2, <1>3, <1>4, <1>5, <1>6, <1>7, <1>8, <1>9, <1>10, <1>11, <1>12, <1>13, <1>14,
     <1>15, <1>16, <1>17, <1>18, <1>19, <1>20, <1>21, <1>22 DEF Next, FixTopology, Resolve, Ignore,
     Reopen, Session

(* Where they all stand. *)
LEMMA SessionsStep ==
  ASSUME FabricOK, IssuesOK, WorkersOK, SessionsOK, Stations, Numbered, [Next]_vars
  PROVE  SessionsOK'
<1>1. ASSUME NEW b \in BOOLEAN, Run(b)
      PROVE  SessionsOK'
  BY <1>1 DEF Run, SessionsOK, Deciding, Running, Session
<1>2. ASSUME NEW w \in Worker, NEW b \in BOOLEAN, Take(w, b)
      PROVE  SessionsOK'
  BY <1>2 DEF Take, At, SessionsOK, Deciding, Running, Session
<1>3. ASSUME NEW w \in Worker, DeleteUnresolved(w)
      PROVE  SessionsOK'
  BY <1>3 DEF DeleteUnresolved, At, SessionsOK, Deciding, Running, Session
<1>4. ASSUME NEW w \in Worker, DetectOverlaps(w)
      PROVE  SessionsOK'
  BY <1>4 DEF DetectOverlaps, At, SessionsOK, Deciding, Running, Session
<1>5. ASSUME NEW w \in Worker, DetectGaps(w)
      PROVE  SessionsOK'
  BY <1>5 DEF DetectGaps, At, SessionsOK, Deciding, Running, Session
<1>6. ASSUME NEW w \in Worker, Report(w)
      PROVE  SessionsOK'
  <2>1. IsFiniteSet(todo[w])
    BY FindingsAreFinite, FS_Subset DEF WorkersOK
  <2>2. Cardinality(todo[w]) \in Nat /\ ids \in Nat
    BY <2>1, FS_CardinalityType DEF IssuesOK
  <2>3. ids' \in Nat /\ ids <= ids'
    BY <1>6, <2>2 DEF Report
  <2>4. \A p \in Officer : batch[p] \subseteq 1 .. ids'
    BY <2>2, <2>3 DEF SessionsOK
  <2> QED BY <1>6, <2>4 DEF Report, SessionsOK
<1>7. ASSUME NEW w \in Worker, NEW d \in todo[w], FixNext(w, d)
      PROVE  SessionsOK'
  <2>1. ids \in Nat /\ ids' = ids + 1 /\ d \in Finding
    BY <1>7 DEF FixNext, IssuesOK, WorkersOK
  <2>2. [id |-> ids + 1, fix |-> d, status |-> "auto_fixed"] \in Issue
    BY <2>1 DEF Issue, Status
  <2>3. \A p \in Officer : batch[p] \subseteq 1 .. ids'
    BY <2>1 DEF SessionsOK
  <2> QED BY <1>7, <2>2, <2>3 DEF FixNext, At, SessionsOK, Running, Session
<1>8. ASSUME NEW s \in Session, ReadKept(s)
      PROVE  SessionsOK'
  <2>1. hand[s].fix.keep \in Feature
    BY <1>8 DEF ReadKept, At, Stations, AtIssue, Issue, Finding
  <2>2. Seen(s, hand[s].fix.keep) \subseteq Cell
    BY <2>1, SeenIsGround
  <2> QED BY <1>8, <2>2 DEF ReadKept, At, SessionsOK, Deciding
<1>9. ASSUME NEW w \in Worker, Fixed(w)
      PROVE  SessionsOK'
  BY <1>9 DEF Fixed, Write, At, SessionsOK, Deciding, Running, Session
<1>10. ASSUME NEW w \in Worker, Commit(w)
      PROVE  SessionsOK'
  BY <1>10 DEF Commit, At, Clear, SessionsOK, Deciding, Running, Session
<1>11. ASSUME NEW s \in Session, Chain(s)
      PROVE  SessionsOK'
  BY <1>11 DEF Chain, At, SessionsOK, Deciding, Running, Session
<1>12. ASSUME NEW w \in Worker, Fail(w)
      PROVE  SessionsOK'
  BY <1>12 DEF Fail, ClearWorker, Clear, SessionsOK, Deciding, Running, Session
<1>13. ASSUME NEW o \in Officer, NEW S \in SUBSET issues, Accept(o, S)
      PROVE  SessionsOK'
  BY <1>13 DEF Accept, At, Decide, SessionsOK, Deciding, Running, Session, Numbered
<1>14. ASSUME NEW o \in Officer, NEW i \in issues, Begin(o, i)
      PROVE  SessionsOK'
  BY <1>14 DEF Begin, At, SessionsOK, Deciding, Running, Session, IssuesOK, Numbered
<1>15. ASSUME NEW o \in Officer, NEW n \in batch[o], Refuse(o, n)
      PROVE  SessionsOK'
  BY <1>15 DEF Refuse, SessionsOK, Deciding, Running, Session
<1>16. ASSUME NEW o \in Officer, Apply(o)
      PROVE  SessionsOK'
  BY <1>16 DEF Apply, Write, At, SessionsOK, Deciding, Running, Session
<1>17. ASSUME NEW o \in Officer, Accepted(o)
      PROVE  SessionsOK'
  BY <1>17 DEF Accepted, At, Clear, SessionsOK, Deciding, Running, Session
<1>18. ASSUME NEW o \in Officer, Answer(o)
      PROVE  SessionsOK'
  BY <1>18 DEF Answer, At, SessionsOK, Deciding, Running, Session
<1>19. ASSUME NEW o \in Officer, Abort(o)
      PROVE  SessionsOK'
  BY <1>19 DEF Abort, Clear, SessionsOK, Deciding, Running, Session
<1>22. ASSUME NEW o \in Officer, Throws(o)
      PROVE  SessionsOK'
  BY <1>22 DEF Throws, Clear, SessionsOK, Deciding, Running, Session
<1>20. ASSUME NEW i \in issues, NEW st \in {"open", "ignored"}, SetStatus(i, st)
      PROVE  SessionsOK'
  BY <1>20 DEF SetStatus, Decide, SessionsOK, Deciding, Running, Session
<1>21. CASE UNCHANGED vars
  BY <1>21 DEF SessionsOK, Deciding, Running, Session
<1> QED
  BY <1>1, <1>2, <1>3, <1>4, <1>5, <1>6, <1>7, <1>8, <1>9, <1>10, <1>11, <1>12, <1>13, <1>14,
     <1>15, <1>16, <1>17, <1>18, <1>19, <1>20, <1>21, <1>22 DEF Next, FixTopology, Resolve, Ignore,
     Reopen, Session

(* The history. *)
LEMMA HistoryStep ==
  ASSUME FabricOK, IssuesOK, WorkersOK, SessionsOK, HistoryOK, Stations, Numbered, [Next]_vars
  PROVE  HistoryOK'
<1>1. ASSUME NEW b \in BOOLEAN, Run(b)
      PROVE  HistoryOK'
  BY <1>1 DEF Run, HistoryOK
<1>2. ASSUME NEW w \in Worker, NEW b \in BOOLEAN, Take(w, b)
      PROVE  HistoryOK'
  BY <1>2 DEF Take, At, HistoryOK
<1>3. ASSUME NEW w \in Worker, DeleteUnresolved(w)
      PROVE  HistoryOK'
  BY <1>3 DEF DeleteUnresolved, At, HistoryOK
<1>4. ASSUME NEW w \in Worker, DetectOverlaps(w)
      PROVE  HistoryOK'
  BY <1>4 DEF DetectOverlaps, At, HistoryOK
<1>5. ASSUME NEW w \in Worker, DetectGaps(w)
      PROVE  HistoryOK'
  BY <1>5 DEF DetectGaps, At, HistoryOK
<1>6. ASSUME NEW w \in Worker, Report(w)
      PROVE  HistoryOK'
  <2>1. IsFiniteSet(todo[w])
    BY FindingsAreFinite, FS_Subset DEF WorkersOK
  <2>2. Cardinality(todo[w]) \in Nat /\ ids \in Nat
    BY <2>1, FS_CardinalityType DEF IssuesOK
  <2>3. ids' \in Nat /\ ids <= ids'
    BY <1>6, <2>2 DEF Report
  <2> QED BY <1>6, <2>2, <2>3 DEF Report, HistoryOK
<1>7. ASSUME NEW w \in Worker, NEW d \in todo[w], FixNext(w, d)
      PROVE  HistoryOK'
  BY <1>7 DEF FixNext, At, HistoryOK, IssuesOK
<1>8. ASSUME NEW s \in Session, ReadKept(s)
      PROVE  HistoryOK'
  BY <1>8 DEF ReadKept, At, HistoryOK
<1>9. ASSUME NEW w \in Worker, Fixed(w)
      PROVE  HistoryOK'
  BY <1>9 DEF Fixed, Write, At, HistoryOK
<1>10. ASSUME NEW w \in Worker, Commit(w)
      PROVE  HistoryOK'
  <2>1. Publish(w) /\ ids' = ids
    BY <1>10 DEF Commit
  <2>2. filled' \in [Cell -> 0 .. ids']
    BY <2>1 DEF Publish, HistoryOK, IssuesOK
  <2>3. disturbed' \in [Worker -> BOOLEAN]
    BY <2>1 DEF Publish, HistoryOK
  <2>4. fixed[w] \in BOOLEAN
    BY DEF SessionsOK, Session
  <2>6. \A i \in found[w] : i.id \in 1 .. ids
    BY DEF Numbered, Draft
  <2>7. applied' = applied \cup {i.id : i \in {i \in found[w] : i.status = "auto_fixed"}}
    BY <1>10 DEF Commit
  <2>8. applied' \subseteq 1 .. ids'
    BY <2>1, <2>6, <2>7 DEF HistoryOK
  <2> QED BY <1>10, <2>1, <2>2, <2>3, <2>4, <2>8 DEF Commit, HistoryOK
<1>11. ASSUME NEW s \in Session, Chain(s)
      PROVE  HistoryOK'
  BY <1>11 DEF Chain, At, HistoryOK
<1>12. ASSUME NEW w \in Worker, Fail(w)
      PROVE  HistoryOK'
  BY <1>12 DEF Fail, ClearWorker, Clear, HistoryOK
<1>13. ASSUME NEW o \in Officer, NEW S \in SUBSET issues, Accept(o, S)
      PROVE  HistoryOK'
  BY <1>13 DEF Accept, At, Decide, HistoryOK
<1>14. ASSUME NEW o \in Officer, NEW i \in issues, Begin(o, i)
      PROVE  HistoryOK'
  BY <1>14 DEF Begin, At, HistoryOK
<1>15. ASSUME NEW o \in Officer, NEW n \in batch[o], Refuse(o, n)
      PROVE  HistoryOK'
  BY <1>15 DEF Refuse, HistoryOK
<1>16. ASSUME NEW o \in Officer, Apply(o)
      PROVE  HistoryOK'
  BY <1>16 DEF Apply, Write, At, HistoryOK
<1>17. ASSUME NEW o \in Officer, Accepted(o)
      PROVE  HistoryOK'
  <2>1. Publish(o) /\ ids' = ids
    BY <1>17 DEF Accepted
  <2>2. filled' \in [Cell -> 0 .. ids']
    BY <2>1 DEF Publish, HistoryOK, IssuesOK
  <2>3. disturbed' \in [Worker -> BOOLEAN]
    BY <2>1 DEF Publish, HistoryOK
  <2>4. hand[o].id \in 1 .. ids
    BY <1>17 DEF Accepted, At, Stations, AtIssue, Session
  <2> QED BY <1>17, <2>1, <2>2, <2>3, <2>4 DEF Accepted, HistoryOK
<1>18. ASSUME NEW o \in Officer, Answer(o)
      PROVE  HistoryOK'
  BY <1>18 DEF Answer, At, HistoryOK
<1>19. ASSUME NEW o \in Officer, Abort(o)
      PROVE  HistoryOK'
  BY <1>19 DEF Abort, Clear, HistoryOK, SessionsOK, Session
<1>22. ASSUME NEW o \in Officer, Throws(o)
      PROVE  HistoryOK'
  BY <1>22 DEF Throws, Clear, HistoryOK, SessionsOK, Session
<1>20. ASSUME NEW i \in issues, NEW st \in {"open", "ignored"}, SetStatus(i, st)
      PROVE  HistoryOK'
  BY <1>20 DEF SetStatus, Decide, HistoryOK
<1>21. CASE UNCHANGED vars
  BY <1>21 DEF HistoryOK
<1> QED
  BY <1>1, <1>2, <1>3, <1>4, <1>5, <1>6, <1>7, <1>8, <1>9, <1>10, <1>11, <1>12, <1>13, <1>14,
     <1>15, <1>16, <1>17, <1>18, <1>19, <1>20, <1>21, <1>22 DEF Next, FixTopology, Resolve, Ignore,
     Reopen, Session

(* Who stands where. *)
LEMMA StationsStep ==
  ASSUME FabricOK, IssuesOK, WorkersOK, SessionsOK, Stations, Numbered, Locking, [Next]_vars
  PROVE  Stations'
<1>1. ASSUME NEW b \in BOOLEAN, Run(b)
      PROVE  Stations'
  BY <1>1 DEF Run, Stations, AtIssue, Deciding, Running, Session, SessionsOK
<1>2. ASSUME NEW w \in Worker, NEW b \in BOOLEAN, Take(w, b)
      PROVE  Stations'
  BY <1>2 DEF Take, At, Stations, AtIssue, Deciding, Running, Session, SessionsOK, WorkersOK
<1>3. ASSUME NEW w \in Worker, DeleteUnresolved(w)
      PROVE  Stations'
  BY <1>3 DEF DeleteUnresolved, At, Stations, AtIssue, Deciding, Running, Session, SessionsOK
<1>4. ASSUME NEW w \in Worker, DetectOverlaps(w)
      PROVE  Stations'
  BY <1>4 DEF DetectOverlaps, At, Stations, AtIssue, Deciding, Running, Session, SessionsOK
<1>5. ASSUME NEW w \in Worker, DetectGaps(w)
      PROVE  Stations'
  BY <1>5 DEF DetectGaps, At, Stations, AtIssue, Deciding, Running, Session, SessionsOK
<1>6. ASSUME NEW w \in Worker, Report(w)
      PROVE  Stations'
  <2>1. IsFiniteSet(todo[w])
    BY FindingsAreFinite, FS_Subset DEF WorkersOK
  <2>2. Cardinality(todo[w]) \in Nat /\ ids \in Nat
    BY <2>1, FS_CardinalityType DEF IssuesOK
  <2>3. ids' \in Nat /\ ids <= ids'
    BY <1>6, <2>2 DEF Report
  <2>4. found' = [found EXCEPT ![w] = {[id |-> ids + n, fix |-> SetToSeq(todo[w])[n], status |-> "open"] :
                                         n \in DOMAIN SetToSeq(todo[w])}]
    BY <1>6 DEF Report
  <2>5. \A i \in found'[w] : i.status = "open"
    BY <2>4 DEF WorkersOK
  <2>6. \A v \in Worker \ {w} : found'[v] = found[v]
    BY <2>4 DEF WorkersOK
  <2>7. pc[w] = "loop" /\ ~ auto[w] /\ UNCHANGED <<pc, hand, auto>>
    BY <1>6 DEF Report
  <2>8. 1 .. ids \subseteq 1 .. ids'
    BY <2>2, <2>3
  <2> HIDE DEF Report
  <2> QED BY <2>5, <2>6, <2>7, <2>8 DEF Stations, AtIssue
<1>7. ASSUME NEW w \in Worker, NEW d \in todo[w], FixNext(w, d)
      PROVE  Stations'
  <2>1. ids \in Nat /\ ids' = ids + 1 /\ d \in Finding
    BY <1>7 DEF FixNext, IssuesOK, WorkersOK
  <2>2. [id |-> ids + 1, fix |-> d, status |-> "auto_fixed"] \in Issue
    BY <2>1 DEF Issue, Status
  <2>3. 1 .. ids \subseteq 1 .. ids' /\ ids + 1 \in 1 .. ids'
    BY <2>1
  <2>4. hand' = [hand EXCEPT ![w] = [id |-> ids + 1, fix |-> d, status |-> "auto_fixed"]]
    BY <1>7 DEF FixNext
  <2>5. pc[w] = "loop" /\ pc' = [pc EXCEPT ![w] = "read"] /\ auto[w] /\ UNCHANGED <<auto, found>>
    BY <1>7 DEF FixNext, At
  <2> QED BY <2>2, <2>3, <2>4, <2>5 DEF Stations, AtIssue, Running, Session, SessionsOK
<1>8. ASSUME NEW s \in Session, ReadKept(s)
      PROVE  Stations'
  BY <1>8 DEF ReadKept, At, Stations, AtIssue, Deciding, Running, Session, SessionsOK
<1>9. ASSUME NEW w \in Worker, Fixed(w)
      PROVE  Stations'
  BY <1>9 DEF Fixed, Write, At, Stations, AtIssue, Deciding, Running, Session, SessionsOK,
     WorkersOK
<1>10. ASSUME NEW w \in Worker, Commit(w)
      PROVE  Stations'
  BY <1>10 DEF Commit, At, Clear, Stations, AtIssue, Deciding, Running, Session, SessionsOK,
     WorkersOK
<1>11. ASSUME NEW s \in Session, Chain(s)
      PROVE  Stations'
  BY <1>11 DEF Chain, At, Stations, AtIssue, Deciding, Running, Session, SessionsOK
<1>12. ASSUME NEW w \in Worker, Fail(w)
      PROVE  Stations'
  BY <1>12 DEF Fail, ClearWorker, Clear, Stations, AtIssue, Deciding, Running, Session,
     SessionsOK, WorkersOK
<1>13. ASSUME NEW o \in Officer, NEW S \in SUBSET issues, Accept(o, S)
      PROVE  Stations'
  BY <1>13 DEF Accept, At, Decide, Stations, AtIssue, Deciding, Running, Session, SessionsOK
<1>14. ASSUME NEW o \in Officer, NEW i \in issues, Begin(o, i)
      PROVE  Stations'
  BY <1>14 DEF Begin, At, Stations, AtIssue, Deciding, Running, Session, SessionsOK, IssuesOK,
     Numbered
<1>15. ASSUME NEW o \in Officer, NEW n \in batch[o], Refuse(o, n)
      PROVE  Stations'
  BY <1>15 DEF Refuse, Stations, AtIssue, Deciding, Running, Session, SessionsOK
<1>16. ASSUME NEW o \in Officer, Apply(o)
      PROVE  Stations'
  BY <1>16 DEF Apply, Write, At, Stations, AtIssue, Deciding, Running, Session, SessionsOK
<1>17. ASSUME NEW o \in Officer, Accepted(o)
      PROVE  Stations'
  BY <1>17 DEF Accepted, At, Clear, Stations, AtIssue, Deciding, Running, Session, SessionsOK
<1>18. ASSUME NEW o \in Officer, Answer(o)
      PROVE  Stations'
  BY <1>18 DEF Answer, At, Stations, AtIssue, Deciding, Running, Session, SessionsOK
<1>19. ASSUME NEW o \in Officer, Abort(o)
      PROVE  Stations'
  BY <1>19 DEF Abort, Clear, Stations, AtIssue, Deciding, Running, Session, SessionsOK
<1>22. ASSUME NEW o \in Officer, Throws(o)
      PROVE  Stations'
  BY <1>22 DEF Throws, Clear, Stations, AtIssue, Deciding, Running, Session, SessionsOK
<1>20. ASSUME NEW i \in issues, NEW st \in {"open", "ignored"}, SetStatus(i, st)
      PROVE  Stations'
  BY <1>20 DEF SetStatus, Decide, Stations, AtIssue, Deciding, Running, Session, SessionsOK
<1>21. CASE UNCHANGED vars
  BY <1>21 DEF Stations, AtIssue, Deciding, Running, Session, SessionsOK
<1> QED
  BY <1>1, <1>2, <1>3, <1>4, <1>5, <1>6, <1>7, <1>8, <1>9, <1>10, <1>11, <1>12, <1>13, <1>14,
     <1>15, <1>16, <1>17, <1>18, <1>19, <1>20, <1>21, <1>22 DEF Next, FixTopology, Resolve, Ignore,
     Reopen, Session

(* Whose ids are whose. *)
LEMMA NumberedStep ==
  ASSUME FabricOK, IssuesOK, WorkersOK, SessionsOK, Stations, Numbered, Locking, [Next]_vars
  PROVE  Numbered'
<1>1. ASSUME NEW b \in BOOLEAN, Run(b)
      PROVE  Numbered'
  <2>1. \A v \in Worker : Draft(v)' = Draft(v)
    BY <1>1 DEF Run, Draft, Session, SessionsOK
  <2> QED BY <1>1, <2>1 DEF Run, Numbered
<1>2. ASSUME NEW w \in Worker, NEW b \in BOOLEAN, Take(w, b)
      PROVE  Numbered'
  <2>1. \A v \in Worker : Draft(v)' = Draft(v)
    BY <1>2 DEF Take, At, Draft, Session, SessionsOK
  <2> QED BY <1>2, <2>1 DEF Take, At, Numbered
<1>3. ASSUME NEW w \in Worker, DeleteUnresolved(w)
      PROVE  Numbered'
  <2>1. \A v \in Worker : Draft(v)' = Draft(v)
    BY <1>3 DEF DeleteUnresolved, At, Draft, Session, SessionsOK
  <2> QED BY <1>3, <2>1 DEF DeleteUnresolved, At, Numbered
<1>4. ASSUME NEW w \in Worker, DetectOverlaps(w)
      PROVE  Numbered'
  <2>1. \A v \in Worker : Draft(v)' = Draft(v)
    BY <1>4 DEF DetectOverlaps, At, Draft, Session, SessionsOK
  <2> QED BY <1>4, <2>1 DEF DetectOverlaps, At, Numbered
<1>5. ASSUME NEW w \in Worker, DetectGaps(w)
      PROVE  Numbered'
  <2>1. \A v \in Worker : Draft(v)' = Draft(v)
    BY <1>5 DEF DetectGaps, At, Draft, Session, SessionsOK
  <2> QED BY <1>5, <2>1 DEF DetectGaps, At, Numbered
<1>6. ASSUME NEW w \in Worker, Report(w)
      PROVE  Numbered'
  <2> DEFINE F(n) == [id |-> ids + n, fix |-> SetToSeq(todo[w])[n], status |-> "open"]
             new == {F(n) : n \in DOMAIN SetToSeq(todo[w])}
  <2>1. IsFiniteSet(todo[w])
    BY FindingsAreFinite, FS_Subset DEF WorkersOK
  <2>2. Cardinality(todo[w]) \in Nat /\ ids \in Nat /\ DOMAIN SetToSeq(todo[w]) = 1 .. Cardinality(todo[w])
    BY <2>1, Numbering DEF IssuesOK
  <2>3. ids' = ids + Cardinality(todo[w]) /\ UNCHANGED <<issues, pc, hand>> /\ pc[w] = "loop"
    BY <1>6 DEF Report
  <2>4. found' = [found EXCEPT ![w] = new]
    BY <1>6 DEF Report
  <2>5. Draft(w)' = new
    BY <2>3, <2>4 DEF Draft, WorkersOK
  <2>6. \A v \in Worker \ {w} : Draft(v)' = Draft(v)
    BY <2>3, <2>4 DEF Draft, WorkersOK
  <2>7. 1 .. ids \subseteq 1 .. ids'
    BY <2>2, <2>3
  <2>8. \A i \in new : i.id \in 1 .. ids' /\ i.id \notin 1 .. ids
    <3> SUFFICES ASSUME NEW n \in DOMAIN SetToSeq(todo[w]) PROVE F(n).id \in 1 .. ids' /\ F(n).id \notin 1 .. ids
      OBVIOUS
    <3>1. F(n).id = ids + n /\ n \in 1 .. Cardinality(todo[w])
      BY <2>2
    <3> QED BY <2>2, <2>3, <3>1
  <2>9. \A i, k \in new : i.id = k.id => i = k
    <3> SUFFICES ASSUME NEW n \in DOMAIN SetToSeq(todo[w]), NEW m \in DOMAIN SetToSeq(todo[w]), F(n).id = F(m).id
                 PROVE  F(n) = F(m)
      OBVIOUS
    <3>1. ids + n = ids + m /\ n \in Nat /\ m \in Nat
      BY <2>2
    <3>2. n = m
      BY <2>2, <3>1
    <3> QED BY <3>2
  <2>10. /\ \A i \in issues : i.id \in 1 .. ids
         /\ \A v \in Worker : \A i \in Draft(v) : i.id \in 1 .. ids
    BY DEF Numbered
  <2> HIDE DEF new
  <2> QED BY <2>3, <2>5, <2>6, <2>7, <2>8, <2>9, <2>10 DEF Numbered
<1>7. ASSUME NEW w \in Worker, NEW d \in todo[w], FixNext(w, d)
      PROVE  Numbered'
  <2> DEFINE new == [id |-> ids + 1, fix |-> d, status |-> "auto_fixed"]
  <2>1. ids \in Nat /\ ids' = ids + 1 /\ new.id = ids + 1
    BY <1>7 DEF FixNext, IssuesOK
  <2>2. Draft(w)' = Draft(w) \cup {new} /\ \A v \in Worker \ {w} : Draft(v)' = Draft(v)
    BY <1>7 DEF FixNext, At, Draft, Session, SessionsOK
  <2>3. UNCHANGED issues
    BY <1>7 DEF FixNext
  <2>4. /\ \A i \in issues : i.id \in 1 .. ids
        /\ \A v \in Worker : \A i \in Draft(v) : i.id \in 1 .. ids
    BY DEF Numbered
  <2>5. 1 .. ids \subseteq 1 .. ids' /\ new.id \in 1 .. ids' /\ new.id \notin 1 .. ids
    BY <2>1
  <2> HIDE DEF new
  <2> QED BY <2>2, <2>3, <2>4, <2>5 DEF Numbered
<1>8. ASSUME NEW s \in Session, ReadKept(s)
      PROVE  Numbered'
  <2>1. \A v \in Worker : Draft(v)' = Draft(v)
    BY <1>8 DEF ReadKept, At, Draft, Session, SessionsOK
  <2> QED BY <1>8, <2>1 DEF ReadKept, At, Numbered
<1>9. ASSUME NEW w \in Worker, Fixed(w)
      PROVE  Numbered'
  <2>1. Draft(w)' = Draft(w) /\ \A v \in Worker \ {w} : Draft(v)' = Draft(v)
    BY <1>9 DEF Fixed, Write, At, Draft, Session, SessionsOK, WorkersOK
  <2>2. UNCHANGED <<issues, ids>>
    BY <1>9 DEF Fixed
  <2> QED BY <2>1, <2>2 DEF Numbered
<1>10. ASSUME NEW w \in Worker, Commit(w)
      PROVE  Numbered'
  <2>1. Draft(w)' = {} /\ \A v \in Worker \ {w} : Draft(v)' = Draft(v)
    BY <1>10 DEF Commit, At, Clear, Draft, Session, SessionsOK, WorkersOK
  <2>2. Draft(w) = found[w]
    BY <1>10 DEF Commit, At, Draft
  <2>3. issues' \subseteq issues \cup found[w] /\ ids' = ids
    BY <1>10 DEF Commit
  <2> QED BY <2>1, <2>2, <2>3 DEF Numbered
<1>11. ASSUME NEW s \in Session, Chain(s)
      PROVE  Numbered'
  <2>1. \A v \in Worker : Draft(v)' = Draft(v)
    BY <1>11 DEF Chain, At, Draft, Session, SessionsOK
  <2> QED BY <1>11, <2>1 DEF Chain, At, Numbered
<1>12. ASSUME NEW w \in Worker, Fail(w)
      PROVE  Numbered'
  <2>1. Draft(w)' \subseteq Draft(w) /\ \A v \in Worker \ {w} : Draft(v)' = Draft(v)
    BY <1>12 DEF Fail, ClearWorker, Clear, Draft, Session, SessionsOK, WorkersOK
  <2>2. UNCHANGED <<issues, ids>>
    BY <1>12 DEF Fail
  <2> QED BY <2>1, <2>2 DEF Numbered
<1>13. ASSUME NEW o \in Officer, NEW S \in SUBSET issues, Accept(o, S)
      PROVE  Numbered'
  <2>1. \A v \in Worker : Draft(v)' = Draft(v)
    BY <1>13 DEF Accept, At, Decide, Draft, Session, SessionsOK
  <2> QED BY <1>13, <2>1 DEF Accept, At, Decide, Numbered
<1>14. ASSUME NEW o \in Officer, NEW i \in issues, Begin(o, i)
      PROVE  Numbered'
  <2>1. \A v \in Worker : Draft(v)' = Draft(v)
    BY <1>14 DEF Begin, At, Draft, Session, SessionsOK
  <2> QED BY <1>14, <2>1 DEF Begin, At, Numbered
<1>15. ASSUME NEW o \in Officer, NEW n \in batch[o], Refuse(o, n)
      PROVE  Numbered'
  <2>1. \A v \in Worker : Draft(v)' = Draft(v)
    BY <1>15 DEF Refuse, Draft, Session, SessionsOK
  <2> QED BY <1>15, <2>1 DEF Refuse, Numbered
<1>16. ASSUME NEW o \in Officer, Apply(o)
      PROVE  Numbered'
  <2>1. \A v \in Worker : Draft(v)' = Draft(v)
    BY <1>16 DEF Apply, Write, At, Draft, Session, SessionsOK
  <2> QED BY <1>16, <2>1 DEF Apply, Write, At, Numbered
<1>17. ASSUME NEW o \in Officer, Accepted(o)
      PROVE  Numbered'
  <2>1. \A v \in Worker : Draft(v)' = Draft(v)
    BY <1>17 DEF Accepted, At, Clear, Draft, Session, SessionsOK
  <2>2. hand[o] \in issues /\ hand[o] \in Issue
    BY <1>17 DEF Accepted, At, Locking, AtIssue, IssuesOK
  <2> DEFINE a == [hand[o] EXCEPT !.status = "accepted"]
  <2>3. a.id = hand[o].id
    BY <2>2 DEF Issue
  <2>4. issues' = (issues \ {hand[o]}) \cup {a} /\ ids' = ids
    BY <1>17 DEF Accepted
  <2> HIDE DEF a
  <2> QED BY <2>1, <2>2, <2>3, <2>4 DEF Numbered
<1>18. ASSUME NEW o \in Officer, Answer(o)
      PROVE  Numbered'
  <2>1. \A v \in Worker : Draft(v)' = Draft(v)
    BY <1>18 DEF Answer, At, Draft, Session, SessionsOK
  <2> QED BY <1>18, <2>1 DEF Answer, At, Numbered
<1>19. ASSUME NEW o \in Officer, Abort(o)
      PROVE  Numbered'
  <2>1. \A v \in Worker : Draft(v)' = Draft(v)
    BY <1>19 DEF Abort, Clear, Draft, Session, SessionsOK
  <2> QED BY <1>19, <2>1 DEF Abort, Clear, Numbered
<1>22. ASSUME NEW o \in Officer, Throws(o)
      PROVE  Numbered'
  <2>1. \A v \in Worker : Draft(v)' = Draft(v)
    BY <1>22 DEF Throws, Clear, Draft, Session, SessionsOK
  <2> QED BY <1>22, <2>1 DEF Throws, Clear, Numbered
<1>20. ASSUME NEW i \in issues, NEW st \in {"open", "ignored"}, SetStatus(i, st)
      PROVE  Numbered'
  <2>1. \A v \in Worker : Draft(v)' = Draft(v)
    BY <1>20 DEF SetStatus, Draft
  <2> DEFINE a == [i EXCEPT !.status = st]
  <2>2. a.id = i.id
    BY DEF Issue, IssuesOK
  <2>3. issues' = (issues \ {i}) \cup {a} /\ ids' = ids
    BY <1>20 DEF SetStatus
  <2> HIDE DEF a
  <2> QED BY <2>1, <2>2, <2>3 DEF Numbered
<1>21. CASE UNCHANGED vars
  BY <1>21 DEF Numbered, Draft
<1> QED
  BY <1>1, <1>2, <1>3, <1>4, <1>5, <1>6, <1>7, <1>8, <1>9, <1>10, <1>11, <1>12, <1>13, <1>14,
     <1>15, <1>16, <1>17, <1>18, <1>19, <1>20, <1>21, <1>22 DEF Next, FixTopology, Resolve, Ignore,
     Reopen, Session


(* The issues that officers are at, and those that workers have deleted, are *)
(* locked for everybody else.                                                *)
LEMMA LockedForOthers ==
  ASSUME NEW s
  PROVE  /\ \A p \in Officer : p # s /\ pc[p] \in AtIssue => hand[p].id \in Locked(s)
         /\ \A w \in Worker : w # s => gone[w] \subseteq Locked(s)
<1>1. ASSUME NEW p \in Officer, p # s, pc[p] \in AtIssue PROVE hand[p].id \in Locked(s)
  BY <1>1 DEF Locked, AtIssue
<1>2. ASSUME NEW w \in Worker, w # s PROVE gone[w] \subseteq Locked(s)
  BY <1>2 DEF Locked
<1> QED BY <1>1, <1>2

(* What officers have locked. *)
LEMMA LockingStep ==
  ASSUME FabricOK, IssuesOK, WorkersOK, SessionsOK, Stations, Numbered, Locking, [Next]_vars
  PROVE  Locking'
<1>1. ASSUME NEW b \in BOOLEAN, Run(b)
      PROVE  Locking'
  BY <1>1 DEF Run, Locking, AtIssue, Session
<1>2. ASSUME NEW w \in Worker, NEW b \in BOOLEAN, Take(w, b)
      PROVE  Locking'
  BY <1>2 DEF Take, At, Locking, AtIssue, Session
<1>3. ASSUME NEW w \in Worker, DeleteUnresolved(w)
      PROVE  Locking'
  <2>1. \A p \in Officer : pc[p] \in AtIssue => hand[p].id \in Locked(w)
    BY LockedForOthers
  <2>2. \A p \in Officer : pc[p] \in AtIssue => hand[p].id \notin {i.id : i \in Unresolved}
    BY <1>3, <2>1 DEF DeleteUnresolved
  <2>3. \A p \in Officer : pc'[p] = pc[p]
    BY <1>3 DEF DeleteUnresolved, At, Session
  <2>4. \A v \in Worker : gone'[v] \in {gone[v], {i.id : i \in Unresolved}}
    BY <1>3 DEF DeleteUnresolved, WorkersOK
  <2>5. UNCHANGED <<issues, hand>>
    BY <1>3 DEF DeleteUnresolved
  <2> QED BY <2>2, <2>3, <2>4, <2>5 DEF Locking
<1>4. ASSUME NEW w \in Worker, DetectOverlaps(w)
      PROVE  Locking'
  BY <1>4 DEF DetectOverlaps, At, Locking, AtIssue, Session
<1>5. ASSUME NEW w \in Worker, DetectGaps(w)
      PROVE  Locking'
  BY <1>5 DEF DetectGaps, At, Locking, AtIssue, Session
<1>6. ASSUME NEW w \in Worker, Report(w)
      PROVE  Locking'
  BY <1>6 DEF Report, Locking, AtIssue, Session
<1>7. ASSUME NEW w \in Worker, NEW d \in todo[w], FixNext(w, d)
      PROVE  Locking'
  BY <1>7 DEF FixNext, At, Locking, AtIssue, Session, WorkersOK
<1>8. ASSUME NEW s \in Session, ReadKept(s)
      PROVE  Locking'
  BY <1>8 DEF ReadKept, At, Locking, AtIssue, Session, SessionsOK
<1>9. ASSUME NEW w \in Worker, Fixed(w)
      PROVE  Locking'
  BY <1>9 DEF Fixed, Write, At, Locking, AtIssue, Session, WorkersOK
<1>10. ASSUME NEW w \in Worker, Commit(w)
      PROVE  Locking'
  <2>1. \A p \in Officer : pc'[p] = pc[p] /\ hand'[p] = hand[p]
    BY <1>10 DEF Commit, At, Clear, Session, SessionsOK
  <2>2. \A v \in Worker : gone'[v] \subseteq gone[v]
    BY <1>10 DEF Commit, WorkersOK
  <2>3. issues' = {i \in issues : i.id \notin gone[w]} \cup found[w]
    BY <1>10 DEF Commit
  <2>4. \A p \in Officer : pc[p] \in AtIssue => hand[p] \in issues'
    BY <2>3 DEF Locking
  <2> QED BY <2>1, <2>2, <2>4 DEF Locking
<1>11. ASSUME NEW s \in Session, Chain(s)
      PROVE  Locking'
  BY <1>11 DEF Chain, At, Locking, AtIssue, Session, SessionsOK
<1>12. ASSUME NEW w \in Worker, Fail(w)
      PROVE  Locking'
  <2>1. \A p \in Officer : pc'[p] = pc[p] /\ hand'[p] = hand[p]
    BY <1>12 DEF Fail, ClearWorker, Clear, Session, SessionsOK
  <2>2. \A v \in Worker : gone'[v] \subseteq gone[v]
    BY <1>12 DEF Fail, ClearWorker, WorkersOK
  <2>3. UNCHANGED issues
    BY <1>12 DEF Fail
  <2> QED BY <2>1, <2>2, <2>3 DEF Locking
<1>13. ASSUME NEW o \in Officer, NEW S \in SUBSET issues, Accept(o, S)
      PROVE  Locking'
  BY <1>13 DEF Accept, At, Decide, Locking, AtIssue, Session, SessionsOK
<1>14. ASSUME NEW o \in Officer, NEW i \in issues, Begin(o, i)
      PROVE  Locking'
  <2>1. i.id \notin Locked(o) /\ i.status = "open"
    BY <1>14 DEF Begin
  <2>2. \A v \in Worker : i.id \notin gone[v]
    BY <2>1, LockedForOthers
  <2>3. \A p \in Officer : p # o /\ pc[p] \in AtIssue => hand[p].id # i.id
    BY <2>1, LockedForOthers
  <2>4. pc' = [pc EXCEPT ![o] = "read"] /\ hand' = [hand EXCEPT ![o] = i] /\ UNCHANGED <<issues, gone>>
    BY <1>14 DEF Begin, At
  <2> QED BY <2>1, <2>2, <2>3, <2>4 DEF Locking, AtIssue, Session, SessionsOK
<1>15. ASSUME NEW o \in Officer, NEW n \in batch[o], Refuse(o, n)
      PROVE  Locking'
  BY <1>15 DEF Refuse, Locking, AtIssue, Session
<1>16. ASSUME NEW o \in Officer, Apply(o)
      PROVE  Locking'
  BY <1>16 DEF Apply, Write, At, Locking, AtIssue, Session, SessionsOK
<1>17. ASSUME NEW o \in Officer, Accepted(o)
      PROVE  Locking'
  <2>1. pc'[o] \notin AtIssue /\ \A p \in Officer \ {o} : pc'[p] = pc[p] /\ hand'[p] = hand[p]
    BY <1>17 DEF Accepted, At, Clear, AtIssue, Session, SessionsOK
  <2>2. issues \ {hand[o]} \subseteq issues' /\ UNCHANGED gone /\ pc[o] \in AtIssue
    BY <1>17 DEF Accepted, At, AtIssue
  <2> QED BY <2>1, <2>2 DEF Locking
<1>18. ASSUME NEW o \in Officer, Answer(o)
      PROVE  Locking'
  BY <1>18 DEF Answer, At, Locking, AtIssue, Session, SessionsOK
<1>19. ASSUME NEW o \in Officer, Abort(o)
      PROVE  Locking'
  BY <1>19 DEF Abort, Clear, Locking, AtIssue, Session, SessionsOK
<1>22. ASSUME NEW o \in Officer, Throws(o)
      PROVE  Locking'
  BY <1>22 DEF Throws, Clear, Locking, AtIssue, Session, SessionsOK
<1>20. ASSUME NEW i \in issues, NEW st \in {"open", "ignored"}, SetStatus(i, st)
      PROVE  Locking'
  <2>1. \A p \in Officer : pc[p] \in AtIssue => hand[p].id # i.id
    BY <1>20, LockedForOthers DEF SetStatus, Session
  <2>2. issues \ {i} \subseteq issues' /\ UNCHANGED <<pc, hand, gone>>
    BY <1>20 DEF SetStatus
  <2> QED BY <2>1, <2>2 DEF Locking
<1>21. CASE UNCHANGED vars
  BY <1>21 DEF Locking, AtIssue, Session
<1> QED
  BY <1>1, <1>2, <1>3, <1>4, <1>5, <1>6, <1>7, <1>8, <1>9, <1>10, <1>11, <1>12, <1>13, <1>14,
     <1>15, <1>16, <1>17, <1>18, <1>19, <1>20, <1>21, <1>22 DEF Next, FixTopology, Resolve, Ignore,
     Reopen, Session

(* A clip is of two parcels. *)
LEMMA ProperStep ==
  ASSUME FabricOK, IssuesOK, WorkersOK, SessionsOK, Stations, Numbered, Locking, Proper, [Next]_vars
  PROVE  Proper'
<1>1. ASSUME NEW b \in BOOLEAN, Run(b)
      PROVE  Proper'
  BY <1>1 DEF Run, Proper, Session
<1>2. ASSUME NEW w \in Worker, NEW b \in BOOLEAN, Take(w, b)
      PROVE  Proper'
  BY <1>2 DEF Take, At, Proper, Session
<1>3. ASSUME NEW w \in Worker, DeleteUnresolved(w)
      PROVE  Proper'
  BY <1>3 DEF DeleteUnresolved, At, Proper, Session
<1>4. ASSUME NEW w \in Worker, DetectOverlaps(w)
      PROVE  Proper'
  <2>1. UNCHANGED <<issues, hand, found>>
    BY <1>4 DEF DetectOverlaps
  <2>2. todo' = [todo EXCEPT ![w] =
          {[action |-> "clip_from", target |-> p[1], keep |-> p[2], ground |-> geom[p[1]] \cap geom[p[2]]] :
             p \in {p \in Feature \X Feature :
                      p[1] # p[2] /\ Smaller(p[1], p[2]) /\ geom[p[1]] \cap geom[p[2]] # {}}}]
    BY <1>4 DEF DetectOverlaps
  <2>3. \A d \in todo'[w] : ProperFix(d)
    BY <2>2 DEF ProperFix, WorkersOK
  <2>4. \A v \in Worker \ {w} : todo'[v] = todo[v]
    BY <2>2 DEF WorkersOK
  <2> QED BY <2>1, <2>3, <2>4 DEF Proper
<1>5. ASSUME NEW w \in Worker, DetectGaps(w)
      PROVE  Proper'
  <2>1. UNCHANGED <<issues, hand, found>>
    BY <1>5 DEF DetectGaps
  <2>2. PICK n \in [Gap -> Feature] : todo' = [todo EXCEPT ![w] = @ \cup
          {[action |-> "merge_into", target |-> n[c], keep |-> n[c], ground |-> {c}] : c \in Gap}]
    BY <1>5 DEF DetectGaps
  <2>3. \A d \in todo'[w] : ProperFix(d)
    BY <2>2 DEF ProperFix, WorkersOK, Proper
  <2>4. \A v \in Worker \ {w} : todo'[v] = todo[v]
    BY <2>2 DEF WorkersOK
  <2> QED BY <2>1, <2>3, <2>4 DEF Proper
<1>6. ASSUME NEW w \in Worker, Report(w)
      PROVE  Proper'
  <2>1. IsFiniteSet(todo[w])
    BY FindingsAreFinite, FS_Subset DEF WorkersOK
  <2>2. \A n \in DOMAIN SetToSeq(todo[w]) : SetToSeq(todo[w])[n] \in todo[w]
    BY <2>1, Numbering
  <2>3. found' = [found EXCEPT ![w] = {[id |-> ids + n, fix |-> SetToSeq(todo[w])[n], status |-> "open"] :
                                         n \in DOMAIN SetToSeq(todo[w])}]
    BY <1>6 DEF Report
  <2>4. \A i \in found'[w] : ProperFix(i.fix)
    BY <2>2, <2>3 DEF WorkersOK, Proper
  <2>5. \A v \in Worker \ {w} : found'[v] = found[v]
    BY <2>3 DEF WorkersOK
  <2>6. todo' = [todo EXCEPT ![w] = {}] /\ UNCHANGED <<issues, hand>>
    BY <1>6 DEF Report
  <2> QED BY <2>4, <2>5, <2>6 DEF Proper, WorkersOK
<1>7. ASSUME NEW w \in Worker, NEW d \in todo[w], FixNext(w, d)
      PROVE  Proper'
  BY <1>7 DEF FixNext, At, Proper, Session, WorkersOK, SessionsOK
<1>8. ASSUME NEW s \in Session, ReadKept(s)
      PROVE  Proper'
  BY <1>8 DEF ReadKept, At, Proper, Session
<1>9. ASSUME NEW w \in Worker, Fixed(w)
      PROVE  Proper'
  BY <1>9 DEF Fixed, Write, At, Proper, Session, WorkersOK
<1>10. ASSUME NEW w \in Worker, Commit(w)
      PROVE  Proper'
  BY <1>10 DEF Commit, At, Clear, Proper, Session, WorkersOK, SessionsOK, ProperFix, NoFix,
     NoIssue
<1>11. ASSUME NEW s \in Session, Chain(s)
      PROVE  Proper'
  BY <1>11 DEF Chain, At, Proper, Session
<1>12. ASSUME NEW w \in Worker, Fail(w)
      PROVE  Proper'
  BY <1>12 DEF Fail, ClearWorker, Clear, Proper, Session, WorkersOK, SessionsOK, ProperFix,
     NoFix, NoIssue
<1>13. ASSUME NEW o \in Officer, NEW S \in SUBSET issues, Accept(o, S)
      PROVE  Proper'
  BY <1>13 DEF Accept, At, Decide, Proper, Session
<1>14. ASSUME NEW o \in Officer, NEW i \in issues, Begin(o, i)
      PROVE  Proper'
  BY <1>14 DEF Begin, At, Proper, Session, SessionsOK
<1>15. ASSUME NEW o \in Officer, NEW n \in batch[o], Refuse(o, n)
      PROVE  Proper'
  BY <1>15 DEF Refuse, Proper, Session
<1>16. ASSUME NEW o \in Officer, Apply(o)
      PROVE  Proper'
  BY <1>16 DEF Apply, Write, At, Proper, Session
<1>17. ASSUME NEW o \in Officer, Accepted(o)
      PROVE  Proper'
  <2>1. hand[o] \in Issue
    BY <1>17 DEF Accepted, At, Stations, AtIssue, Session
  <2> DEFINE a == [hand[o] EXCEPT !.status = "accepted"]
  <2>2. a.fix = hand[o].fix
    BY <2>1 DEF Issue
  <2>3. ProperFix(a.fix)
    BY <2>2 DEF Proper, Session
  <2>4. \A s \in Session : hand'[s] \in {hand[s], NoIssue}
    BY <1>17 DEF Accepted, Clear, SessionsOK
  <2>5. ProperFix(NoIssue.fix)
    BY DEF ProperFix, NoFix, NoIssue
  <2>6. issues' = (issues \ {hand[o]}) \cup {a} /\ UNCHANGED <<todo, found>>
    BY <1>17 DEF Accepted
  <2> HIDE DEF a
  <2> QED BY <2>3, <2>4, <2>5, <2>6 DEF Proper
<1>18. ASSUME NEW o \in Officer, Answer(o)
      PROVE  Proper'
  BY <1>18 DEF Answer, At, Proper, Session
<1>19. ASSUME NEW o \in Officer, Abort(o)
      PROVE  Proper'
  BY <1>19 DEF Abort, Clear, Proper, Session, SessionsOK, ProperFix, NoFix, NoIssue
<1>22. ASSUME NEW o \in Officer, Throws(o)
      PROVE  Proper'
  BY <1>22 DEF Throws, Clear, Proper, Session, SessionsOK, ProperFix, NoFix, NoIssue
<1>20. ASSUME NEW i \in issues, NEW st \in {"open", "ignored"}, SetStatus(i, st)
      PROVE  Proper'
  <2> DEFINE a == [i EXCEPT !.status = st]
  <2>1. a.fix = i.fix
    BY DEF Issue, IssuesOK
  <2>2. issues' = (issues \ {i}) \cup {a} /\ UNCHANGED <<hand, todo, found>>
    BY <1>20 DEF SetStatus
  <2> HIDE DEF a
  <2> QED BY <2>1, <2>2 DEF Proper
<1>21. CASE UNCHANGED vars
  BY <1>21 DEF Proper, Session
<1> QED
  BY <1>1, <1>2, <1>3, <1>4, <1>5, <1>6, <1>7, <1>8, <1>9, <1>10, <1>11, <1>12, <1>13, <1>14,
     <1>15, <1>16, <1>17, <1>18, <1>19, <1>20, <1>21, <1>22 DEF Next, FixTopology, Resolve, Ignore,
     Reopen, Session

(* Somebody attends to what was fixed. *)
LEMMA AttendedStep ==
  ASSUME FabricOK, IssuesOK, WorkersOK, SessionsOK, Stations, Numbered, Locking, HistoryOK, Attended, [Next]_vars
  PROVE  Attended'
<1>1. ASSUME NEW b \in BOOLEAN, Run(b)
      PROVE  Attended'
  BY <1>1 DEF Run, Attended, Session, SessionsOK
<1>2. ASSUME NEW w \in Worker, NEW b \in BOOLEAN, Take(w, b)
      PROVE  Attended'
  BY <1>2 DEF Take, At, Attended, Session, SessionsOK
<1>3. ASSUME NEW w \in Worker, DeleteUnresolved(w)
      PROVE  Attended'
  BY <1>3 DEF DeleteUnresolved, At, Attended, Session, SessionsOK
<1>4. ASSUME NEW w \in Worker, DetectOverlaps(w)
      PROVE  Attended'
  BY <1>4 DEF DetectOverlaps, At, Attended, Session, SessionsOK
<1>5. ASSUME NEW w \in Worker, DetectGaps(w)
      PROVE  Attended'
  BY <1>5 DEF DetectGaps, At, Attended, Session, SessionsOK
<1>6. ASSUME NEW w \in Worker, Report(w)
      PROVE  Attended'
  BY <1>6 DEF Report, Attended, Session, SessionsOK
<1>7. ASSUME NEW w \in Worker, NEW d \in todo[w], FixNext(w, d)
      PROVE  Attended'
  BY <1>7 DEF FixNext, At, Attended, Session, SessionsOK
<1>8. ASSUME NEW s \in Session, ReadKept(s)
      PROVE  Attended'
  BY <1>8 DEF ReadKept, At, Attended, Session, SessionsOK
<1>9. ASSUME NEW w \in Worker, Fixed(w)
      PROVE  Attended'
  BY <1>9 DEF Fixed, Write, At, Attended, Session, SessionsOK
<1>10. ASSUME NEW w \in Worker, Commit(w)
      PROVE  Attended'
  <2>1. fixed[w] \in BOOLEAN /\ UNCHANGED <<fixed, severed>>
    BY <1>10 DEF Commit, SessionsOK, Session
  <2>2. pc' = [pc EXCEPT ![w] = IF fixed[w] THEN "chain" ELSE "idle"] /\ pc[w] = "loop"
    BY <1>10 DEF Commit, At
  <2>3. unmatched' = (unmatched \/ fixed[w])
    BY <1>10 DEF Commit
  <2> QED BY <2>1, <2>2, <2>3 DEF Attended, SessionsOK, Session
<1>11. ASSUME NEW s \in Session, Chain(s)
      PROVE  Attended'
  BY <1>11 DEF Chain, At, Attended, Session, SessionsOK
<1>12. ASSUME NEW w \in Worker, Fail(w)
      PROVE  Attended'
  BY <1>12 DEF Fail, ClearWorker, Clear, Attended, Session, SessionsOK, HistoryOK
<1>13. ASSUME NEW o \in Officer, NEW S \in SUBSET issues, Accept(o, S)
      PROVE  Attended'
  BY <1>13 DEF Accept, At, Decide, Attended, Session, SessionsOK
<1>14. ASSUME NEW o \in Officer, NEW i \in issues, Begin(o, i)
      PROVE  Attended'
  BY <1>14 DEF Begin, At, Attended, Session, SessionsOK
<1>15. ASSUME NEW o \in Officer, NEW n \in batch[o], Refuse(o, n)
      PROVE  Attended'
  BY <1>15 DEF Refuse, Attended, Session, SessionsOK
<1>16. ASSUME NEW o \in Officer, Apply(o)
      PROVE  Attended'
  BY <1>16 DEF Apply, Write, At, Attended, Session, SessionsOK
<1>17. ASSUME NEW o \in Officer, Accepted(o)
      PROVE  Attended'
  BY <1>17 DEF Accepted, At, Clear, Attended, Session, SessionsOK
<1>18. ASSUME NEW o \in Officer, Answer(o)
      PROVE  Attended'
  <2>1. fixed[o] \in BOOLEAN /\ UNCHANGED <<fixed, severed, unmatched>>
    BY <1>18 DEF Answer, SessionsOK, Session
  <2>2. pc' = [pc EXCEPT ![o] = IF fixed[o] THEN "chain" ELSE "idle"] /\ pc[o] = "next"
    BY <1>18 DEF Answer, At
  <2> QED BY <2>1, <2>2 DEF Attended, SessionsOK, Session
<1>19. ASSUME NEW o \in Officer, Abort(o)
      PROVE  Attended'
  BY <1>19 DEF Abort, Clear, Attended, Session, SessionsOK, HistoryOK
<1>22. ASSUME NEW o \in Officer, Throws(o)
      PROVE  Attended'
  BY <1>22 DEF Throws, Clear, Attended, Session, SessionsOK, HistoryOK
<1>20. ASSUME NEW i \in issues, NEW st \in {"open", "ignored"}, SetStatus(i, st)
      PROVE  Attended'
  BY <1>20 DEF SetStatus, Decide, Attended, Session, SessionsOK
<1>21. CASE UNCHANGED vars
  BY <1>21 DEF Attended
<1> QED
  BY <1>1, <1>2, <1>3, <1>4, <1>5, <1>6, <1>7, <1>8, <1>9, <1>10, <1>11, <1>12, <1>13, <1>14,
     <1>15, <1>16, <1>17, <1>18, <1>19, <1>20, <1>21, <1>22 DEF Next, FixTopology, Resolve, Ignore,
     Reopen, Session

-----------------------------------------------------------------------------
(* The kinds of steps, as far as the ground is concerned. *)

OthersKeep(s) == \A t \in Session \ {s} : Written(t)' = Written(t)
NoneApplied == \A i \in issues' : IsApplied(i) => i \in issues

Rests ==
  /\ UNCHANGED <<geom, dirty, owner, crossed, filled>>
  /\ \A s \in Session : Written(s)' = Written(s)
  /\ NoneApplied

Writes(s) ==
  /\ pc[s] = "write" /\ pc'[s] # "write"
  /\ \E next \in {"loop", "commit"} : Write(s, next)
  /\ Written(s)' = Written(s) \cup {hand[s]} /\ OthersKeep(s)
  /\ UNCHANGED filled
  /\ NoneApplied

Commits(s) ==
  /\ pc'[s] # "write"
  /\ Publish(s)
  /\ Written(s)' = {} /\ OthersKeep(s)
  /\ UNCHANGED <<crossed, ids>>
  /\ \A i \in issues' : IsApplied(i) => i \in issues \/ \E k \in Written(s) : k.fix = i.fix /\ k.id = i.id

Forgets(s) ==
  /\ pc'[s] # "write"
  /\ Forget(s)
  /\ Written(s)' = {} /\ OthersKeep(s)
  /\ UNCHANGED <<crossed, filled>>
  /\ NoneApplied

Kinds == Rests \/ \E s \in Session : Writes(s) \/ Commits(s) \/ Forgets(s)

(* Every step is of one of these kinds. *)
LEMMA StepKinds ==
  ASSUME FabricOK, IssuesOK, WorkersOK, SessionsOK, HistoryOK, Stations, [Next]_vars
  PROVE  Kinds
<1>1. ASSUME NEW b \in BOOLEAN, Run(b)
      PROVE  Kinds
  <2>1. \A u \in Session : Written(u)' = Written(u)
    BY <1>1 DEF Run, Written, Session, SessionsOK
  <2> QED BY <1>1, <2>1 DEF Run, Rests, NoneApplied, Kinds
<1>2. ASSUME NEW w \in Worker, NEW b \in BOOLEAN, Take(w, b)
      PROVE  Kinds
  <2>1. \A u \in Session : Written(u)' = Written(u)
    BY <1>2 DEF Take, At, Written, Session, SessionsOK
  <2> QED BY <1>2, <2>1 DEF Take, At, Rests, NoneApplied, Kinds
<1>3. ASSUME NEW w \in Worker, DeleteUnresolved(w)
      PROVE  Kinds
  <2>1. \A u \in Session : Written(u)' = Written(u)
    BY <1>3 DEF DeleteUnresolved, At, Written, Session, SessionsOK
  <2> QED BY <1>3, <2>1 DEF DeleteUnresolved, At, Rests, NoneApplied, Kinds
<1>4. ASSUME NEW w \in Worker, DetectOverlaps(w)
      PROVE  Kinds
  <2>1. \A u \in Session : Written(u)' = Written(u)
    BY <1>4 DEF DetectOverlaps, At, Written, Session, SessionsOK
  <2> QED BY <1>4, <2>1 DEF DetectOverlaps, At, Rests, NoneApplied, Kinds
<1>5. ASSUME NEW w \in Worker, DetectGaps(w)
      PROVE  Kinds
  <2>1. \A u \in Session : Written(u)' = Written(u)
    BY <1>5 DEF DetectGaps, At, Written, Session, SessionsOK
  <2> QED BY <1>5, <2>1 DEF DetectGaps, At, Rests, NoneApplied, Kinds
<1>6. ASSUME NEW w \in Worker, Report(w)
      PROVE  Kinds
  <2> DEFINE new == {[id |-> ids + n, fix |-> SetToSeq(todo[w])[n], status |-> "open"] : n \in DOMAIN SetToSeq(todo[w])}
  <2>1. found' = [found EXCEPT ![w] = new] /\ ~ auto[w] /\ UNCHANGED <<pc, hand>>
    BY <1>6 DEF Report
  <2>2. \A i \in new : i.status # "auto_fixed"
    OBVIOUS
  <2> HIDE DEF new
  <2>3. \A v \in Worker : Written(v)' = Written(v)
    BY <2>1, <2>2 DEF Written, WorkersOK, Stations
  <2>4. \A p \in Officer : Written(p)' = Written(p)
    BY <2>1 DEF Written
  <2> QED BY <1>6, <2>3, <2>4 DEF Report, Rests, NoneApplied, Kinds, Session
<1>7. ASSUME NEW w \in Worker, NEW d \in todo[w], FixNext(w, d)
      PROVE  Kinds
  <2>1. \A u \in Session : Written(u)' = Written(u)
    BY <1>7 DEF FixNext, At, Written, Session, SessionsOK, WorkersOK
  <2> QED BY <1>7, <2>1 DEF FixNext, At, Rests, NoneApplied, Kinds
<1>8. ASSUME NEW s \in Session, ReadKept(s)
      PROVE  Kinds
  <2>1. \A u \in Session : Written(u)' = Written(u)
    BY <1>8 DEF ReadKept, At, Written, Session, SessionsOK
  <2> QED BY <1>8, <2>1 DEF ReadKept, At, Rests, NoneApplied, Kinds
<1>9. ASSUME NEW w \in Worker, Fixed(w)
      PROVE  Kinds
  <2>1. pc[w] = "write" /\ pc' = [pc EXCEPT ![w] = "loop"] /\ Write(w, "loop")
    BY <1>9 DEF Fixed, Write, At
  <2>2. Written(w)' = Written(w) \cup {hand[w]}
    BY <1>9, <2>1 DEF Fixed, Written, WorkersOK, Stations
  <2>3. OthersKeep(w)
    BY <1>9, <2>1 DEF Fixed, Written, OthersKeep, WorkersOK, Session
  <2>4. pc'[w] # "write"
    BY <2>1 DEF SessionsOK, Session
  <2>5. UNCHANGED <<issues, filled>>
    BY <1>9 DEF Fixed
  <2>6. Writes(w)
    BY <2>1, <2>2, <2>3, <2>4, <2>5 DEF Writes, NoneApplied
  <2> QED BY <2>6 DEF Kinds, Session
<1>10. ASSUME NEW w \in Worker, Commit(w)
      PROVE  Kinds
  <2>1. pc[w] = "loop" /\ pc' = [pc EXCEPT ![w] = IF fixed[w] THEN "chain" ELSE "idle"] /\ Publish(w)
    BY <1>10 DEF Commit, At
  <2>2. found' = [found EXCEPT ![w] = {}] /\ hand' = [hand EXCEPT ![w] = NoIssue]
    BY <1>10 DEF Commit, Clear
  <2>3. Written(w)' = {}
    BY <2>2 DEF Written, WorkersOK
  <2>4. OthersKeep(w)
    BY <2>1, <2>2 DEF Written, OthersKeep, WorkersOK, SessionsOK, Session
  <2>5. \A i \in found[w] : IsApplied(i) => i \in Written(w)
    <3>1. \A i \in found[w] : i.status \in {"open", "auto_fixed"}
      BY DEF Stations
    <3> QED BY <3>1 DEF IsApplied, Written
  <2>6. \A i \in issues' : IsApplied(i) => i \in issues \/ \E k \in Written(w) : k.fix = i.fix /\ k.id = i.id
    BY <1>10, <2>5 DEF Commit
  <2>7. pc'[w] # "write"
    BY <2>1 DEF SessionsOK, Session
  <2> QED BY <1>10, <2>1, <2>3, <2>4, <2>6, <2>7 DEF Commit, Commits, Kinds, Session
<1>11. ASSUME NEW s \in Session, Chain(s)
      PROVE  Kinds
  <2>1. \A u \in Session : Written(u)' = Written(u)
    BY <1>11 DEF Chain, At, Written, Session, SessionsOK
  <2> QED BY <1>11, <2>1 DEF Chain, At, Rests, NoneApplied, Kinds
<1>12. ASSUME NEW w \in Worker, Fail(w)
      PROVE  Kinds
  <2>1. pc' = [pc EXCEPT ![w] = "idle"] /\ Forget(w)
    BY <1>12 DEF Fail
  <2>2. found' = [found EXCEPT ![w] = {}] /\ hand' = [hand EXCEPT ![w] = NoIssue]
    BY <1>12 DEF Fail, ClearWorker, Clear
  <2>3. Written(w)' = {}
    BY <2>2 DEF Written, WorkersOK
  <2>4. OthersKeep(w)
    BY <2>1, <2>2 DEF Written, OthersKeep, WorkersOK, SessionsOK, Session
  <2>5. pc'[w] # "write"
    BY <2>1 DEF SessionsOK, Session
  <2> QED BY <1>12, <2>1, <2>3, <2>4, <2>5 DEF Fail, Forgets, NoneApplied, Kinds, Session
<1>13. ASSUME NEW o \in Officer, NEW S \in SUBSET issues, Accept(o, S)
      PROVE  Kinds
  <2>1. \A u \in Session : Written(u)' = Written(u)
    BY <1>13 DEF Accept, At, Decide, Written, Session, SessionsOK
  <2> QED BY <1>13, <2>1 DEF Accept, At, Decide, Rests, NoneApplied, Kinds
<1>14. ASSUME NEW o \in Officer, NEW i \in issues, Begin(o, i)
      PROVE  Kinds
  <2>1. \A u \in Session : Written(u)' = Written(u)
    BY <1>14 DEF Begin, At, Written, Session, SessionsOK
  <2> QED BY <1>14, <2>1 DEF Begin, At, Rests, NoneApplied, Kinds
<1>15. ASSUME NEW o \in Officer, NEW n \in batch[o], Refuse(o, n)
      PROVE  Kinds
  <2>1. \A u \in Session : Written(u)' = Written(u)
    BY <1>15 DEF Refuse, Written, Session, SessionsOK
  <2> QED BY <1>15, <2>1 DEF Refuse, Rests, NoneApplied, Kinds
<1>16. ASSUME NEW o \in Officer, Apply(o)
      PROVE  Kinds
  <2>1. pc[o] = "write" /\ pc' = [pc EXCEPT ![o] = "commit"] /\ Write(o, "commit")
    BY <1>16 DEF Apply, Write, At
  <2>2. Written(o)' = Written(o) \cup {hand[o]}
    BY <1>16, <2>1 DEF Apply, Written, SessionsOK, Session
  <2>3. OthersKeep(o)
    BY <1>16, <2>1 DEF Apply, Written, OthersKeep, SessionsOK, Session
  <2>4. pc'[o] # "write"
    BY <2>1 DEF SessionsOK, Session
  <2>5. UNCHANGED <<issues, filled>>
    BY <1>16 DEF Apply
  <2>6. Writes(o)
    BY <2>1, <2>2, <2>3, <2>4, <2>5 DEF Writes, NoneApplied
  <2> QED BY <2>6 DEF Kinds, Session
<1>17. ASSUME NEW o \in Officer, Accepted(o)
      PROVE  Kinds
  <2>1. pc[o] = "commit" /\ pc' = [pc EXCEPT ![o] = "next"] /\ Publish(o)
    BY <1>17 DEF Accepted, At
  <2>2. hand' = [hand EXCEPT ![o] = NoIssue] /\ UNCHANGED found
    BY <1>17 DEF Accepted, Clear
  <2>3. Written(o)' = {} /\ hand[o] \in Written(o)
    BY <2>1 DEF Written, SessionsOK, Session
  <2>4. OthersKeep(o)
    BY <2>1, <2>2 DEF Written, OthersKeep, WorkersOK, SessionsOK, Session
  <2>5. hand[o] \in Issue
    BY <2>1 DEF Stations, AtIssue, Session
  <2> DEFINE a == [hand[o] EXCEPT !.status = "accepted"]
  <2>6. a.fix = hand[o].fix /\ a.id = hand[o].id
    BY <2>5 DEF Issue
  <2>7. issues' = (issues \ {hand[o]}) \cup {a}
    BY <1>17 DEF Accepted
  <2> HIDE DEF a
  <2>8. \A i \in issues' : IsApplied(i) => i \in issues \/ \E k \in Written(o) : k.fix = i.fix /\ k.id = i.id
    BY <2>3, <2>6, <2>7
  <2>9. pc'[o] # "write"
    BY <2>1 DEF SessionsOK, Session
  <2> QED BY <1>17, <2>1, <2>3, <2>4, <2>8, <2>9 DEF Accepted, Commits, Kinds, Session
<1>18. ASSUME NEW o \in Officer, Answer(o)
      PROVE  Kinds
  <2>1. \A u \in Session : Written(u)' = Written(u)
    BY <1>18 DEF Answer, At, Written, Session, SessionsOK
  <2> QED BY <1>18, <2>1 DEF Answer, At, Rests, NoneApplied, Kinds
<1>19. ASSUME NEW o \in Officer, Abort(o)
      PROVE  Kinds
  <2>1. pc' = [pc EXCEPT ![o] = "idle"] /\ Forget(o)
    BY <1>19 DEF Abort
  <2>2. hand' = [hand EXCEPT ![o] = NoIssue] /\ UNCHANGED found
    BY <1>19 DEF Abort, Clear
  <2>3. Written(o)' = {}
    BY <2>1 DEF Written, SessionsOK, Session
  <2>4. OthersKeep(o)
    BY <2>1, <2>2 DEF Written, OthersKeep, WorkersOK, SessionsOK, Session
  <2>5. pc'[o] # "write"
    BY <2>1 DEF SessionsOK, Session
  <2> QED BY <1>19, <2>1, <2>3, <2>4, <2>5 DEF Abort, Forgets, NoneApplied, Kinds, Session
<1>22. ASSUME NEW o \in Officer, Throws(o)
      PROVE  Kinds
  <2>1. pc' = [pc EXCEPT ![o] = "next"] /\ Forget(o)
    BY <1>22 DEF Throws
  <2>2. hand' = [hand EXCEPT ![o] = NoIssue] /\ UNCHANGED found
    BY <1>22 DEF Throws, Clear
  <2>3. Written(o)' = {}
    BY <2>1 DEF Written, SessionsOK, Session
  <2>4. OthersKeep(o)
    BY <2>1, <2>2 DEF Written, OthersKeep, WorkersOK, SessionsOK, Session
  <2>5. pc'[o] # "write"
    BY <2>1 DEF SessionsOK, Session
  <2> QED BY <1>22, <2>1, <2>3, <2>4, <2>5 DEF Throws, Forgets, NoneApplied, Kinds, Session
<1>20. ASSUME NEW i \in issues, NEW st \in {"open", "ignored"}, SetStatus(i, st)
      PROVE  Kinds
  <2>1. \A u \in Session : Written(u)' = Written(u)
    BY <1>20 DEF SetStatus, Written
  <2> DEFINE a == [i EXCEPT !.status = st]
  <2>2. a.status = st
    BY DEF Issue, IssuesOK
  <2>3. issues' = (issues \ {i}) \cup {a}
    BY <1>20 DEF SetStatus
  <2> HIDE DEF a
  <2>4. NoneApplied
    BY <2>2, <2>3 DEF NoneApplied, IsApplied
  <2> QED BY <1>20, <2>1, <2>4 DEF SetStatus, Rests, Kinds
<1>21. CASE UNCHANGED vars
  BY <1>21 DEF Kinds, Rests, NoneApplied, Written
<1> QED
  BY <1>1, <1>2, <1>3, <1>4, <1>5, <1>6, <1>7, <1>8, <1>9, <1>10, <1>11, <1>12, <1>13, <1>14,
     <1>15, <1>16, <1>17, <1>18, <1>19, <1>20, <1>21, <1>22 DEF Next, FixTopology, Resolve, Ignore,
     Reopen, Session

(* A session that is about to write has just read the parcel that stays, or *)
(* has stood there all along.                                               *)
LEMMA Writers ==
  ASSUME FabricOK, IssuesOK, WorkersOK, SessionsOK, Stations, [Next]_vars
  PROVE  \A u \in Session : pc'[u] = "write" =>
            \/ pc[u] = "write" /\ hand'[u] = hand[u] /\ kept'[u] = kept[u]
            \/ ReadKept(u) /\ hand'[u] = hand[u]
<1>1. ASSUME NEW b \in BOOLEAN, Run(b)
      PROVE  \A u \in Session : pc'[u] = "write" =>
            \/ pc[u] = "write" /\ hand'[u] = hand[u] /\ kept'[u] = kept[u]
            \/ ReadKept(u) /\ hand'[u] = hand[u]
  BY <1>1 DEF Run, SessionsOK, Session
<1>2. ASSUME NEW w \in Worker, NEW b \in BOOLEAN, Take(w, b)
      PROVE  \A u \in Session : pc'[u] = "write" =>
            \/ pc[u] = "write" /\ hand'[u] = hand[u] /\ kept'[u] = kept[u]
            \/ ReadKept(u) /\ hand'[u] = hand[u]
  BY <1>2 DEF Take, At, SessionsOK, Session
<1>3. ASSUME NEW w \in Worker, DeleteUnresolved(w)
      PROVE  \A u \in Session : pc'[u] = "write" =>
            \/ pc[u] = "write" /\ hand'[u] = hand[u] /\ kept'[u] = kept[u]
            \/ ReadKept(u) /\ hand'[u] = hand[u]
  BY <1>3 DEF DeleteUnresolved, At, SessionsOK, Session
<1>4. ASSUME NEW w \in Worker, DetectOverlaps(w)
      PROVE  \A u \in Session : pc'[u] = "write" =>
            \/ pc[u] = "write" /\ hand'[u] = hand[u] /\ kept'[u] = kept[u]
            \/ ReadKept(u) /\ hand'[u] = hand[u]
  BY <1>4 DEF DetectOverlaps, At, SessionsOK, Session
<1>5. ASSUME NEW w \in Worker, DetectGaps(w)
      PROVE  \A u \in Session : pc'[u] = "write" =>
            \/ pc[u] = "write" /\ hand'[u] = hand[u] /\ kept'[u] = kept[u]
            \/ ReadKept(u) /\ hand'[u] = hand[u]
  BY <1>5 DEF DetectGaps, At, SessionsOK, Session
<1>6. ASSUME NEW w \in Worker, Report(w)
      PROVE  \A u \in Session : pc'[u] = "write" =>
            \/ pc[u] = "write" /\ hand'[u] = hand[u] /\ kept'[u] = kept[u]
            \/ ReadKept(u) /\ hand'[u] = hand[u]
  BY <1>6 DEF Report, SessionsOK, Session
<1>7. ASSUME NEW w \in Worker, NEW d \in todo[w], FixNext(w, d)
      PROVE  \A u \in Session : pc'[u] = "write" =>
            \/ pc[u] = "write" /\ hand'[u] = hand[u] /\ kept'[u] = kept[u]
            \/ ReadKept(u) /\ hand'[u] = hand[u]
  BY <1>7 DEF FixNext, At, SessionsOK, Session
<1>8. ASSUME NEW s \in Session, ReadKept(s)
      PROVE  \A u \in Session : pc'[u] = "write" =>
            \/ pc[u] = "write" /\ hand'[u] = hand[u] /\ kept'[u] = kept[u]
            \/ ReadKept(u) /\ hand'[u] = hand[u]
  BY <1>8 DEF ReadKept, At, SessionsOK, Session
<1>9. ASSUME NEW w \in Worker, Fixed(w)
      PROVE  \A u \in Session : pc'[u] = "write" =>
            \/ pc[u] = "write" /\ hand'[u] = hand[u] /\ kept'[u] = kept[u]
            \/ ReadKept(u) /\ hand'[u] = hand[u]
  BY <1>9 DEF Fixed, Write, At, SessionsOK, Session
<1>10. ASSUME NEW w \in Worker, Commit(w)
      PROVE  \A u \in Session : pc'[u] = "write" =>
            \/ pc[u] = "write" /\ hand'[u] = hand[u] /\ kept'[u] = kept[u]
            \/ ReadKept(u) /\ hand'[u] = hand[u]
  BY <1>10 DEF Commit, At, Clear, SessionsOK, Session
<1>11. ASSUME NEW s \in Session, Chain(s)
      PROVE  \A u \in Session : pc'[u] = "write" =>
            \/ pc[u] = "write" /\ hand'[u] = hand[u] /\ kept'[u] = kept[u]
            \/ ReadKept(u) /\ hand'[u] = hand[u]
  BY <1>11 DEF Chain, At, SessionsOK, Session
<1>12. ASSUME NEW w \in Worker, Fail(w)
      PROVE  \A u \in Session : pc'[u] = "write" =>
            \/ pc[u] = "write" /\ hand'[u] = hand[u] /\ kept'[u] = kept[u]
            \/ ReadKept(u) /\ hand'[u] = hand[u]
  BY <1>12 DEF Fail, ClearWorker, Clear, SessionsOK, Session
<1>13. ASSUME NEW o \in Officer, NEW S \in SUBSET issues, Accept(o, S)
      PROVE  \A u \in Session : pc'[u] = "write" =>
            \/ pc[u] = "write" /\ hand'[u] = hand[u] /\ kept'[u] = kept[u]
            \/ ReadKept(u) /\ hand'[u] = hand[u]
  BY <1>13 DEF Accept, At, Decide, SessionsOK, Session
<1>14. ASSUME NEW o \in Officer, NEW i \in issues, Begin(o, i)
      PROVE  \A u \in Session : pc'[u] = "write" =>
            \/ pc[u] = "write" /\ hand'[u] = hand[u] /\ kept'[u] = kept[u]
            \/ ReadKept(u) /\ hand'[u] = hand[u]
  BY <1>14 DEF Begin, At, SessionsOK, Session
<1>15. ASSUME NEW o \in Officer, NEW n \in batch[o], Refuse(o, n)
      PROVE  \A u \in Session : pc'[u] = "write" =>
            \/ pc[u] = "write" /\ hand'[u] = hand[u] /\ kept'[u] = kept[u]
            \/ ReadKept(u) /\ hand'[u] = hand[u]
  BY <1>15 DEF Refuse, SessionsOK, Session
<1>16. ASSUME NEW o \in Officer, Apply(o)
      PROVE  \A u \in Session : pc'[u] = "write" =>
            \/ pc[u] = "write" /\ hand'[u] = hand[u] /\ kept'[u] = kept[u]
            \/ ReadKept(u) /\ hand'[u] = hand[u]
  BY <1>16 DEF Apply, Write, At, SessionsOK, Session
<1>17. ASSUME NEW o \in Officer, Accepted(o)
      PROVE  \A u \in Session : pc'[u] = "write" =>
            \/ pc[u] = "write" /\ hand'[u] = hand[u] /\ kept'[u] = kept[u]
            \/ ReadKept(u) /\ hand'[u] = hand[u]
  BY <1>17 DEF Accepted, At, Clear, SessionsOK, Session
<1>18. ASSUME NEW o \in Officer, Answer(o)
      PROVE  \A u \in Session : pc'[u] = "write" =>
            \/ pc[u] = "write" /\ hand'[u] = hand[u] /\ kept'[u] = kept[u]
            \/ ReadKept(u) /\ hand'[u] = hand[u]
  BY <1>18 DEF Answer, At, SessionsOK, Session
<1>19. ASSUME NEW o \in Officer, Abort(o)
      PROVE  \A u \in Session : pc'[u] = "write" =>
            \/ pc[u] = "write" /\ hand'[u] = hand[u] /\ kept'[u] = kept[u]
            \/ ReadKept(u) /\ hand'[u] = hand[u]
  BY <1>19 DEF Abort, Clear, SessionsOK, Session
<1>22. ASSUME NEW o \in Officer, Throws(o)
      PROVE  \A u \in Session : pc'[u] = "write" =>
            \/ pc[u] = "write" /\ hand'[u] = hand[u] /\ kept'[u] = kept[u]
            \/ ReadKept(u) /\ hand'[u] = hand[u]
  BY <1>22 DEF Throws, Clear, SessionsOK, Session
<1>20. ASSUME NEW i \in issues, NEW st \in {"open", "ignored"}, SetStatus(i, st)
      PROVE  \A u \in Session : pc'[u] = "write" =>
            \/ pc[u] = "write" /\ hand'[u] = hand[u] /\ kept'[u] = kept[u]
            \/ ReadKept(u) /\ hand'[u] = hand[u]
  BY <1>20 DEF SetStatus, Decide, SessionsOK, Session
<1>21. CASE UNCHANGED vars
  BY <1>21 DEF SessionsOK, Session
<1> QED
  BY <1>1, <1>2, <1>3, <1>4, <1>5, <1>6, <1>7, <1>8, <1>9, <1>10, <1>11, <1>12, <1>13, <1>14,
     <1>15, <1>16, <1>17, <1>18, <1>19, <1>20, <1>21, <1>22 DEF Next, FixTopology, Resolve, Ignore,
     Reopen, Session

(* What a session has written is a proper fix, found by now. *)
LEMMA WrittenIsFound ==
  ASSUME FabricOK, IssuesOK, WorkersOK, SessionsOK, Stations, Numbered, Proper,
         NEW s \in Session, NEW i \in Written(s)
  PROVE  /\ i \in Issue /\ i.id \in 1 .. ids /\ ProperFix(i.fix)
         /\ i.fix.ground \subseteq Cell
<1>1. CASE s \in Worker
  <2>1. i \in found[s]
    BY <1>1 DEF Written
  <2>2. i \in Issue /\ i.id \in 1 .. ids /\ ProperFix(i.fix)
    BY <1>1, <2>1 DEF WorkersOK, Numbered, Draft, Proper
  <2> QED BY <2>2 DEF Issue, Finding
<1>2. CASE s \notin Worker
  <2>1. i = hand[s] /\ pc[s] = "commit"
    BY <1>2 DEF Written
  <2>2. i \in Issue /\ i.id \in 1 .. ids /\ ProperFix(i.fix)
    BY <2>1 DEF Stations, AtIssue, Proper
  <2> QED BY <2>2 DEF Issue, Finding
<1> QED BY <1>1, <1>2

(* Filling follows Written. *)
LEMMA FillingFollows ==
  ASSUME NEW s, Written(s)' = Written(s)
  PROVE  Filling(s)' = Filling(s)
BY DEF Filling

LEMMA OtherFillings ==
  ASSUME NEW s \in Session, OthersKeep(s), NEW T \in SUBSET Session
  PROVE  Pending(T \ {s}) \subseteq Pending(T)'
<1>1. \A t \in T \ {s} : Filling(t)' = Filling(t)
  BY FillingFollows DEF OthersKeep
<1> QED BY <1>1 DEF Pending

LEMMA PendingGrows ==
  ASSUME NEW T, NEW U, T \subseteq U
  PROVE  Pending(T) \subseteq Pending(U)
BY DEF Pending

(* What a write does, whoever commits afterwards. *)
LEMMA WriteEffect ==
  ASSUME FabricOK, SessionsOK, Stations, NEW s \in Session, Writes(s), NEW T \in SUBSET Session
  PROVE  /\ hand[s].fix.target \in Feature /\ hand[s].fix.keep \in Feature /\ hand[s] \in Issue
         /\ \A f \in Feature : f # hand[s].fix.target => After(T, f)' = After(T, f)
         /\ \A f \in Feature : f = hand[s].fix.target =>
              After(T, f)' = IF s \in T THEN Fix(hand[s].fix, After(T, f), kept[s]) ELSE After(T, f)
<1> DEFINE h == hand[s].fix
<1>1. pc[s] = "write"
  BY DEF Writes
<1>2. hand[s] \in Issue /\ h.target \in Feature /\ h.keep \in Feature
  BY <1>1, FixIsGround
<1>3. /\ owner[h.target] \in {s, Free}
      /\ dirty' = [dirty EXCEPT ![h.target] = Fix(h, Seen(s, h.target), kept[s])]
      /\ owner' = [owner EXCEPT ![h.target] = s]
      /\ geom' = geom
  BY DEF Writes, Write
<1> HIDE DEF h
<1>4. \A f \in Feature : f # h.target => After(T, f)' = After(T, f)
  BY <1>2, <1>3 DEF After, FabricOK
<1>5. ASSUME NEW f \in Feature, f = h.target
      PROVE  After(T, f)' = IF s \in T THEN Fix(h, After(T, f), kept[s]) ELSE After(T, f)
  <2>1. CASE s \notin T
    <3>1. owner[f] \notin T /\ owner'[f] \notin T /\ geom' = geom
      BY <1>3, <1>5, <2>1 DEF FabricOK
    <3> QED BY <2>1, <3>1 DEF After
  <2>2. CASE s \in T
    <3>1. Seen(s, f) = After(T, f)
      BY <1>3, <1>5, <2>2 DEF Seen, After
    <3>2. dirty'[f] = Fix(h, Seen(s, f), kept[s]) /\ owner'[f] = s
      BY <1>3, <1>5 DEF FabricOK
    <3> QED BY <2>2, <3>1, <3>2 DEF After
  <2> QED BY <2>1, <2>2
<1> QED BY <1>2, <1>4, <1>5 DEF h

(* What a commit does is what was foreseen. *)
LEMMA PublishEffect ==
  ASSUME NEW s \in Session, Publish(s), NEW T \in SUBSET Session, NEW f \in Feature
  PROVE  After(T, f)' = After(T \cup {s}, f)
BY DEF Publish, After, Seen, Session

LEMMA ForgetEffect ==
  ASSUME NEW s \in Session, Forget(s), NEW T \in SUBSET Session, NEW f \in Feature
  PROVE  After(T, f)' = After(T \ {s}, f)
BY DEF Forget, After, Session

(* Whoever commits after a step, there is a U that commits before it, such   *)
(* that the parcels are the same but for gaps that are known to be filled.   *)
Foreseen(T, U, n) ==
  /\ Filled(n, U) \subseteq Filled(n, T)'
  /\ \A f \in Feature : After(T, f)' \subseteq After(U, f) \cup Filled(n, T)'

LEMMA RestForeseen ==
  ASSUME Rests, NEW T \in SUBSET Session, NEW n
  PROVE  Foreseen(T, T, n)
<1>1. Pending(T)' = Pending(T)
  <2>1. \A t \in T : Filling(t)' = Filling(t)
    BY FillingFollows DEF Rests
  <2> QED BY <2>1 DEF Pending
<1>2. Fresh(n)' = Fresh(n)
  BY DEF Rests, Fresh
<1>3. \A f \in Feature : After(T, f)' = After(T, f)
  BY DEF Rests, After
<1> QED BY <1>1, <1>2, <1>3 DEF Foreseen, Filled

LEMMA WriteForeseen ==
  ASSUME FabricOK, SessionsOK, Stations, NEW s \in Session, Writes(s), NEW T \in SUBSET Session, NEW n
  PROVE  Foreseen(T, T, n)
<1>1. Fresh(n)' = Fresh(n)
  BY DEF Writes, Fresh
<1>2. \A t \in Session : Filling(t) \subseteq Filling(t)'
  <2>1. \A t \in Session : Written(t) \subseteq Written(t)'
    BY DEF Writes, OthersKeep
  <2> QED BY <2>1 DEF Filling
<1>3. Pending(T) \subseteq Pending(T)'
  BY <1>2 DEF Pending
<1>4. ASSUME NEW f \in Feature
      PROVE  After(T, f)' \subseteq After(T, f) \cup Filled(n, T)'
  <2> DEFINE h == hand[s].fix
  <2>0. After(T, f)' = IF f = h.target /\ s \in T THEN Fix(h, After(T, f), kept[s]) ELSE After(T, f)
    <3>1. \A g \in Feature : g # h.target => After(T, g)' = After(T, g)
      BY WriteEffect
    <3>2. \A g \in Feature : g = h.target =>
            After(T, g)' = IF s \in T THEN Fix(h, After(T, g), kept[s]) ELSE After(T, g)
      BY WriteEffect
    <3> HIDE DEF h
    <3> QED BY <3>1, <3>2
  <2>1. CASE f # h.target \/ s \notin T
    BY <2>0, <2>1
  <2>2. CASE f = h.target /\ s \in T
    <3>1. After(T, f)' = Fix(h, After(T, f), kept[s])
      BY <2>0, <2>2
    <3>2. CASE IsClip(hand[s])
      BY <3>1, <3>2 DEF Fix, IsClip
    <3>3. CASE ~ IsClip(hand[s])
      <4>1. hand[s] \in Issue /\ hand[s] \in Written(s)'
        BY WriteEffect DEF Writes
      <4>2. hand[s].fix.action = "merge_into"
        BY <3>3, <4>1 DEF IsClip, Issue, Finding
      <4>3. hand[s].fix.ground \subseteq Filling(s)'
        BY <4>1, <4>2 DEF Filling
      <4>4. hand[s].fix.ground \subseteq Pending(T)'
        BY <2>2, <4>3 DEF Pending
      <4> QED BY <3>1, <4>4 DEF Fix, Filled
    <3> QED BY <3>2, <3>3
  <2> QED BY <2>1, <2>2
<1> QED BY <1>1, <1>3, <1>4 DEF Foreseen, Filled

LEMMA CommitForeseen ==
  ASSUME FabricOK, IssuesOK, WorkersOK, SessionsOK, HistoryOK, Stations, Numbered, Proper,
         NEW s \in Session, Commits(s), NEW T \in SUBSET Session, NEW n \in 1 .. ids
  PROVE  Foreseen(T, T \cup {s}, n)
<1>1. Fresh(n) \cup Filling(s) \subseteq Fresh(n)'
  <2>1. Filling(s) \subseteq Cell
    BY WrittenIsFound DEF Filling
  <2>2. filled' = [c \in Cell |-> IF c \in Filling(s) THEN ids ELSE filled[c]]
    BY DEF Commits, Publish
  <2>3. ids \in Nat /\ filled \in [Cell -> 0 .. ids]
    BY DEF IssuesOK, HistoryOK
  <2>4. ids >= n
    BY <2>3
  <2> QED BY <2>1, <2>2, <2>3, <2>4 DEF Fresh
<1>2. Pending(T \ {s}) \subseteq Pending(T)'
  BY OtherFillings DEF Commits
<1>3. Pending(T \cup {s}) = Pending(T \ {s}) \cup Filling(s)
  BY DEF Pending
<1>4. \A f \in Feature : After(T, f)' = After(T \cup {s}, f)
  BY PublishEffect DEF Commits
<1> QED BY <1>1, <1>2, <1>3, <1>4 DEF Foreseen, Filled

LEMMA ForgetForeseen ==
  ASSUME NEW s \in Session, Forgets(s), NEW T \in SUBSET Session, NEW n
  PROVE  Foreseen(T, T \ {s}, n)
<1>1. Fresh(n)' = Fresh(n)
  BY DEF Forgets, Fresh
<1>2. Pending(T \ {s}) \subseteq Pending(T)'
  BY OtherFillings DEF Forgets
<1>3. \A f \in Feature : After(T, f)' = After(T \ {s}, f)
  BY ForgetEffect DEF Forgets
<1> QED BY <1>1, <1>2, <1>3 DEF Foreseen, Filled

(* Two parcels that were apart then are apart now. *)
LEMMA ApartForeseen ==
  ASSUME NEW i, i.fix \in Finding, NEW T, NEW U, Foreseen(T, U, i.id), Apart(i, U)
  PROVE  Apart(i, T)'
<1>1. i.fix.target \in Feature /\ i.fix.keep \in Feature
  BY DEF Finding
<1>2. After(T, i.fix.target)' \subseteq After(U, i.fix.target) \cup Filled(i.id, T)'
  BY <1>1 DEF Foreseen
<1>3. After(T, i.fix.keep)' \subseteq After(U, i.fix.keep) \cup Filled(i.id, T)'
  BY <1>1 DEF Foreseen
<1>4. Filled(i.id, U) \subseteq Filled(i.id, T)'
  BY DEF Foreseen
<1> QED BY <1>2, <1>3, <1>4 DEF Apart


-----------------------------------------------------------------------------
(* The ground. *)

(* The ground after a step is the ground that was foreseen. *)
LEMMA GroundAfter ==
  ASSUME NEW T, NEW U, \A f \in Feature : After(T, f)' = After(U, f)
  PROVE  Ground(T)' = Ground(U)
BY DEF Ground

(* A write adds a gap, or cuts out what the parcel that stays covers as well, *)
(* if nobody is changing that parcel.                                         *)
LEMMA GroundWritten ==
  ASSUME FabricOK, SessionsOK, Stations, Proper,
         NEW s \in Session, Writes(s), ~ crossed', NEW T \in SUBSET Session
  PROVE  Ground(T)' = Ground(T) \cup (IF s \in T /\ ~ IsClip(hand[s]) THEN hand[s].fix.ground ELSE {})
<1> DEFINE h == hand[s].fix
<1>1. h.target \in Feature /\ h.keep \in Feature /\ h \in Finding
  BY WriteEffect DEF Issue
<1>2. \A f \in Feature : f # h.target => After(T, f)' = After(T, f)
  BY WriteEffect
<1>3. \A f \in Feature : f = h.target =>
        After(T, f)' = IF s \in T THEN Fix(h, After(T, f), kept[s]) ELSE After(T, f)
  BY WriteEffect
<1>4. CASE s \notin T
  <2>1. \A f \in Feature : After(T, f)' = After(T, f)
    BY <1>2, <1>3, <1>4
  <2>2. Ground(T)' = Ground(T)
    BY <2>1, GroundAfter
  <2> QED BY <1>4, <2>2
<1>5. CASE s \in T /\ ~ IsClip(hand[s])
  <2>1. \A f \in Feature : f = h.target => After(T, f)' = After(T, f) \cup h.ground
    BY <1>3, <1>5 DEF Fix, IsClip
  <2> HIDE DEF h
  <2>2. Ground(T)' = Ground(T) \cup h.ground
    <3>1. \A f \in Feature : After(T, f) \subseteq After(T, f)' /\ After(T, f)' \subseteq After(T, f) \cup h.ground
      BY <1>2, <2>1
    <3>2. PICK g \in Feature : g = h.target
      BY <1>1
    <3>3. h.ground \subseteq After(T, g)'
      BY <2>1, <3>2
    <3> QED BY <3>1, <3>2, <3>3 DEF Ground
  <2> QED BY <1>5, <2>2 DEF h
<1>6. CASE s \in T /\ IsClip(hand[s])
  <2>1. \A f \in Feature : f = h.target => After(T, f)' = After(T, f) \ kept[s]
    BY <1>3, <1>6 DEF Fix, IsClip
  <2>2. h.keep # h.target
    BY <1>6 DEF Proper, ProperFix, IsClip
  <2>3. owner[h.keep] \in {s, Free} /\ kept[s] = Seen(s, h.keep)
    BY DEF Writes, Write, Crossing
  <2>4. kept[s] = After(T, h.keep)
    BY <1>6, <2>3 DEF Seen, After, Session
  <2> HIDE DEF h
  <2>5. Ground(T)' \subseteq Ground(T)
    BY <1>2, <2>1 DEF Ground
  <2>6. ASSUME NEW f \in Feature, NEW c \in After(T, f) PROVE c \in Ground(T)'
    <3>1. CASE f # h.target
      BY <1>2, <2>6, <3>1 DEF Ground
    <3>2. CASE f = h.target /\ c \notin kept[s]
      <4>1. c \in After(T, f)'
        BY <2>1, <2>6, <3>2
      <4> QED BY <4>1 DEF Ground
    <3>3. CASE c \in kept[s]
      <4> DEFINE k == h.keep
      <4>1. \E g \in Feature : c \in After(T, g)'
        <5>1. \A g \in Feature : g = h.keep => c \in After(T, g)'
          BY <1>2, <2>2, <2>4, <3>3
        <5> QED BY <1>1, <5>1
      <4> QED BY <4>1 DEF Ground
    <3> QED BY <3>1, <3>2, <3>3
  <2>7. Ground(T) \subseteq Ground(T)'
    BY <2>6 DEF Ground
  <2> QED BY <1>6, <2>5, <2>7
<1> QED BY <1>4, <1>5, <1>6

(* The more of them commit, the more ground is claimed. *)
LEMMA GrowingStep ==
  ASSUME FabricOK, IssuesOK, WorkersOK, SessionsOK, HistoryOK, Stations, Proper, Kinds, Growing
  PROVE  Growing'
<1> SUFFICES ASSUME ~ crossed', NEW T \in SUBSET Session, NEW U \in SUBSET Session, T \subseteq U
             PROVE  Ground(T)' \subseteq Ground(U)'
  BY DEF Growing
<1>1. CASE Rests
  <2>1. ~ crossed
    BY <1>1 DEF Rests
  <2>2. \A f \in Feature : After(T, f)' = After(T, f) /\ After(U, f)' = After(U, f)
    BY <1>1 DEF Rests, After
  <2>3. Ground(T)' = Ground(T) /\ Ground(U)' = Ground(U)
    BY <2>2, GroundAfter
  <2> QED BY <2>1, <2>3 DEF Growing
<1>2. ASSUME NEW s \in Session, Writes(s) PROVE Ground(T)' \subseteq Ground(U)'
  <2>1. ~ crossed
    BY <1>2 DEF Writes, Write, HistoryOK
  <2>2. Ground(T)' = Ground(T) \cup (IF s \in T /\ ~ IsClip(hand[s]) THEN hand[s].fix.ground ELSE {})
    BY <1>2, GroundWritten
  <2>3. Ground(U)' = Ground(U) \cup (IF s \in U /\ ~ IsClip(hand[s]) THEN hand[s].fix.ground ELSE {})
    BY <1>2, GroundWritten
  <2>4. Ground(T) \subseteq Ground(U)
    BY <2>1 DEF Growing
  <2> QED BY <2>2, <2>3, <2>4
<1>3. ASSUME NEW s \in Session, Commits(s) PROVE Ground(T)' \subseteq Ground(U)'
  <2>1. ~ crossed
    BY <1>3 DEF Commits
  <2>2. \A f \in Feature : After(T, f)' = After(T \cup {s}, f) /\ After(U, f)' = After(U \cup {s}, f)
    BY <1>3, PublishEffect DEF Commits
  <2>3. Ground(T)' = Ground(T \cup {s}) /\ Ground(U)' = Ground(U \cup {s})
    BY <2>2, GroundAfter
  <2> QED BY <2>1, <2>3 DEF Growing
<1>4. ASSUME NEW s \in Session, Forgets(s) PROVE Ground(T)' \subseteq Ground(U)'
  <2>1. ~ crossed
    BY <1>4 DEF Forgets
  <2>2. \A f \in Feature : After(T, f)' = After(T \ {s}, f) /\ After(U, f)' = After(U \ {s}, f)
    BY <1>4, ForgetEffect DEF Forgets
  <2>3. Ground(T)' = Ground(T \ {s}) /\ Ground(U)' = Ground(U \ {s})
    BY <2>2, GroundAfter
  <2> QED BY <2>1, <2>3 DEF Growing
<1> QED BY <1>1, <1>2, <1>3, <1>4 DEF Kinds

(* No step gives ground up, unless transactions have crossed. *)
LEMMA GroundStep ==
  ASSUME FabricOK, HistoryOK, Kinds, Growing
  PROVE  Claimed \subseteq Claimed' \/ crossed'
<1>1. Claimed = Ground({})
  BY DEF Claimed, Ground, After
<1>2. Claimed' = Ground({})'
  BY DEF Claimed, Ground, After
<1>3. CASE Rests
  BY <1>3 DEF Rests, Claimed
<1>4. ASSUME NEW s \in Session, Writes(s) PROVE Claimed' = Claimed
  BY <1>4 DEF Writes, Write, Claimed
<1>5. ASSUME NEW s \in Session, Commits(s) PROVE Claimed \subseteq Claimed' \/ crossed'
  <2>1. \A f \in Feature : After({}, f)' = After({} \cup {s}, f)
    BY <1>5, PublishEffect DEF Commits
  <2>2. Ground({})' = Ground({} \cup {s})
    BY <2>1, GroundAfter
  <2>3. ~ crossed => Ground({}) \subseteq Ground({} \cup {s})
    BY DEF Growing
  <2>4. crossed' = crossed /\ crossed \in BOOLEAN
    BY <1>5 DEF Commits, HistoryOK
  <2> QED BY <1>1, <1>2, <2>2, <2>3, <2>4
<1>6. ASSUME NEW s \in Session, Forgets(s) PROVE Claimed' = Claimed
  BY <1>6 DEF Forgets, Forget, Claimed
<1> QED BY <1>3, <1>4, <1>5, <1>6 DEF Kinds

-----------------------------------------------------------------------------
(* The clips. *)

LEMMA AdditionsStep ==
  ASSUME FabricOK, IssuesOK, WorkersOK, SessionsOK, HistoryOK, Stations, Kinds, Additions
  PROVE  Additions'
<1> SUFFICES ASSUME NEW t \in Session, NEW f \in Feature, owner'[f] = t
             PROVE  dirty'[f] \subseteq geom'[f] \cup Filling(t)'
  BY DEF Additions
<1>1. CASE Rests
  BY <1>1, FillingFollows DEF Rests, Additions
<1>2. ASSUME NEW s \in Session, Writes(s) PROVE dirty'[f] \subseteq geom'[f] \cup Filling(t)'
  <2>1. Filling(t) \subseteq Filling(t)'
    <3>1. Written(t) \subseteq Written(t)'
      BY <1>2 DEF Writes, OthersKeep
    <3> QED BY <3>1 DEF Filling
  <2>2. hand[s] \in Issue /\ hand[s].fix.target \in Feature
    BY <1>2, WriteEffect
  <2>3. /\ owner[hand[s].fix.target] \in {s, Free} /\ geom' = geom
        /\ dirty' = [dirty EXCEPT ![hand[s].fix.target] = Fix(hand[s].fix, Seen(s, hand[s].fix.target), kept[s])]
        /\ owner' = [owner EXCEPT ![hand[s].fix.target] = s]
    BY <1>2 DEF Writes, Write
  <2>4. CASE f # hand[s].fix.target
    <3>1. owner[f] = t /\ dirty'[f] = dirty[f]
      BY <2>2, <2>3, <2>4 DEF FabricOK
    <3> QED BY <2>1, <2>3, <3>1 DEF Additions
  <2>5. CASE f = hand[s].fix.target
    <3>1. Seen(s, f) \subseteq geom[f] \cup Filling(s)
      BY <2>3, <2>5 DEF Seen, Additions
    <3>2. dirty'[f] = Fix(hand[s].fix, Seen(s, f), kept[s]) /\ t = s
      BY <2>3, <2>5 DEF FabricOK
    <3>3. CASE IsClip(hand[s])
      BY <2>1, <2>3, <3>1, <3>2, <3>3 DEF Fix, IsClip
    <3>4. CASE ~ IsClip(hand[s])
      <4>1. hand[s].fix.action = "merge_into"
        BY <2>2, <3>4 DEF IsClip, Issue, Finding
      <4>2. hand[s].fix.ground \subseteq Filling(s)'
        BY <1>2, <4>1 DEF Filling, Writes
      <4> QED BY <2>1, <2>3, <3>1, <3>2, <4>1, <4>2 DEF Fix
    <3> QED BY <3>3, <3>4
  <2> QED BY <2>4, <2>5
<1>3. ASSUME NEW s \in Session, Commits(s) PROVE dirty'[f] \subseteq geom'[f] \cup Filling(t)'
  <2>1. owner[f] = t /\ t # s /\ dirty'[f] = dirty[f] /\ geom'[f] = geom[f]
    BY <1>3 DEF Commits, Publish, Seen, Session, FabricOK
  <2>2. Filling(t)' = Filling(t)
    BY <1>3, <2>1, FillingFollows DEF Commits, OthersKeep
  <2> QED BY <2>1, <2>2 DEF Additions
<1>4. ASSUME NEW s \in Session, Forgets(s) PROVE dirty'[f] \subseteq geom'[f] \cup Filling(t)'
  <2>1. owner[f] = t /\ t # s /\ dirty'[f] = dirty[f] /\ geom'[f] = geom[f]
    BY <1>4 DEF Forgets, Forget, Session, FabricOK
  <2>2. Filling(t)' = Filling(t)
    BY <1>4, <2>1, FillingFollows DEF Forgets, OthersKeep
  <2> QED BY <2>1, <2>2 DEF Additions
<1> QED BY <1>1, <1>2, <1>3, <1>4 DEF Kinds

(* What a session clips with still covers the parcel that stays. *)
LEMMA CoveringStep ==
  ASSUME FabricOK, IssuesOK, WorkersOK, SessionsOK, HistoryOK, Stations, Numbered, Proper,
         Additions, Covering, Kinds, [Next]_vars
  PROVE  Covering'
<1> SUFFICES ASSUME NEW u \in Session, pc'[u] = "write", NEW T \in SUBSET Session, u \in T
             PROVE  After(T, hand[u].fix.keep)' \subseteq kept'[u] \cup Filled(hand[u].id, T)'
  BY DEF Covering
<1>1. \/ pc[u] = "write" /\ hand'[u] = hand[u] /\ kept'[u] = kept[u]
      \/ ReadKept(u) /\ hand'[u] = hand[u]
  BY Writers
<1>2. hand'[u] = hand[u]
  BY <1>1
<1>3. hand[u] \in Issue /\ hand[u].id \in 1 .. ids /\ hand[u].fix.keep \in Feature
  <2>1. pc[u] \in AtIssue
    BY <1>1 DEF ReadKept, At, AtIssue
  <2> QED BY <2>1 DEF Stations, Issue, Finding
<1>4. PICK k \in Feature : k = hand[u].fix.keep
  BY <1>3
<1>5. PICK n \in 1 .. ids : n = hand[u].id
  BY <1>3
<1>6. After(T, hand[u].fix.keep)' = After(T, k)' /\ Filled(hand[u].id, T)' = Filled(n, T)'
  BY <1>2, <1>4, <1>5
<1>7. CASE ReadKept(u)
  <2>1. kept'[u] = Seen(u, k) /\ UNCHANGED <<geom, dirty, owner, found, filled>>
    BY <1>4, <1>7 DEF ReadKept, SessionsOK
  <2>2. After(T, k)' = After(T, k)
    BY <2>1 DEF After
  <2>3. After(T, k) \subseteq Seen(u, k) \cup Pending(T)
    <3>1. CASE owner[k] \in T /\ owner[k] # u
      <4>1. PICK t \in T : t = owner[k]
        BY <3>1
      <4>2. dirty[k] \subseteq geom[k] \cup Filling(t)
        BY <4>1 DEF Additions
      <4>3. Filling(t) \subseteq Pending(T)
        BY DEF Pending
      <4> QED BY <3>1, <4>2, <4>3 DEF After, Seen
    <3>2. CASE owner[k] \notin T \/ owner[k] = u
      BY <3>2 DEF After, Seen
    <3> QED BY <3>1, <3>2
  <2>4. Pending(T)' = Pending(T)
    <3>1. \A t \in Session : Written(t)' = Written(t)
      BY <1>7 DEF ReadKept, At, Written, Session, SessionsOK
    <3>2. \A t \in T : Filling(t)' = Filling(t)
      BY <3>1, FillingFollows
    <3> QED BY <3>2 DEF Pending
  <2> QED BY <1>6, <2>1, <2>2, <2>3, <2>4 DEF Filled
<1>8. CASE pc[u] = "write" /\ kept'[u] = kept[u]
  <2>1. \A U \in SUBSET Session : u \in U => After(U, k) \subseteq kept[u] \cup Filled(n, U)
    BY <1>4, <1>5, <1>8 DEF Covering
  <2>2. ASSUME NEW U \in SUBSET Session, u \in U, Foreseen(T, U, n)
        PROVE  After(T, k)' \subseteq kept'[u] \cup Filled(n, T)'
    <3>1. After(U, k) \subseteq kept[u] \cup Filled(n, U)
      BY <2>1, <2>2
    <3>2. After(T, k)' \subseteq After(U, k) \cup Filled(n, T)' /\ Filled(n, U) \subseteq Filled(n, T)'
      BY <2>2 DEF Foreseen
    <3> QED BY <1>8, <3>1, <3>2
  <2>3. CASE Rests
    BY <1>6, <2>2, <2>3, RestForeseen
  <2>4. ASSUME NEW s \in Session, Writes(s) PROVE After(T, k)' \subseteq kept'[u] \cup Filled(n, T)'
    BY <2>2, <2>4, WriteForeseen
  <2>5. ASSUME NEW s \in Session, Commits(s) PROVE After(T, k)' \subseteq kept'[u] \cup Filled(n, T)'
    <3>1. Foreseen(T, T \cup {s}, n) /\ T \cup {s} \in SUBSET Session
      BY <2>5, CommitForeseen
    <3> QED BY <2>2, <3>1
  <2>6. ASSUME NEW s \in Session, Forgets(s) PROVE After(T, k)' \subseteq kept'[u] \cup Filled(n, T)'
    <3>1. u # s
      BY <2>6 DEF Forgets
    <3>2. Foreseen(T, T \ {s}, n) /\ T \ {s} \in SUBSET Session
      BY <2>6, ForgetForeseen
    <3> QED BY <2>2, <3>1, <3>2
  <2> QED BY <1>6, <2>3, <2>4, <2>5, <2>6 DEF Kinds
<1> QED BY <1>1, <1>7, <1>8

(* A clip parts the parcels when it is written ... *)
LEMMA ClipParts ==
  ASSUME FabricOK, IssuesOK, WorkersOK, SessionsOK, HistoryOK, Stations, Numbered, Proper, Covering,
         NEW s \in Session, Writes(s), IsClip(hand[s]), NEW T \in SUBSET Session, s \in T,
         NEW i, i = hand[s]
  PROVE  Apart(i, T)'
<1>1. i \in Issue /\ i.fix.target \in Feature /\ i.fix.keep \in Feature
  BY WriteEffect
<1>2. i.fix.keep # i.fix.target
  BY DEF Proper, ProperFix, IsClip
<1> DEFINE f == i.fix.target
           k == i.fix.keep
<1>3. After(T, f)' = After(T, f) \ kept[s]
  <2>0. \A g \in Feature : g = hand[s].fix.target =>
          After(T, g)' = IF s \in T THEN Fix(hand[s].fix, After(T, g), kept[s]) ELSE After(T, g)
    BY WriteEffect
  <2>1. After(T, f)' = Fix(i.fix, After(T, f), kept[s])
    BY <1>1, <2>0
  <2> QED BY <2>1 DEF Fix, IsClip
<1>4. After(T, k)' = After(T, k)
  <2>1. \A g \in Feature : g # hand[s].fix.target => After(T, g)' = After(T, g)
    BY WriteEffect
  <2> QED BY <1>1, <1>2, <2>1
<1>5. After(T, i.fix.keep) \subseteq kept[s] \cup Filled(i.id, T)
  BY DEF Covering, Writes
<1>6. Filled(i.id, T) \subseteq Filled(i.id, T)'
  BY WriteForeseen DEF Foreseen
<1> QED BY <1>3, <1>4, <1>5, <1>6 DEF Apart

(* ... and whatever is written, committed or forgotten then, they stay apart. *)
LEMMA PartingStep ==
  ASSUME FabricOK, IssuesOK, WorkersOK, SessionsOK, HistoryOK, Stations, Numbered, Proper,
         Covering, Parting, Kinds
  PROVE  Parting'
<1> SUFFICES ASSUME NEW t \in Session, NEW i \in Written(t)', IsClip(i), NEW T \in SUBSET Session, t \in T
             PROVE  Apart(i, T)'
  BY DEF Parting, IsClip
<1>1. ASSUME i \in Written(t) PROVE i.fix \in Finding /\ i.id \in 1 .. ids
  BY <1>1, WrittenIsFound DEF Issue
<1>2. CASE Rests
  <2>1. i \in Written(t)
    BY <1>2 DEF Rests
  <2>2. Foreseen(T, T, i.id) /\ Apart(i, T)
    BY <1>2, <2>1, RestForeseen DEF Parting
  <2> QED BY <1>1, <2>1, <2>2, ApartForeseen
<1>3. ASSUME NEW s \in Session, Writes(s) PROVE Apart(i, T)'
  <2>1. CASE i \in Written(t)
    <3>1. Foreseen(T, T, i.id) /\ Apart(i, T)
      BY <1>3, <2>1, WriteForeseen DEF Parting
    <3> QED BY <1>1, <2>1, <3>1, ApartForeseen
  <2>2. CASE i \notin Written(t)
    <3>1. t = s /\ i = hand[s]
      BY <1>3, <2>2 DEF Writes, OthersKeep
    <3> QED BY <1>3, <3>1, ClipParts DEF IsClip
  <2> QED BY <2>1, <2>2
<1>4. ASSUME NEW s \in Session, Commits(s) PROVE Apart(i, T)'
  <2>1. i \in Written(t)
    BY <1>4 DEF Commits, OthersKeep
  <2>2. Foreseen(T, T \cup {s}, i.id) /\ Apart(i, T \cup {s})
    BY <1>1, <1>4, <2>1, CommitForeseen DEF Parting
  <2> QED BY <1>1, <2>1, <2>2, ApartForeseen
<1>5. ASSUME NEW s \in Session, Forgets(s) PROVE Apart(i, T)'
  <2>1. i \in Written(t) /\ t # s
    BY <1>5 DEF Forgets, OthersKeep
  <2>2. Foreseen(T, T \ {s}, i.id) /\ Apart(i, T \ {s})
    BY <1>5, <2>1, ForgetForeseen DEF Parting
  <2> QED BY <1>1, <2>1, <2>2, ApartForeseen
<1> QED BY <1>2, <1>3, <1>4, <1>5 DEF Kinds

LEMMA PartedStep ==
  ASSUME FabricOK, IssuesOK, WorkersOK, SessionsOK, HistoryOK, Stations, Numbered, Proper,
         Parting, Parted, Kinds
  PROVE  Parted'
<1> SUFFICES ASSUME NEW i \in issues', IsApplied(i), IsClip(i), NEW T \in SUBSET Session
             PROVE  Apart(i, T)'
  BY DEF Parted, IsApplied, IsClip
<1>1. ASSUME i \in issues, NEW U \in SUBSET Session, Foreseen(T, U, i.id) PROVE Apart(i, T)'
  <2>1. i.fix \in Finding
    BY <1>1 DEF IssuesOK, Issue
  <2>2. Apart(i, U)
    BY <1>1 DEF Parted
  <2> QED BY <1>1, <2>1, <2>2, ApartForeseen
<1>2. CASE Rests
  BY <1>1, <1>2, RestForeseen DEF Rests, NoneApplied
<1>3. ASSUME NEW s \in Session, Writes(s) PROVE Apart(i, T)'
  BY <1>1, <1>3, WriteForeseen DEF Writes, NoneApplied
<1>4. ASSUME NEW s \in Session, Commits(s) PROVE Apart(i, T)'
  <2>1. CASE i \in issues
    <3>1. i.id \in 1 .. ids
      BY <2>1 DEF Numbered
    <3>2. Foreseen(T, T \cup {s}, i.id)
      BY <1>4, <3>1, CommitForeseen
    <3> QED BY <1>1, <2>1, <3>2
  <2>2. CASE i \notin issues
    <3>1. PICK k \in Written(s) : k.fix = i.fix /\ k.id = i.id
      BY <1>4, <2>2 DEF Commits
    <3>2. k.fix \in Finding /\ k.id \in 1 .. ids
      BY WrittenIsFound DEF Issue
    <3>3. Apart(k, T \cup {s})
      BY <3>1 DEF Parting, IsClip
    <3>4. Apart(i, T \cup {s})
      BY <3>1, <3>3 DEF Apart
    <3>5. Foreseen(T, T \cup {s}, i.id)
      BY <1>4, <3>1, <3>2, CommitForeseen
    <3> QED BY <3>1, <3>2, <3>4, <3>5, ApartForeseen
  <2> QED BY <2>1, <2>2
<1>5. ASSUME NEW s \in Session, Forgets(s) PROVE Apart(i, T)'
  <2>1. i \in issues
    BY <1>5 DEF Forgets, NoneApplied
  <2>2. Foreseen(T, T \ {s}, i.id) /\ T \ {s} \in SUBSET Session
    BY <1>5, ForgetForeseen
  <2> QED BY <1>1, <2>1, <2>2
<1> QED BY <1>2, <1>3, <1>4, <1>5 DEF Kinds

-----------------------------------------------------------------------------
(* A run that nobody disturbs. *)

(* To clip or to fill as seen does away with one finding, and adds none. *)
LEMMA FixHeals ==
  ASSUME NEW S \in [Feature -> SUBSET Cell], NEW O \in SUBSET Finding, NEW d \in O, ProperFix(d),
         NEW T, T = [S EXCEPT ![d.target] = Fix(d, S[d.target], S[d.keep])],
         Listed(S, O), Vacant(S, O), Whole(S, O)
  PROVE  Listed(T, O \ {d}) /\ Vacant(T, O \ {d}) /\ Whole(T, O \ {d})
<1> DEFINE t == d.target
           k == d.keep
<1>1. t \in Feature /\ k \in Feature /\ d.action \in {"clip_from", "merge_into"}
  BY DEF Finding
<1>2. \A f \in Feature : T[f] = IF f = t THEN Fix(d, S[t], S[k]) ELSE S[f]
  BY <1>1
<1>3. CASE d.action = "clip_from"
  <2>1. t # k
    BY <1>3 DEF ProperFix
  <2>2. \A f \in Feature : T[f] = IF f = t THEN S[t] \ S[k] ELSE S[f]
    BY <1>2, <1>3 DEF Fix
  <2>3. Merges(O \ {d}) = Merges(O)
    BY <1>3 DEF Merges
  <2> HIDE DEF t, k
  <2>4. Held(T) = Held(S)
    <3>1. ASSUME NEW f \in Feature, NEW x \in S[f] PROVE \E g \in Feature : x \in T[g]
      BY <1>1, <2>1, <2>2
    <3>2. ASSUME NEW f \in Feature, NEW x \in T[f] PROVE x \in S[f]
      BY <2>2
    <3> QED BY <3>1, <3>2 DEF Held
  <2>5. Listed(T, O \ {d})
    <3> SUFFICES ASSUME NEW a \in Feature, NEW b \in Feature, a # b, T[a] \cap T[b] # {}
                 PROVE  \E e \in O \ {d} : e.action = "clip_from" /\ {e.target, e.keep} = {a, b}
      BY DEF Listed
    <3>1. S[a] \cap S[b] # {}
      BY <2>2
    <3>2. PICK e \in O : e.action = "clip_from" /\ {e.target, e.keep} = {a, b}
      BY <3>1 DEF Listed
    <3>3. {a, b} # {t, k}
      BY <2>1, <2>2
    <3> QED BY <3>2, <3>3 DEF t, k
  <2> QED BY <2>3, <2>4, <2>5 DEF Vacant, Whole, Promised
<1>4. CASE d.action = "merge_into"
  <2>1. \A f \in Feature : T[f] = IF f = t THEN S[t] \cup d.ground ELSE S[f]
    BY <1>2, <1>4 DEF Fix
  <2>2. d \in Merges(O) /\ Merges(O \ {d}) = Merges(O) \ {d}
    BY <1>4 DEF Merges
  <2> HIDE DEF t, k
  <2>3. Held(T) = Held(S) \cup d.ground
    BY <1>1, <2>1 DEF Held
  <2>4. d.ground \cap Held(S) = {}
    BY <2>2 DEF Vacant
  <2>5. Listed(T, O \ {d})
    <3> SUFFICES ASSUME NEW a \in Feature, NEW b \in Feature, a # b, T[a] \cap T[b] # {}
                 PROVE  \E e \in O \ {d} : e.action = "clip_from" /\ {e.target, e.keep} = {a, b}
      BY DEF Listed
    <3>1. S[a] \subseteq Held(S) /\ S[b] \subseteq Held(S)
      BY DEF Held
    <3>2. S[a] \cap S[b] # {}
      BY <2>1, <2>4, <3>1
    <3>3. PICK e \in O : e.action = "clip_from" /\ {e.target, e.keep} = {a, b}
      BY <3>2 DEF Listed
    <3> QED BY <1>4, <3>3
  <2>6. Vacant(T, O \ {d})
    BY <2>2, <2>3 DEF Vacant
  <2>7. Promised(O) = Promised(O \ {d}) \cup d.ground
    BY <2>2 DEF Promised
  <2>8. Held(T) \cup Promised(O \ {d}) = Held(S) \cup Promised(O)
    BY <2>3, <2>7
  <2> QED BY <2>5, <2>6, <2>8 DEF Whole
<1> QED BY <1>1, <1>3, <1>4

(* Of two parcels one is the smaller. *)
LEMMA OneIsSmaller ==
  ASSUME FabricOK, NEW a \in Feature, NEW b \in Feature, a # b
  PROVE  Smaller(a, b) \/ Smaller(b, a)
<1>1. IsFiniteSet(Cell)
  BY FS_Interval DEF Cell
<1>2. geom[a] \subseteq Cell /\ geom[b] \subseteq Cell
  BY DEF FabricOK
<1>3. Cardinality(geom[a]) \in Nat /\ Cardinality(geom[b]) \in Nat
  BY <1>1, <1>2, FS_Subset, FS_CardinalityType
<1>4. a \in Nat /\ b \in Nat
  OBVIOUS
<1> QED BY <1>3, <1>4 DEF Smaller

(* The ground that a source lacks between its parcels is no strip of its own. *)
LEMMA GapsFill == Stripless(Claimed \cup Gap)
<1> SUFFICES ASSUME NEW c \in Cell, c - 1 \in Claimed \cup Gap, c + 1 \in Claimed \cup Gap, c \notin Claimed
             PROVE  c \in Gap
  BY DEF Stripless
<1>1. c \in Int /\ (c - 1) + 1 = c /\ (c + 1) - 1 = c
  BY DEF Cell
<1>2. c - 1 \notin Gap
  <2>1. c - 1 \in Gap => (c - 1) + 1 \in Claimed
    BY DEF Gap
  <2> QED BY <1>1, <2>1
<1>3. c + 1 \notin Gap
  <2>1. c + 1 \in Gap => (c + 1) - 1 \in Claimed
    BY DEF Gap
  <2> QED BY <1>1, <2>1
<1> QED BY <1>2, <1>3 DEF Gap

(* A step is one of a worker's own, or leaves it alone: then the worker sees *)
(* the same fabric, unless it counts as disturbed.                           *)
SameSeat(w) ==
  /\ pc'[w] = pc[w] /\ auto'[w] = auto[w] /\ todo'[w] = todo[w]
  /\ hand'[w] = hand[w] /\ kept'[w] = kept[w]
SameView(w) ==
  /\ \A f \in Feature : owner'[f] = w <=> owner[f] = w
  /\ ~ disturbed'[w] => ~ disturbed[w] /\ \A f \in Feature : Seen(w, f)' = Seen(w, f)
LeftAlone(w) == SameSeat(w) /\ SameView(w)
Own(w) ==
  \/ \E b \in BOOLEAN : Take(w, b)
  \/ DeleteUnresolved(w) \/ DetectOverlaps(w) \/ DetectGaps(w) \/ Report(w)
  \/ \E d \in todo[w] : FixNext(w, d)
  \/ ReadKept(w) \/ Fixed(w) \/ Commit(w) \/ Chain(w) \/ Fail(w)

(* What the transactions of others do to the view of a worker. *)
LEMMA OthersWrite ==
  ASSUME FabricOK, SessionsOK, Stations, NEW w \in Worker, NEW s \in Session, s # w, NEW next, Write(s, next),
         UNCHANGED disturbed
  PROVE  SameView(w)
<1>1. hand[s].fix.target \in Feature
  BY FixIsGround DEF Write, At
<1>2. /\ owner[hand[s].fix.target] \in {s, Free} /\ owner' = [owner EXCEPT ![hand[s].fix.target] = s]
      /\ dirty' = [dirty EXCEPT ![hand[s].fix.target] = Fix(hand[s].fix, Seen(s, hand[s].fix.target), kept[s])]
      /\ geom' = geom
  BY DEF Write
<1>3. w \in Session /\ w # Free
  BY DEF Session
<1>4. ASSUME NEW f \in Feature PROVE (owner'[f] = w <=> owner[f] = w) /\ (owner[f] = w => dirty'[f] = dirty[f])
  BY <1>1, <1>2, <1>3 DEF FabricOK
<1> QED BY <1>2, <1>4 DEF SameView, Seen

LEMMA OthersPublish ==
  ASSUME FabricOK, HistoryOK, NEW w \in Worker, NEW s \in Session, s # w, Publish(s)
  PROVE  SameView(w)
<1>1. w \in Session /\ w # Free
  BY DEF Session
<1>2. \A f \in Feature : owner'[f] = w <=> owner[f] = w
  BY <1>1 DEF Publish
<1>3. ASSUME ~ disturbed'[w] PROVE ~ disturbed[w] /\ geom' = geom
  BY <1>3 DEF Publish
<1>4. \A f \in Feature : owner[f] = w => dirty'[f] = dirty[f]
  BY <1>1 DEF Publish
<1> QED BY <1>2, <1>3, <1>4 DEF SameView, Seen

LEMMA OthersForget ==
  ASSUME FabricOK, NEW w \in Worker, NEW s \in Session, s # w, Forget(s), UNCHANGED disturbed
  PROVE  SameView(w)
<1>1. w \in Session /\ w # Free
  BY DEF Session
<1>2. \A f \in Feature : (owner'[f] = w <=> owner[f] = w) /\ (owner[f] = w => dirty'[f] = dirty[f])
  BY <1>1 DEF Forget
<1> QED BY <1>2 DEF SameView, Seen, Forget

LEMMA Resting ==
  ASSUME NEW w, UNCHANGED <<geom, dirty, owner>>, disturbed'[w] = disturbed[w]
  PROVE  SameView(w)
BY DEF SameView, Seen

LEMMA Bystanders ==
  ASSUME FabricOK, WorkersOK, SessionsOK, HistoryOK, Stations, [Next]_vars, NEW w \in Worker
  PROVE  Own(w) \/ LeftAlone(w)
<1>0. w \in Session /\ w \notin Officer
  BY DEF Session
<1>1. ASSUME NEW b \in BOOLEAN, Run(b)
      PROVE  Own(w) \/ LeftAlone(w)
  <2>1. SameSeat(w)
    BY <1>0, <1>1 DEF Run, SameSeat, SessionsOK, WorkersOK, Session
  <2>2. SameView(w)
    BY <1>0, <1>1, Resting DEF Run, HistoryOK
  <2> QED BY <2>1, <2>2 DEF LeftAlone
<1>2. ASSUME NEW v \in Worker, NEW b \in BOOLEAN, Take(v, b)
      PROVE  Own(w) \/ LeftAlone(w)
  <2>1. CASE v = w
    BY <1>2, <2>1 DEF Own
  <2>2. CASE v # w
    <3>1. SameSeat(w)
      BY <1>0, <1>2, <2>2 DEF Take, At, SameSeat, SessionsOK, WorkersOK, Session
    <3>2. SameView(w)
      BY <1>0, <1>2, <2>2, Resting DEF Take, At, HistoryOK
    <3> QED BY <3>1, <3>2 DEF LeftAlone
  <2> QED BY <2>1, <2>2
<1>3. ASSUME NEW v \in Worker, DeleteUnresolved(v)
      PROVE  Own(w) \/ LeftAlone(w)
  <2>1. CASE v = w
    BY <1>3, <2>1 DEF Own
  <2>2. CASE v # w
    <3>1. SameSeat(w)
      BY <1>0, <1>3, <2>2 DEF DeleteUnresolved, At, SameSeat, SessionsOK, WorkersOK, Session
    <3>2. SameView(w)
      BY <1>0, <1>3, <2>2, Resting DEF DeleteUnresolved, At, HistoryOK
    <3> QED BY <3>1, <3>2 DEF LeftAlone
  <2> QED BY <2>1, <2>2
<1>4. ASSUME NEW v \in Worker, DetectOverlaps(v)
      PROVE  Own(w) \/ LeftAlone(w)
  <2>1. CASE v = w
    BY <1>4, <2>1 DEF Own
  <2>2. CASE v # w
    <3>1. SameSeat(w)
      BY <1>0, <1>4, <2>2 DEF DetectOverlaps, At, SameSeat, SessionsOK, WorkersOK, Session
    <3>2. SameView(w)
      BY <1>0, <1>4, <2>2, Resting DEF DetectOverlaps, At, HistoryOK
    <3> QED BY <3>1, <3>2 DEF LeftAlone
  <2> QED BY <2>1, <2>2
<1>5. ASSUME NEW v \in Worker, DetectGaps(v)
      PROVE  Own(w) \/ LeftAlone(w)
  <2>1. CASE v = w
    BY <1>5, <2>1 DEF Own
  <2>2. CASE v # w
    <3>1. SameSeat(w)
      BY <1>0, <1>5, <2>2 DEF DetectGaps, At, SameSeat, SessionsOK, WorkersOK, Session
    <3>2. SameView(w)
      BY <1>0, <1>5, <2>2, Resting DEF DetectGaps, At, HistoryOK
    <3> QED BY <3>1, <3>2 DEF LeftAlone
  <2> QED BY <2>1, <2>2
<1>6. ASSUME NEW v \in Worker, Report(v)
      PROVE  Own(w) \/ LeftAlone(w)
  <2>1. CASE v = w
    BY <1>6, <2>1 DEF Own
  <2>2. CASE v # w
    <3>1. SameSeat(w)
      BY <1>0, <1>6, <2>2 DEF Report, SameSeat, SessionsOK, WorkersOK, Session
    <3>2. SameView(w)
      BY <1>0, <1>6, <2>2, Resting DEF Report, HistoryOK
    <3> QED BY <3>1, <3>2 DEF LeftAlone
  <2> QED BY <2>1, <2>2
<1>7. ASSUME NEW v \in Worker, NEW d \in todo[v], FixNext(v, d)
      PROVE  Own(w) \/ LeftAlone(w)
  <2>1. CASE v = w
    BY <1>7, <2>1 DEF Own
  <2>2. CASE v # w
    <3>1. SameSeat(w)
      BY <1>0, <1>7, <2>2 DEF FixNext, At, SameSeat, SessionsOK, WorkersOK, Session
    <3>2. SameView(w)
      BY <1>0, <1>7, <2>2, Resting DEF FixNext, At, HistoryOK
    <3> QED BY <3>1, <3>2 DEF LeftAlone
  <2> QED BY <2>1, <2>2
<1>8. ASSUME NEW s \in Session, ReadKept(s)
      PROVE  Own(w) \/ LeftAlone(w)
  <2>1. CASE s = w
    BY <1>8, <2>1 DEF Own
  <2>2. CASE s # w
    <3>1. SameSeat(w)
      BY <1>0, <1>8, <2>2 DEF ReadKept, At, SameSeat, SessionsOK, WorkersOK, Session
    <3>2. SameView(w)
      BY <1>0, <1>8, <2>2, Resting DEF ReadKept, At, HistoryOK
    <3> QED BY <3>1, <3>2 DEF LeftAlone
  <2> QED BY <2>1, <2>2
<1>9. ASSUME NEW v \in Worker, Fixed(v)
      PROVE  Own(w) \/ LeftAlone(w)
  <2>1. CASE v = w
    BY <1>9, <2>1 DEF Own
  <2>2. CASE v # w
    <3>1. SameSeat(w)
      BY <1>0, <1>9, <2>2 DEF Fixed, Write, At, SameSeat, SessionsOK, WorkersOK, Session
    <3>2. SameView(w)
      BY <1>0, <1>9, <2>2, OthersWrite DEF Fixed, Session
    <3> QED BY <3>1, <3>2 DEF LeftAlone
  <2> QED BY <2>1, <2>2
<1>10. ASSUME NEW v \in Worker, Commit(v)
      PROVE  Own(w) \/ LeftAlone(w)
  <2>1. CASE v = w
    BY <1>10, <2>1 DEF Own
  <2>2. CASE v # w
    <3>1. SameSeat(w)
      BY <1>0, <1>10, <2>2 DEF Commit, At, Clear, SameSeat, SessionsOK, WorkersOK, Session
    <3>2. SameView(w)
      BY <1>0, <1>10, <2>2, OthersPublish DEF Commit, At, Clear, Session
    <3> QED BY <3>1, <3>2 DEF LeftAlone
  <2> QED BY <2>1, <2>2
<1>11. ASSUME NEW s \in Session, Chain(s)
      PROVE  Own(w) \/ LeftAlone(w)
  <2>1. CASE s = w
    BY <1>11, <2>1 DEF Own
  <2>2. CASE s # w
    <3>1. SameSeat(w)
      BY <1>0, <1>11, <2>2 DEF Chain, At, SameSeat, SessionsOK, WorkersOK, Session
    <3>2. SameView(w)
      BY <1>0, <1>11, <2>2, Resting DEF Chain, At, HistoryOK
    <3> QED BY <3>1, <3>2 DEF LeftAlone
  <2> QED BY <2>1, <2>2
<1>12. ASSUME NEW v \in Worker, Fail(v)
      PROVE  Own(w) \/ LeftAlone(w)
  <2>1. CASE v = w
    BY <1>12, <2>1 DEF Own
  <2>2. CASE v # w
    <3>1. SameSeat(w)
      BY <1>0, <1>12, <2>2 DEF Fail, ClearWorker, Clear, SameSeat, SessionsOK, WorkersOK, Session
    <3>2. SameView(w)
      BY <1>0, <1>12, <2>2, OthersForget DEF Fail, ClearWorker, Clear, Session
    <3> QED BY <3>1, <3>2 DEF LeftAlone
  <2> QED BY <2>1, <2>2
<1>13. ASSUME NEW o \in Officer, NEW S \in SUBSET issues, Accept(o, S)
      PROVE  Own(w) \/ LeftAlone(w)
  <2>1. SameSeat(w)
    BY <1>0, <1>13 DEF Accept, At, Decide, SameSeat, SessionsOK, WorkersOK, Session
  <2>2. SameView(w)
    BY <1>0, <1>13, Resting DEF Accept, At, Decide, HistoryOK
  <2> QED BY <2>1, <2>2 DEF LeftAlone
<1>14. ASSUME NEW o \in Officer, NEW i \in issues, Begin(o, i)
      PROVE  Own(w) \/ LeftAlone(w)
  <2>1. SameSeat(w)
    BY <1>0, <1>14 DEF Begin, At, SameSeat, SessionsOK, WorkersOK, Session
  <2>2. SameView(w)
    BY <1>0, <1>14, Resting DEF Begin, At, HistoryOK
  <2> QED BY <2>1, <2>2 DEF LeftAlone
<1>15. ASSUME NEW o \in Officer, NEW n \in batch[o], Refuse(o, n)
      PROVE  Own(w) \/ LeftAlone(w)
  <2>1. SameSeat(w)
    BY <1>0, <1>15 DEF Refuse, SameSeat, SessionsOK, WorkersOK, Session
  <2>2. SameView(w)
    BY <1>0, <1>15, Resting DEF Refuse, HistoryOK
  <2> QED BY <2>1, <2>2 DEF LeftAlone
<1>16. ASSUME NEW o \in Officer, Apply(o)
      PROVE  Own(w) \/ LeftAlone(w)
  <2>1. SameSeat(w)
    BY <1>0, <1>16 DEF Apply, Write, At, SameSeat, SessionsOK, WorkersOK, Session
  <2>2. SameView(w)
    BY <1>0, <1>16, OthersWrite DEF Apply, Session
  <2> QED BY <2>1, <2>2 DEF LeftAlone
<1>17. ASSUME NEW o \in Officer, Accepted(o)
      PROVE  Own(w) \/ LeftAlone(w)
  <2>1. SameSeat(w)
    BY <1>0, <1>17 DEF Accepted, At, Clear, SameSeat, SessionsOK, WorkersOK, Session
  <2>2. SameView(w)
    BY <1>0, <1>17, OthersPublish DEF Accepted, At, Clear, Session
  <2> QED BY <2>1, <2>2 DEF LeftAlone
<1>18. ASSUME NEW o \in Officer, Answer(o)
      PROVE  Own(w) \/ LeftAlone(w)
  <2>1. SameSeat(w)
    BY <1>0, <1>18 DEF Answer, At, SameSeat, SessionsOK, WorkersOK, Session
  <2>2. SameView(w)
    BY <1>0, <1>18, Resting DEF Answer, At, HistoryOK
  <2> QED BY <2>1, <2>2 DEF LeftAlone
<1>19. ASSUME NEW o \in Officer, Abort(o)
      PROVE  Own(w) \/ LeftAlone(w)
  <2>1. SameSeat(w)
    BY <1>0, <1>19 DEF Abort, Clear, SameSeat, SessionsOK, WorkersOK, Session
  <2>2. SameView(w)
    BY <1>0, <1>19, OthersForget DEF Abort, Clear, Session
  <2> QED BY <2>1, <2>2 DEF LeftAlone
<1>22. ASSUME NEW o \in Officer, Throws(o)
      PROVE  Own(w) \/ LeftAlone(w)
  <2>1. SameSeat(w)
    BY <1>0, <1>22 DEF Throws, Clear, SameSeat, SessionsOK, WorkersOK, Session
  <2>2. SameView(w)
    BY <1>0, <1>22, OthersForget DEF Throws, Clear, Session
  <2> QED BY <2>1, <2>2 DEF LeftAlone
<1>20. ASSUME NEW i \in issues, NEW st \in {"open", "ignored"}, SetStatus(i, st)
      PROVE  Own(w) \/ LeftAlone(w)
  <2>1. SameSeat(w)
    BY <1>0, <1>20 DEF SetStatus, Decide, SameSeat, SessionsOK, WorkersOK, Session
  <2>2. SameView(w)
    BY <1>0, <1>20, Resting DEF SetStatus, Decide, HistoryOK
  <2> QED BY <2>1, <2>2 DEF LeftAlone
<1>21. CASE UNCHANGED vars
  BY <1>21 DEF LeftAlone, SameSeat, SameView, Seen
<1> QED
  BY <1>1, <1>2, <1>3, <1>4, <1>5, <1>6, <1>7, <1>8, <1>9, <1>10, <1>11,
     <1>12, <1>13, <1>14, <1>15, <1>16, <1>17, <1>18, <1>19, <1>20, <1>21, <1>22 DEF Next, FixTopology, Resolve, Ignore,
     Reopen, Session

(* What others do without disturbing it changes nothing for a run. *)
LEMMA AloneHeals ==
  ASSUME SessionsOK, Stations, NEW w \in Worker, LeftAlone(w), Ready(w), Healed(w)
  PROVE  Ready(w)' /\ Healed(w)'
<1>1. SameSeat(w) /\ SameView(w)
  BY DEF LeftAlone
<1>2. Outstanding(w)' = Outstanding(w)
  BY <1>1 DEF Outstanding, SameSeat
<1>3. ~ disturbed'[w] => View(w)' = View(w)
  BY <1>1 DEF View, SameView
<1>4. pc[w] = "write" => hand[w].fix.keep \in Feature
  BY DEF Stations, AtIssue, Session, Issue, Finding
<1>5. Ready(w)'
  BY <1>1, <1>4 DEF Ready, SameSeat, SameView
<1>6. Healed(w)'
  BY <1>1, <1>2, <1>3 DEF Healed, SameSeat, SameView
<1> QED BY <1>5, <1>6

(* A worker that has written nothing sees what is committed. *)
LEMMA ViewOfReader ==
  ASSUME FabricOK, NEW w \in Worker, \A f \in Feature : owner[f] # w
  PROVE  View(w) = geom
BY DEF View, Seen, FabricOK

(* The overlaps of a fabric are listed, whichever parcel of two is clipped. *)
LEMMA OverlapsAreListed ==
  ASSUME FabricOK, WorkersOK, SessionsOK, Stations, NEW w \in Worker, DetectOverlaps(w), Ready(w)
  PROVE  /\ View(w)' = geom /\ Outstanding(w)' = todo'[w]
         /\ Merges(todo'[w]) = {} /\ Listed(geom, todo'[w])
<1> DEFINE P == {p \in Feature \X Feature : p[1] # p[2] /\ Smaller(p[1], p[2]) /\ geom[p[1]] \cap geom[p[2]] # {}}
           F(p) == [action |-> "clip_from", target |-> p[1], keep |-> p[2], ground |-> geom[p[1]] \cap geom[p[2]]]
           D == {F(p) : p \in P}
<1>1. todo'[w] = D
  BY DEF DetectOverlaps, WorkersOK
<1>2. View(w)' = geom
  <2>1. \A f \in Feature : owner[f] # w
    BY DEF Ready, DetectOverlaps, At, Underway
  <2>2. UNCHANGED <<geom, dirty, owner>>
    BY DEF DetectOverlaps
  <2>3. View(w)' = View(w)
    BY <2>2 DEF View, Seen
  <2> QED BY <2>1, <2>3, ViewOfReader
<1>3. pc'[w] = "gaps"
  BY DEF DetectOverlaps, At, SessionsOK, Session
<1>4. Outstanding(w)' = todo'[w]
  BY <1>3 DEF Outstanding
<1>5. Merges(D) = {}
  BY DEF Merges
<1>6. Listed(geom, D)
  <2> SUFFICES ASSUME NEW a \in Feature, NEW b \in Feature, a # b, geom[a] \cap geom[b] # {}
               PROVE  \E d \in D : d.action = "clip_from" /\ {d.target, d.keep} = {a, b}
    BY DEF Listed
  <2>1. CASE Smaller(a, b)
    <3>1. <<a, b>> \in P
      BY <2>1
    <3>2. F(<<a, b>>) \in D /\ F(<<a, b>>).action = "clip_from" /\ {F(<<a, b>>).target, F(<<a, b>>).keep} = {a, b}
      BY <3>1
    <3> QED BY <3>2
  <2>2. CASE Smaller(b, a)
    <3>1. <<b, a>> \in P
      BY <2>2
    <3>2. F(<<b, a>>) \in D /\ F(<<b, a>>).action = "clip_from" /\ {F(<<b, a>>).target, F(<<b, a>>).keep} = {a, b}
      BY <3>1
    <3> QED BY <3>2
  <2> QED BY <2>1, <2>2, OneIsSmaller
<1> HIDE DEF D
<1> QED BY <1>1, <1>2, <1>4, <1>5, <1>6

(* To add the gaps leaves no strip that is not a finding. *)
LEMMA GapsAreListed ==
  ASSUME FabricOK, WorkersOK, SessionsOK, Stations, NEW w \in Worker, DetectGaps(w), Ready(w), Healed(w)
  PROVE  /\ auto[w] /\ ~ disturbed[w] => Listed(View(w)', Outstanding(w)')
         /\ Vacant(View(w)', Outstanding(w)') /\ Whole(View(w)', Outstanding(w)')
<1>1. PICK n \in [Gap -> Feature] :
        todo' = [todo EXCEPT ![w] = @ \cup
                  {[action |-> "merge_into", target |-> n[c], keep |-> n[c], ground |-> {c}] : c \in Gap}]
  BY DEF DetectGaps
<1> DEFINE F(c) == [action |-> "merge_into", target |-> n[c], keep |-> n[c], ground |-> {c}]
           N == {F(c) : c \in Gap}
<1>2. todo'[w] = todo[w] \cup N
  BY <1>1 DEF WorkersOK
<1>3. pc[w] = "gaps" /\ pc'[w] = "loop" /\ UNCHANGED <<geom, dirty, owner>>
  BY DEF DetectGaps, At, SessionsOK, Session
<1>4. View(w)' = View(w) /\ View(w) = geom
  <2>1. View(w)' = View(w)
    BY <1>3 DEF View, Seen
  <2>2. \A f \in Feature : owner[f] # w
    BY <1>3 DEF Ready, Underway
  <2> QED BY <2>1, <2>2, ViewOfReader
<1>5. Outstanding(w) = todo[w] /\ Outstanding(w)' = todo[w] \cup N
  BY <1>2, <1>3 DEF Outstanding
<1>6. Merges(todo[w] \cup N) = N
  BY <1>3 DEF Ready, Merges
<1>7. Held(geom) = Claimed
  BY DEF Held, Claimed
<1>8. Promised(todo[w] \cup N) = Gap
  <2>1. \A c \in Gap : F(c) \in N /\ F(c).ground = {c}
    OBVIOUS
  <2>2. \A d \in N : d.ground \subseteq Gap
    OBVIOUS
  <2> HIDE DEF N, F
  <2> QED BY <1>6, <2>1, <2>2 DEF Promised
<1>9. auto[w] /\ ~ disturbed[w] => Listed(geom, todo[w] \cup N)
  <2>1. auto[w] /\ ~ disturbed[w] => Listed(geom, todo[w])
    BY <1>3, <1>4, <1>5 DEF Healed
  <2> HIDE DEF N
  <2> QED BY <2>1 DEF Listed
<1>10. Vacant(geom, todo[w] \cup N)
  <2>1. \A d \in N : d.ground \cap Held(geom) = {}
    BY <1>7 DEF Gap
  <2>2. \A d, e \in N : d # e => d.ground \cap e.ground = {}
    OBVIOUS
  <2> HIDE DEF N
  <2> QED BY <1>6, <2>1, <2>2 DEF Vacant
<1>11. Whole(geom, todo[w] \cup N)
  BY <1>7, <1>8, GapsFill DEF Whole
<1> HIDE DEF N
<1> QED BY <1>4, <1>5, <1>9, <1>10, <1>11

(* To fix the next finding does away with it. *)
LEMMA FixedHeals ==
  ASSUME FabricOK, IssuesOK, WorkersOK, SessionsOK, Stations, Proper,
         NEW w \in Worker, Fixed(w), Ready(w), Healed(w), auto[w], ~ disturbed[w]
  PROVE  LET S == View(w)' O == Outstanding(w)' IN Listed(S, O) /\ Vacant(S, O) /\ Whole(S, O)
<1>1. w \in Session /\ pc[w] = "write" /\ pc'[w] = "loop"
  BY DEF Fixed, Write, At, Session, SessionsOK
<1>2. PICK d \in Finding : d = hand[w].fix
  BY <1>1, FixIsGround
<1>3. d.target \in Feature /\ d.keep \in Feature
  BY DEF Finding
<1>4. /\ dirty' = [dirty EXCEPT ![d.target] = Fix(d, Seen(w, d.target), Seen(w, d.keep))]
      /\ owner' = [owner EXCEPT ![d.target] = w] /\ geom' = geom
  BY <1>1, <1>2 DEF Fixed, Write, Ready
<1>5. View(w)' = [View(w) EXCEPT ![d.target] = Fix(d, View(w)[d.target], View(w)[d.keep])]
  <2>1. View(w)[d.target] = Seen(w, d.target) /\ View(w)[d.keep] = Seen(w, d.keep)
    BY <1>3 DEF View
  <2>2. \A f \in Feature : Seen(w, f)' = IF f = d.target THEN Fix(d, Seen(w, d.target), Seen(w, d.keep)) ELSE Seen(w, f)
    BY <1>3, <1>4 DEF Seen, FabricOK
  <2> QED BY <2>1, <2>2 DEF View
<1>6. View(w) \in [Feature -> SUBSET Cell]
  BY <1>1, SeenIsGround DEF View
<1>7. /\ Outstanding(w) = todo[w] \cup {d} /\ d \notin todo[w]
      /\ Outstanding(w)' = todo[w] /\ todo[w] \in SUBSET Finding
  BY <1>1, <1>2 DEF Fixed, Outstanding, Ready, WorkersOK
<1>8. Outstanding(w)' = Outstanding(w) \ {d} /\ Outstanding(w) \in SUBSET Finding /\ d \in Outstanding(w)
  BY <1>7
<1>9. ProperFix(d)
  BY <1>1, <1>2 DEF Proper
<1>10. Listed(View(w), Outstanding(w)) /\ Vacant(View(w), Outstanding(w)) /\ Whole(View(w), Outstanding(w))
  BY <1>1 DEF Healed, Underway
<1>11. PICK S \in [Feature -> SUBSET Cell], O \in SUBSET Finding :
         S = View(w) /\ O = Outstanding(w)
  BY <1>6, <1>8
<1>12. PICK T : T = View(w)'
  OBVIOUS
<1>13. Listed(T, O \ {d}) /\ Vacant(T, O \ {d}) /\ Whole(T, O \ {d})
  BY <1>5, <1>8, <1>9, <1>10, <1>11, <1>12, FixHeals
<1> QED BY <1>8, <1>11, <1>12, <1>13

(* The faults are counted. *)
LEMMA FaultsStep == ASSUME faults \in Nat, [Next]_vars PROVE faults' \in Nat
BY DEF Next, FixTopology, Resolve, Run, Take, DeleteUnresolved, DetectOverlaps, DetectGaps, Report, FixNext,
  ReadKept, Fixed, Commit, Chain, Fail, Accept, Begin, Refuse, Apply, Accepted, Answer, Throws, Abort, Ignore,
  Reopen, SetStatus, Decide

(* Whatever step is taken, a run that nobody disturbs stays on its way. *)
LEMMA HealingStep ==
  ASSUME FabricOK, IssuesOK, WorkersOK, SessionsOK, HistoryOK, Stations, Proper, Healing, [Next]_vars
  PROVE  Healing'
<1> SUFFICES ASSUME NEW w \in Worker PROVE Ready(w)' /\ Healed(w)'
  BY DEF Healing
<1>1. Ready(w) /\ Healed(w) /\ w \in Session /\ w # Free
  BY DEF Healing, Session
<1>2. CASE LeftAlone(w)
  BY <1>1, <1>2, AloneHeals
<1>3. ASSUME NEW b \in BOOLEAN, Take(w, b) PROVE Ready(w)' /\ Healed(w)'
  BY <1>1, <1>3 DEF Take, At, Ready, Healed, Underway, SessionsOK
<1>4. CASE DeleteUnresolved(w)
  BY <1>1, <1>4 DEF DeleteUnresolved, At, Ready, Healed, Underway, SessionsOK
<1>5. CASE DetectOverlaps(w)
  <2>1. pc[w] = "overlaps" /\ pc'[w] = "gaps" /\ UNCHANGED owner
    BY <1>1, <1>5 DEF DetectOverlaps, At, SessionsOK
  <2> QED BY <1>1, <1>5, <2>1, OverlapsAreListed DEF Ready, Healed, Underway
<1>6. CASE DetectGaps(w)
  <2>1. pc[w] = "gaps" /\ pc'[w] = "loop" /\ UNCHANGED <<owner, auto, disturbed>>
    BY <1>1, <1>6 DEF DetectGaps, At, SessionsOK
  <2> QED BY <1>1, <1>6, <2>1, GapsAreListed DEF Ready, Healed, Underway
<1>7. CASE Report(w)
  BY <1>1, <1>7 DEF Report, Ready, Healed, Underway
<1>8. ASSUME NEW d \in todo[w], FixNext(w, d) PROVE Ready(w)' /\ Healed(w)'
  <2>1. /\ pc[w] = "loop" /\ pc'[w] = "read" /\ UNCHANGED <<geom, dirty, owner, auto, disturbed>>
        /\ todo'[w] = todo[w] \ {d} /\ hand'[w].fix = d
    BY <1>1, <1>8 DEF FixNext, At, SessionsOK, WorkersOK
  <2>2. Outstanding(w)' = Outstanding(w)
    BY <2>1 DEF Outstanding
  <2>3. View(w)' = View(w)
    BY <2>1 DEF View, Seen
  <2> QED BY <1>1, <2>1, <2>2, <2>3 DEF Ready, Healed, Underway
<1>9. CASE ReadKept(w)
  <2>1. /\ pc[w] = "read" /\ pc'[w] = "write" /\ UNCHANGED <<geom, dirty, owner, auto, disturbed, todo, hand>>
        /\ kept'[w] = Seen(w, hand[w].fix.keep)
    BY <1>1, <1>9 DEF ReadKept, At, SessionsOK
  <2>2. Outstanding(w)' = Outstanding(w)
    BY <2>1 DEF Outstanding
  <2>3. View(w)' = View(w) /\ Seen(w, hand[w].fix.keep)' = Seen(w, hand[w].fix.keep)
    BY <2>1 DEF View, Seen
  <2> QED BY <1>1, <2>1, <2>2, <2>3 DEF Ready, Healed, Underway
<1>10. CASE Fixed(w)
  <2>1. pc[w] = "write" /\ pc'[w] = "loop" /\ UNCHANGED <<auto, disturbed>>
    BY <1>1, <1>10 DEF Fixed, Write, At, SessionsOK
  <2>2. Ready(w)'
    BY <2>1 DEF Ready, Underway
  <2> QED BY <1>1, <1>10, <2>1, <2>2, FixedHeals DEF Healed
<1>11. CASE Commit(w)
  <2>1. pc'[w] \in {"chain", "idle"}
    BY <1>1, <1>11 DEF Commit, At, SessionsOK
  <2>2. \A f \in Feature : owner'[f] # w
    BY <1>1, <1>11 DEF Commit, Publish
  <2> QED BY <2>1, <2>2 DEF Ready, Healed, Underway
<1>12. CASE Chain(w)
  <2>1. pc[w] = "chain" /\ pc'[w] = "idle" /\ UNCHANGED owner
    BY <1>1, <1>12 DEF Chain, At, SessionsOK
  <2> QED BY <1>1, <2>1 DEF Ready, Healed, Underway
<1>13. CASE Fail(w)
  <2>1. pc'[w] = "idle"
    BY <1>1, <1>13 DEF Fail, SessionsOK
  <2>2. \A f \in Feature : owner'[f] # w
    BY <1>1, <1>13 DEF Fail, Forget
  <2> QED BY <2>1, <2>2 DEF Ready, Healed, Underway
<1> QED
  BY <1>2, <1>3, <1>4, <1>5, <1>6, <1>7, <1>8, <1>9, <1>10, <1>11, <1>12, <1>13, Bystanders DEF Own

(* A fabric that needs no fix is healed. *)
LEMMA NothingLeft ==
  ASSUME NEW S \in [Feature -> SUBSET Cell], Listed(S, {}), Whole(S, {})
  PROVE  /\ \A c \in Cell : ~ (Cardinality({f \in Feature : c \in S[f]}) > 1)
         /\ Stripless(Held(S))
<1>1. ASSUME NEW c \in Cell PROVE ~ (Cardinality({f \in Feature : c \in S[f]}) > 1)
  <2> DEFINE C == {f \in Feature : c \in S[f]}
  <2>1. \A a, b \in C : a = b
    BY DEF Listed
  <2>2. C = {} \/ \E a \in C : C = {a}
    <3> HIDE DEF C
    <3> QED BY <2>1
  <2>3. CASE C = {}
    BY <2>3, FS_EmptySet
  <2>4. ASSUME NEW a \in C, C = {a} PROVE ~ (Cardinality(C) > 1)
    <3> HIDE DEF C
    <3>1. Cardinality({a}) = 1
      BY FS_Singleton
    <3>2. Cardinality(C) = 1
      BY <2>4, <3>1, Zenon
    <3> QED BY <3>2
  <2> QED BY <2>2, <2>3, <2>4
<1>2. Promised({}) = {}
  BY DEF Promised, Merges
<1> QED BY <1>1, <1>2 DEF Whole

-----------------------------------------------------------------------------
(* The invariant. *)

IInv ==
  /\ Typing /\ Proper
  /\ Growing /\ Additions /\ Covering /\ Parting /\ Parted
  /\ Attended /\ Healing /\ faults \in Nat

LEMMA InitIInv == Init => IInv
<1> SUFFICES ASSUME Init PROVE IInv
  OBVIOUS
<1>1. geom \in [Feature -> SUBSET Cell]
  BY DEF Init
<1>2. \A s \in Session : pc[s] = "idle" /\ hand[s] = NoIssue /\ kept[s] = {} /\ fixed[s] = FALSE
  BY DEF Init
<1>3. \A w \in Worker : w \in Session /\ found[w] = {} /\ todo[w] = {} /\ gone[w] = {}
  BY DEF Init, Session
<1>4. \A o \in Officer : o \in Session /\ batch[o] = {}
  BY DEF Init, Session
<1>5. \A f \in Feature : owner[f] = Free /\ dirty[f] = geom[f]
  BY DEF Init
<1>6. FabricOK
  BY <1>1, Zenon DEF Init, FabricOK
<1>7. IssuesOK
  BY DEF Init, IssuesOK
<1>8. WorkersOK
  BY DEF Init, WorkersOK
<1>9. SessionsOK
  BY DEF Init, SessionsOK
<1>10. HistoryOK
  <2>1. filled \in [Cell -> 0 .. ids]
    BY DEF Init
  <2> QED BY <2>1 DEF Init, HistoryOK
<1>11. Stations
  BY <1>2, <1>3, <1>4 DEF Stations, AtIssue, Running, Deciding
<1>12. Numbered
  BY <1>2, <1>3 DEF Init, Numbered, Draft
<1>13. Locking
  BY <1>2, <1>4 DEF Locking, AtIssue
<1>14. Proper
  BY <1>2, <1>3 DEF Init, Proper, ProperFix, NoIssue, NoFix
<1>16. \A s \in Session : Written(s) = {}
  BY <1>2, <1>3 DEF Written
<1>17. Growing
  <2>1. \A T \in SUBSET Session, f \in Feature : After(T, f) = geom[f]
    BY <1>5 DEF After
  <2> QED BY <2>1 DEF Growing, Ground
<1>18. Additions
  BY <1>5 DEF Additions
<1>19. Covering /\ Parting /\ Parted
  BY <1>2, <1>16 DEF Init, Covering, Parting, Parted
<1>20. Attended
  BY <1>2 DEF Init, Attended
<1>21. Healing /\ faults \in Nat
  BY <1>2, <1>3, <1>5 DEF Init, Healing, Ready, Healed, Underway, Session
<1> QED BY <1>6, <1>7, <1>8, <1>9, <1>10, <1>11, <1>12, <1>13, <1>14, <1>17, <1>18, <1>19, <1>20, <1>21
  DEF IInv, Typing, TypeOK

LEMMA NextIInv == IInv /\ [Next]_vars => IInv'
<1> SUFFICES ASSUME IInv, [Next]_vars PROVE IInv'
  OBVIOUS
<1>1. /\ FabricOK /\ IssuesOK /\ WorkersOK /\ SessionsOK /\ HistoryOK
      /\ Stations /\ Numbered /\ Locking /\ Proper
      /\ Growing /\ Additions /\ Covering /\ Parting /\ Parted /\ Attended /\ Healing /\ faults \in Nat
  BY DEF IInv, Typing, TypeOK
<1>2. TypeOK'
  BY <1>1, FabricStep, IssuesStep, WorkersStep, SessionsStep, HistoryStep DEF TypeOK
<1>3. Stations' /\ Numbered' /\ Locking' /\ Proper'
  BY <1>1, StationsStep, NumberedStep, LockingStep, ProperStep
<1>4. Kinds
  BY <1>1, StepKinds
<1>5. Growing'
  BY <1>1, <1>4, GrowingStep
<1>6. Additions' /\ Covering'
  BY <1>1, <1>4, AdditionsStep, CoveringStep
<1>7. Parting' /\ Parted'
  BY <1>1, <1>4, PartingStep, PartedStep
<1>8. Attended'
  BY <1>1, AttendedStep
<1>9. Healing' /\ faults' \in Nat
  BY <1>1, HealingStep, FaultsStep
<1> QED BY <1>2, <1>3, <1>5, <1>6, <1>7, <1>8, <1>9 DEF IInv, Typing

LEMMA Invariance == Spec => []IInv
BY InitIInv, NextIInv, PTL DEF Spec

-----------------------------------------------------------------------------
(* The theorems. *)

(* Every variable of Topology keeps its type; issues are numbered apart. *)
THEOREM TypeCorrect == Spec => []TypeOK
<1>1. IInv => TypeOK
  BY DEF IInv, Typing
<1> QED BY <1>1, Invariance, PTL

(* Once all is quiet, every fix that was committed has been followed by a   *)
(* HARMONIZE_WARD, unless a fault struck between the commit and the push:   *)
(* fix_topology enqueues after its transaction, acceptAll after its batch.  *)
THEOREM FixesMatched == Spec => []FixesAreMatched
<1>1. IInv => FixesAreMatched
  <2> SUFFICES ASSUME IInv, Quiet, unmatched, ~ severed PROVE FALSE
    BY DEF FixesAreMatched, IInv, Typing, TypeOK, HistoryOK
  <2>1. Attended
    BY DEF IInv
  <2>2. \A s \in Session : pc[s] = "idle"
    BY DEF Quiet
  <2> QED BY <2>1, <2>2 DEF Attended, Session
<1> QED BY <1>1, Invariance, PTL

(* Two parcels whose overlap was clipped share nothing ever after, but ground *)
(* that a gap fix has claimed since the overlap was found.                    *)
THEOREM AcceptedHealed == Spec => []AcceptedIsHealed
<1>1. IInv => AcceptedIsHealed
  <2> SUFFICES ASSUME IInv, NEW i \in issues, IsApplied(i), IsClip(i),
                      NEW c \in geom[i.fix.target] \cap geom[i.fix.keep]
               PROVE  filled[c] >= i.id
    BY DEF AcceptedIsHealed, IsApplied, IsClip
  <2>1. Apart(i, {})
    BY DEF IInv, Parted
  <2>2. c \in After({}, i.fix.target) \cap After({}, i.fix.keep)
    BY DEF After
  <2>3. Pending({}) = {}
    BY DEF Pending
  <2> QED BY <2>1, <2>2, <2>3 DEF Apart, Filled, Fresh
<1> QED BY <1>1, Invariance, PTL

(* No step, of whatever transactions in whatever order, leaves ground      *)
(* unclaimed that was claimed, unless a fix read a parcel that another     *)
(* transaction was changing.                                               *)
THEOREM GroundKept == Spec => GroundIsKept
<1>1. IInv /\ [Next]_vars => [Claimed \subseteq Claimed' \/ crossed']_vars
  <2> SUFFICES ASSUME IInv, [Next]_vars PROVE Claimed \subseteq Claimed' \/ crossed'
    OBVIOUS
  <2>1. FabricOK /\ IssuesOK /\ WorkersOK /\ SessionsOK /\ HistoryOK /\ Stations /\ Growing
    BY DEF IInv, Typing, TypeOK
  <2> QED BY <2>1, StepKinds, GroundStep
<1> QED BY <1>1, Invariance, PTL DEF Spec, GroundIsKept

(* A run of FIX_TOPOLOGY with autoFix that nobody disturbs leaves neither    *)
(* overlaps nor gaps behind, in whatever order it fixes what it has found:   *)
(* each parcel is clipped with what the others have become by then.          *)
THEOREM AutoFixHealed == Spec => AutoFixHeals
<1> DEFINE Heals(w) == pc[w] = "loop" /\ pc'[w] \in {"chain", "idle"} /\ auto[w] /\ faults' = faults /\ ~ disturbed[w]
                         => Overlapping' = {} /\ Gap' = {}
<1>1. IInv /\ [Next]_vars => [\A w \in Worker : Heals(w)]_vars
  <2> SUFFICES ASSUME IInv, [Next]_vars, NEW w \in Worker, pc[w] = "loop", pc'[w] \in {"chain", "idle"},
                      auto[w], faults' = faults, ~ disturbed[w]
               PROVE  Overlapping' = {} /\ Gap' = {}
    OBVIOUS
  <2>1. /\ FabricOK /\ WorkersOK /\ SessionsOK /\ HistoryOK /\ Stations /\ w \in Session
        /\ faults \in Nat /\ Healed(w)
    BY DEF IInv, Typing, TypeOK, Healing, Session
  <2>2. Commit(w)
    <3>1. ~ LeftAlone(w)
      BY DEF LeftAlone, SameSeat
    <3>2. Own(w)
      BY <2>1, <3>1, Bystanders
    <3>3. ~ Fail(w)
      <4>1. Fail(w) => faults' = faults + 1
        BY DEF Fail
      <4>2. faults + 1 # faults
        BY <2>1
      <4> QED BY <4>1, <4>2
    <3>4. ~ Report(w)
      BY <2>1 DEF Report
    <3>5. \A d \in todo[w] : ~ FixNext(w, d)
      BY <2>1 DEF FixNext, At, SessionsOK
    <3> QED BY <3>2, <3>3, <3>4, <3>5 DEF Own, Take, DeleteUnresolved, DetectOverlaps, DetectGaps,
              ReadKept, Fixed, Write, Chain, At
  <2>3. View(w) \in [Feature -> SUBSET Cell]
    BY <2>1, SeenIsGround DEF View
  <2>4. geom' = View(w)
    BY <2>2 DEF Commit, Publish, View
  <2>5. Outstanding(w) = {}
    BY <2>2 DEF Commit, Outstanding
  <2>6. Listed(View(w), {}) /\ Whole(View(w), {})
    BY <2>1, <2>5 DEF Healed, Underway
  <2>7. PICK S \in [Feature -> SUBSET Cell] : S = View(w)
    BY <2>3
  <2>8. /\ \A c \in Cell : ~ (Cardinality({f \in Feature : c \in S[f]}) > 1)
        /\ Stripless(Held(S))
    BY <2>6, <2>7, NothingLeft
  <2>9. Overlapping' = {}
    BY <2>4, <2>7, <2>8 DEF Overlapping
  <2>10. Claimed' = Held(S)
    BY <2>4, <2>7 DEF Claimed, Held
  <2> QED BY <2>8, <2>9, <2>10 DEF Gap, Stripless
<1> QED BY <1>1, Invariance, PTL DEF Spec, AutoFixHeals
=============================================================================
