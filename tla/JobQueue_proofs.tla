--------------------------- MODULE JobQueue_proofs ---------------------------
(* Proofs about JobQueue, for every set of jobs and workers and all bounds. *)
EXTENDS JobQueue, SequenceTheorems, FiniteSetTheorems, TLAPS

USE JobQueueAssumption, NoEntryAssumption

-----------------------------------------------------------------------------
(* A nonempty set of natural numbers has a least element. *)
LEMMA LeastNatural ==
  ASSUME NEW I \in SUBSET Nat, I # {}
  PROVE  Min(I) \in I /\ \A j \in I : Min(I) <= j
<1> DEFINE R == {ss \in Nat \X Nat : ss[1] < ss[2]}
<1>1. IsWellFoundedOn(R, Nat)
  BY NatLessThanWellFounded, Zenon DEF OpToRel
<1>3. ASSUME NEW j \in Nat, NEW i \in Nat, j < i
      PROVE  <<j, i>> \in R
  <2>1. <<j, i>> \in Nat \X Nat /\ <<j, i>>[1] = j /\ <<j, i>>[2] = i
    OBVIOUS
  <2> QED BY <1>3, <2>1
<1> HIDE DEF R
<1>2. PICK i \in I : \A j \in I : <<j, i>> \notin R
  BY <1>1, WFMin, Zenon
<1>4. \A j \in I : i <= j
  <2> SUFFICES ASSUME NEW j \in I, j < i
               PROVE  FALSE
    OBVIOUS
  <2> QED BY <1>2, <1>3
<1> QED
  BY <1>4 DEF Min

(* RemoveFirst, the LREM of the model, yields a sequence of the same elements, *)
(* and takes out nothing but the element it was asked to.                      *)
LEMMA RemoveFirstProperties ==
  ASSUME NEW S, NEW s \in Seq(S), NEW e
  PROVE  /\ RemoveFirst(s, e) \in Seq(S)
         /\ ToSet(RemoveFirst(s, e)) \subseteq ToSet(s)
         /\ ToSet(s) \subseteq ToSet(RemoveFirst(s, e)) \cup {e}
         /\ (\E i \in 1 .. Len(s) : s[i] = e) => Len(RemoveFirst(s, e)) = Len(s) - 1
<1>1. CASE ~ \E i \in 1 .. Len(s) : s[i] = e
  BY <1>1 DEF RemoveFirst
<1>2. CASE \E i \in 1 .. Len(s) : s[i] = e
  <2> DEFINE I == {i \in 1 .. Len(s) : s[i] = e}
             k == SelectInSeq(s, LAMBDA v : v = e)
             a == SubSeq(s, 1, k - 1)
             b == SubSeq(s, k + 1, Len(s))
  <2>1. I # {} /\ I \in SUBSET Nat
    BY <1>2
  <2>2. k = Min(I)
    BY <2>1 DEF SelectInSeq
  <2>3. k \in I
    <3> HIDE DEF I, k
    <3> QED BY <2>1, <2>2, LeastNatural
  <2>4. s[k] = e /\ k \in 1 .. Len(s) /\ Len(s) \in Nat
    BY <2>3
  <2>5. RemoveFirst(s, e) = a \o b
    BY <1>2 DEF RemoveFirst, RemoveAt
  <2> HIDE DEF k
  <2>6. /\ a \in Seq(S) /\ Len(a) = k - 1
        /\ \A i \in 1 .. k - 1 : a[i] = s[i]
    BY <2>4, ElementOfSeq, SubSeqProperties
  <2>7. /\ b \in Seq(S) /\ Len(b) = Len(s) - k
        /\ \A i \in 1 .. Len(s) - k : b[i] = s[i + k]
    BY <2>4, ElementOfSeq, SubSeqProperties
  <2> HIDE DEF a, b
  <2>8. /\ a \o b \in Seq(S) /\ Len(a \o b) = Len(s) - 1
        /\ \A i \in 1 .. Len(s) - 1 : (a \o b)[i] = IF i < k THEN s[i] ELSE s[i + 1]
    <3>1. /\ a \o b \in Seq(S) /\ Len(a \o b) = Len(a) + Len(b)
          /\ \A i \in 1 .. Len(a) + Len(b) :
               (a \o b)[i] = IF i <= Len(a) THEN a[i] ELSE b[i - Len(a)]
      BY <2>6, <2>7, ConcatProperties
    <3>2. ASSUME NEW i \in 1 .. Len(s) - 1
          PROVE  (a \o b)[i] = IF i < k THEN s[i] ELSE s[i + 1]
      <4>1. CASE i < k
        BY <2>4, <2>6, <2>7, <3>1, <4>1
      <4>2. CASE ~(i < k)
        <5>1. i - (k - 1) \in 1 .. Len(s) - k
          BY <2>4, <4>2
        <5>2. b[i - (k - 1)] = s[i + 1]
          BY <2>4, <2>7, <5>1
        <5> QED BY <2>4, <2>6, <2>7, <3>1, <4>2, <5>2
      <4> QED BY <4>1, <4>2
    <3> QED BY <2>4, <2>6, <2>7, <3>1, <3>2
  <2> DEFINE c == a \o b
  <2>11. DOMAIN c = 1 .. Len(s) - 1 /\ DOMAIN s = 1 .. Len(s)
    BY <2>4, <2>8, LenProperties
  <2> HIDE DEF c
  <2>9. ToSet(a \o b) \subseteq ToSet(s)
    <3> SUFFICES ASSUME NEW i \in 1 .. Len(s) - 1
                 PROVE  (a \o b)[i] \in ToSet(s)
      BY <2>8, <2>11 DEF ToSet, c
    <3>1. i \in 1 .. Len(s) /\ i + 1 \in 1 .. Len(s)
      BY <2>4
    <3> QED BY <2>8, <2>11, <3>1 DEF ToSet, c
  <2>10. ToSet(s) \subseteq ToSet(a \o b) \cup {e}
    <3> SUFFICES ASSUME NEW i \in 1 .. Len(s), i # k
                 PROVE  s[i] \in ToSet(a \o b)
      BY <2>4, <2>11 DEF ToSet
    <3> DEFINE m == IF i < k THEN i ELSE i - 1
    <3>1. m \in 1 .. Len(s) - 1 /\ (a \o b)[m] = s[i]
      BY <2>4, <2>8
    <3> QED BY <2>8, <2>11, <3>1 DEF ToSet, c
  <2> QED BY <2>5, <2>8, <2>9, <2>10
<1> QED BY <1>1, <1>2

(* How the sequence operations of the model change the set of elements. *)
LEMMA SequenceSets ==
  ASSUME NEW S, NEW s \in Seq(S), NEW e \in S
  PROVE  /\ Append(s, e) \in Seq(S) /\ ToSet(Append(s, e)) = ToSet(s) \cup {e}
         /\ <<e>> \o s \in Seq(S) /\ ToSet(<<e>> \o s) = ToSet(s) \cup {e}
<1>1. /\ Append(s, e) \in Seq(S) /\ Len(Append(s, e)) = Len(s) + 1 /\ Len(s) \in Nat
      /\ \A i \in 1 .. Len(s) : Append(s, e)[i] = s[i]
      /\ Append(s, e)[Len(s) + 1] = e
  BY AppendProperties, LenProperties
<1>2. DOMAIN Append(s, e) = 1 .. Len(s) + 1 /\ DOMAIN s = 1 .. Len(s)
  BY <1>1, LenProperties
<1>3. ToSet(Append(s, e)) = ToSet(s) \cup {e}
  <2>1. \A i \in 1 .. Len(s) + 1 : i \in 1 .. Len(s) \/ i = Len(s) + 1
    BY <1>1
  <2> QED BY <1>1, <1>2, <2>1 DEF ToSet
<1>4. <<e>> \in Seq(S) /\ Len(<<e>>) = 1 /\ <<e>>[1] = e
  OBVIOUS
<1>5. /\ <<e>> \o s \in Seq(S) /\ Len(<<e>> \o s) = Len(s) + 1
      /\ \A i \in 1 .. Len(s) + 1 : (<<e>> \o s)[i] = IF i <= 1 THEN e ELSE s[i - 1]
  BY <1>1, <1>4, ConcatProperties
<1>6. DOMAIN (<<e>> \o s) = 1 .. Len(s) + 1
  BY <1>5, LenProperties
<1>7. ToSet(<<e>> \o s) = ToSet(s) \cup {e}
  <2> DEFINE c == <<e>> \o s
  <2>1. /\ c[1] = e /\ \A i \in 1 .. Len(s) : c[i + 1] = s[i] /\ i + 1 \in 1 .. Len(s) + 1
        /\ \A i \in 1 .. Len(s) + 1 : c[i] = e \/ (i - 1 \in 1 .. Len(s) /\ c[i] = s[i - 1])
        /\ 1 \in 1 .. Len(s) + 1
    BY <1>1, <1>5
  <2> HIDE DEF c
  <2>2. DOMAIN c = 1 .. Len(s) + 1
    BY <1>6 DEF c
  <2>3. ToSet(c) \subseteq ToSet(s) \cup {e}
    BY <1>2, <2>1, <2>2 DEF ToSet
  <2>4. ToSet(s) \cup {e} \subseteq ToSet(c)
    BY <1>2, <2>1, <2>2 DEF ToSet
  <2> QED BY <2>3, <2>4 DEF c
<1> QED BY <1>1, <1>3, <1>5, <1>7

LEMMA SequenceHeadTail ==
  ASSUME NEW S, NEW s \in Seq(S), s # <<>>
  PROVE  /\ Head(s) \in S /\ Tail(s) \in Seq(S)
         /\ ToSet(s) = ToSet(Tail(s)) \cup {Head(s)}
<1>1. /\ Head(s) = s[1] /\ Len(s) \in Nat \ {0} /\ DOMAIN s = 1 .. Len(s)
      /\ Head(s) \in S /\ Tail(s) \in Seq(S) /\ Len(Tail(s)) = Len(s) - 1
      /\ DOMAIN Tail(s) = 1 .. Len(s) - 1
      /\ \A i \in 1 .. Len(s) - 1 : Tail(s)[i] = s[i + 1]
  <2>1. Len(s) \in Nat \ {0} /\ DOMAIN s = 1 .. Len(s)
    BY LenProperties, EmptySeq
  <2>2. /\ Head(s) \in S /\ Tail(s) \in Seq(S) /\ Len(Tail(s)) = Len(s) - 1
        /\ \A i \in 1 .. Len(Tail(s)) : Tail(s)[i] = s[i + 1]
    BY HeadTailProperties
  <2>3. DOMAIN Tail(s) = 1 .. Len(Tail(s))
    BY <2>2, LenProperties
  <2>4. Head(s) = s[1]
    OBVIOUS
  <2> QED BY <2>1, <2>2, <2>3, <2>4
<1>2. \A i \in 1 .. Len(s) : i = 1 \/ (i - 1 \in 1 .. Len(s) - 1 /\ s[i] = Tail(s)[i - 1])
  BY <1>1
<1>3. ToSet(s) \subseteq ToSet(Tail(s)) \cup {Head(s)}
  <2> DEFINE t == Tail(s)
             h == Head(s)
  <2>1. /\ h = s[1] /\ DOMAIN s = 1 .. Len(s) /\ DOMAIN t = 1 .. Len(s) - 1
        /\ \A i \in 1 .. Len(s) : i = 1 \/ (i - 1 \in 1 .. Len(s) - 1 /\ s[i] = t[i - 1])
    BY <1>1, <1>2
  <2> HIDE DEF t, h
  <2>2. ToSet(s) \subseteq ToSet(t) \cup {h}
    BY <2>1 DEF ToSet
  <2> QED BY <2>2 DEF t, h
<1>4. \A i \in 1 .. Len(s) - 1 : i + 1 \in 1 .. Len(s)
  BY <1>1
<1>5. ToSet(Tail(s)) \cup {Head(s)} \subseteq ToSet(s)
  BY <1>1, <1>4 DEF ToSet
<1> QED BY <1>1, <1>3, <1>5

-----------------------------------------------------------------------------
(* Types.  TypeOK alone is not inductive: a worker that has a job in hand  *)
(* must have an entry there, with the attempts its phase presupposes.      *)
Types == TypeOK /\ HandOK

(* The entries the actions build. *)
LEMMA EntryTypes ==
  /\ \A j \in Job : Fresh(j) \in Entry /\ Fresh(j).job = j /\ Fresh(j).attempts = 0
  /\ \A e \in Entry : e.job \in Job /\ e.attempts \in Nat /\ e.attempts < MaxAttempts
  /\ \A e \in Entry, err \in Error :
       /\ Failed(e, err).job = e.job
       /\ Failed(e, err).attempts = e.attempts + 1
       /\ e.attempts + 1 < MaxAttempts => Failed(e, err) \in Entry
       /\ e.attempts + 1 = MaxAttempts => Failed(e, err) \in DeadEntry
BY DEF Fresh, Failed, Entry, DeadEntry

LEMMA StrikeType ==
  ASSUME TypeOK, NEW k \in FaultKind, Strike(k)
  PROVE  faults' \in [FaultKind -> Nat]
BY DEF TypeOK, Strike

(* Whatever becomes of a write to pipeline_jobs, the row keeps its type. *)
LEMMA TrackType ==
  ASSUME TypeOK, NEW j \in Job, NEW s \in {"queued", "running", "done", "failed"}, Track(j, s)
  PROVE  /\ status' \in [Job -> {"none", "queued", "running", "done", "failed"}]
         /\ born' \in [Job -> Nat]
         /\ clock' \in Nat
         /\ old' \in SUBSET Job
         /\ faults' \in [FaultKind -> Nat]
<1>1. CASE WriteRow(j, s) /\ UNCHANGED faults
  <2>1. status' = [status EXCEPT ![j] = s] /\ old' \in SUBSET Job /\ faults' = faults
    BY <1>1 DEF TypeOK, WriteRow
  <2>2. clock' \in Nat /\ born' \in [Job -> Nat]
    <3>1. CASE born[j] = 0
      <4>1. clock' = clock + 1 /\ born' = [born EXCEPT ![j] = clock + 1]
        BY <1>1, <3>1 DEF WriteRow
      <4> QED BY <4>1 DEF TypeOK
    <3>2. CASE born[j] # 0
      BY <1>1, <3>2 DEF TypeOK, WriteRow
    <3> QED BY <3>1, <3>2
  <2> QED BY <2>1, <2>2 DEF TypeOK
<1>2. CASE Strike("db") /\ UNCHANGED rows
  BY <1>2, StrikeType DEF TypeOK, rows, FaultKind
<1> QED BY <1>1, <1>2 DEF Track

LEMMA GotoType ==
  ASSUME TypeOK, NEW w \in Worker, NEW from, NEW to \in Phase, Goto(w, from, to)
  PROVE  /\ pc' \in [Worker -> Phase]
         /\ pc[w] = from /\ pc'[w] = to
         /\ \A v \in Worker : v # w => pc'[v] = pc[v]
BY DEF TypeOK, Goto

(* Every step finds its operands and leaves values of the right types. *)
LEMMA TypesStep == Types /\ [Next]_vars => Types'
<1> SUFFICES ASSUME TypeOK, HandOK, [Next]_vars
             PROVE  TypeOK' /\ HandOK'
  BY DEF Types
<1> USE DEF TypeOK, HandOK, redis, rows, locals, history, Phase, Up, Unconcluded, Concluded, Reaping, Leaving, Goto, FaultKind
<1>1. ASSUME NEW j \in Job, InsertRow(j)
      PROVE  TypeOK' /\ HandOK'
  BY <1>1, TrackType DEF InsertRow
<1>2. ASSUME NEW j \in Job, Push(j)
      PROVE  TypeOK' /\ HandOK'
  BY <1>2, EntryTypes, SequenceSets DEF Push
<1>3. ASSUME NEW j \in Job, PushRefused(j)
      PROVE  TypeOK' /\ HandOK'
  BY <1>3, StrikeType DEF PushRefused
<1>4. ASSUME NEW j \in Job, Age(j)
      PROVE  TypeOK' /\ HandOK'
  BY <1>4 DEF Age
<1>5. ASSUME NEW w \in Worker, Start(w)
      PROVE  TypeOK' /\ HandOK'
  BY <1>5 DEF Start
<1>6. ASSUME NEW w \in Worker, ReapDue(w)
      PROVE  TypeOK' /\ HandOK'
  BY <1>6 DEF ReapDue
<1>7. ASSUME NEW w \in Worker, RecoverOne(w)
      PROVE  TypeOK' /\ HandOK'
  BY <1>7, StrikeType, SequenceHeadTail, SequenceSets DEF RecoverOne
<1>8. ASSUME NEW w \in Worker, Drained(w)
      PROVE  TypeOK' /\ HandOK'
  BY <1>8 DEF Drained
<1>9. ASSUME NEW w \in Worker, ScanDone(w)
      PROVE  TypeOK' /\ HandOK'
  BY <1>9 DEF ScanDone
<1>10. ASSUME NEW w \in Worker, Relabel(w)
      PROVE  TypeOK' /\ HandOK'
  BY <1>10, TrackType, EntryTypes, SequenceHeadTail, SequenceSets DEF Relabel
<1>11. ASSUME NEW w \in Worker, SnapshotHeld(w)
      PROVE  TypeOK' /\ HandOK'
  <2>1. ASSUME NEW v \in Worker, NEW e \in Held(v)
        PROVE  e.job \in Job
    <3>1. e \in Entry
      BY ElementOfSeq, LenProperties DEF Held, ToSet
    <3> QED BY <3>1, EntryTypes
  <2>2. HeldJobs \in SUBSET Job
    BY <2>1 DEF HeldJobs
  <2> QED BY <1>11, <2>2 DEF SnapshotHeld
<1>12. ASSUME NEW w \in Worker, SweepRows(w)
      PROVE  TypeOK' /\ HandOK'
  BY <1>12, StrikeType DEF SweepRows
<1>13. ASSUME NEW w \in Worker, ReapNotDue(w)
      PROVE  TypeOK' /\ HandOK'
  BY <1>13 DEF ReapNotDue
<1>14. ASSUME NEW w \in Worker, Repush(w)
      PROVE  TypeOK' /\ HandOK'
  BY <1>14, SequenceSets DEF Repush
<1>15. ASSUME NEW w \in Worker, PromoteDone(w)
      PROVE  TypeOK' /\ HandOK'
  BY <1>15 DEF PromoteDone
<1>16. ASSUME NEW w \in Worker, Reserve(w)
      PROVE  TypeOK' /\ HandOK'
  BY <1>16, SequenceHeadTail, SequenceSets DEF Reserve
<1>17. ASSUME NEW w \in Worker, ReserveTimeout(w)
      PROVE  TypeOK' /\ HandOK'
  BY <1>17 DEF ReserveTimeout
<1>18. ASSUME NEW w \in Worker, RejectUnknown(w)
      PROVE  TypeOK' /\ HandOK'
  <2>1. raw[w] \in Entry /\ raw[w].job \in Job
    BY <1>18, EntryTypes DEF RejectUnknown
  <2> QED BY <1>18, <2>1, TrackType DEF RejectUnknown
<1>19. ASSUME NEW w \in Worker, FindSuperseded(w)
      PROVE  TypeOK' /\ HandOK'
  BY <1>19 DEF FindSuperseded
<1>20. ASSUME NEW w \in Worker, SkipSuperseded(w)
      PROVE  TypeOK' /\ HandOK'
  <2>1. raw[w] \in Entry /\ raw[w].job \in Job
    BY <1>20, EntryTypes DEF SkipSuperseded
  <2> QED BY <1>20, <2>1, TrackType DEF SkipSuperseded
<1>21. ASSUME NEW w \in Worker, Accept(w)
      PROVE  TypeOK' /\ HandOK'
  BY <1>21, StrikeType DEF Accept
<1>22. ASSUME NEW w \in Worker, Begin(w)
      PROVE  TypeOK' /\ HandOK'
  BY <1>22, TrackType, EntryTypes DEF Begin
<1>23. ASSUME NEW w \in Worker, HandlerReturns(w)
      PROVE  TypeOK' /\ HandOK'
  <2>1. raw[w] \in Entry /\ raw[w].job \in Job
    BY <1>23, EntryTypes DEF HandlerReturns
  <2> QED BY <1>23, <2>1 DEF HandlerReturns
<1>24. ASSUME NEW w \in Worker, HandlerRaises(w)
      PROVE  TypeOK' /\ HandOK'
  BY <1>24, EntryTypes DEF HandlerRaises
<1>25. ASSUME NEW w \in Worker, Finish(w)
      PROVE  TypeOK' /\ HandOK'
  BY <1>25, TrackType, EntryTypes DEF Finish
<1>26. ASSUME NEW w \in Worker, MarkQueued(w)
      PROVE  TypeOK' /\ HandOK'
  BY <1>26, TrackType, EntryTypes DEF MarkQueued
<1>27. ASSUME NEW w \in Worker, MarkFailed(w)
      PROVE  TypeOK' /\ HandOK'
  BY <1>27, TrackType, EntryTypes DEF MarkFailed
<1>28. ASSUME NEW w \in Worker, Ack(w)
      PROVE  TypeOK' /\ HandOK'
  BY <1>28, RemoveFirstProperties DEF Ack, Unhold
<1>29. ASSUME NEW w \in Worker, AckAndLeave(w)
      PROVE  TypeOK' /\ HandOK'
  <2>1. raw[w] \in Entry /\ raw[w].job \in Job
    BY <1>29, EntryTypes DEF AckAndLeave
  <2>2. RemoveFirst(processing[w], raw[w]) \in Seq(Entry)
    BY RemoveFirstProperties
  <2>3. TypeOK'
    BY <1>29, <2>1, <2>2 DEF AckAndLeave, Unhold, Forget
  <2>4. HandOK'
    BY <1>29 DEF AckAndLeave, Unhold, Forget
  <2> QED BY <2>3, <2>4
<1>30. ASSUME NEW w \in Worker, Heartbeat(w)
      PROVE  TypeOK' /\ HandOK'
  BY <1>30 DEF Heartbeat
<1>31. ASSUME NEW w \in Worker, Expire(w)
      PROVE  TypeOK' /\ HandOK'
  BY <1>31 DEF Expire
<1>32. ASSUME NEW w \in Worker, Crash(w)
      PROVE  TypeOK' /\ HandOK'
  <2>1. dropped' \in SUBSET Job
    BY <1>32, EntryTypes DEF Crash
  <2>2. faults' \in [FaultKind -> Nat]
    BY <1>32, StrikeType DEF Crash
  <2>3. TypeOK'
    BY <1>32, <2>1, <2>2 DEF Crash, Forget
  <2>4. HandOK'
    BY <1>32 DEF Crash, Forget
  <2> QED BY <2>3, <2>4
<1>33. ASSUME NEW w \in Worker, Unwind(w)
      PROVE  TypeOK' /\ HandOK'
  BY <1>33, StrikeType DEF Unwind
<1>34. ASSUME NEW w \in Worker, Lapse(w)
      PROVE  TypeOK' /\ HandOK'
  BY <1>34 DEF Lapse
<1>35. ASSUME NEW w \in Worker, NEW v \in Worker, FindOrphans(w, v)
      PROVE  TypeOK' /\ HandOK'
  BY <1>35 DEF FindOrphans
<1>36. ASSUME NEW w \in Worker, NEW e \in delayed, TakeDelayed(w, e)
      PROVE  TypeOK' /\ HandOK'
  BY <1>36 DEF TakeDelayed
<1>37. ASSUME NEW w \in Worker, NEW err \in Error, RetryLater(w, err)
      PROVE  TypeOK' /\ HandOK'
  BY <1>37, EntryTypes DEF RetryLater
<1>38. ASSUME NEW w \in Worker, NEW err \in Error, Bury(w, err)
      PROVE  TypeOK' /\ HandOK'
  BY <1>38, EntryTypes DEF Bury
<1>39. CASE UNCHANGED vars
  BY <1>39 DEF vars
<1> QED
  BY <1>1, <1>2, <1>3, <1>4, <1>5, <1>6, <1>7, <1>8, <1>9, <1>10, <1>11, <1>12, <1>13, <1>14, <1>15, <1>16, <1>17, <1>18, <1>19, <1>20, <1>21, <1>22, <1>23, <1>24, <1>25, <1>26, <1>27, <1>28, <1>29, <1>30, <1>31, <1>32, <1>33, <1>34, <1>35, <1>36, <1>37, <1>38, <1>39 DEF Next, Work, Reap, Take, Process

LEMMA TypesInit == Init => Types
<1> SUFFICES ASSUME Init
             PROVE  Types
  OBVIOUS
<1>1. TypeOK
  BY EmptySeq DEF Init, TypeOK, Phase, FaultKind
<1>2. HandOK
  BY DEF Init, HandOK, Unconcluded, Concluded, Leaving
<1> QED BY <1>1, <1>2 DEF Types

(* The types of every variable are right in every reachable state. *)
THEOREM TypeCorrect == Spec => []TypeOK
<1>1. Types => TypeOK
  BY DEF Types
<1> QED BY <1>1, TypesInit, TypesStep, PTL DEF Spec

-----------------------------------------------------------------------------
LEMMA AtMostOne == \A m \in Nat : m <= 1 /\ m # 0 => m = 1
OBVIOUS

(* A worker's own list.  The ack empties it, because it holds at most the  *)
(* very text that is removed.                                              *)
LEMMA UnholdEmpties ==
  ASSUME NEW S, NEW s \in Seq(S), NEW e, Len(s) <= 1, s # <<>> => Head(s) = e
  PROVE  RemoveFirst(s, e) = <<>>
<1>1. RemoveFirst(s, e) \in Seq(S)
  BY RemoveFirstProperties
<1>2. CASE s = <<>>
  <2>1. Len(s) = 0
    BY <1>2
  <2> QED BY <1>2, <2>1 DEF RemoveFirst
<1>3. CASE s # <<>>
  <2>1. Len(s) = 1
    <3>1. Len(s) \in Nat /\ Len(s) # 0
      BY <1>3, EmptySeq, LenProperties
    <3> QED BY <3>1, AtMostOne, Zenon
  <2>2. s[1] = e
    BY <1>3
  <2>3. Len(RemoveFirst(s, e)) = 0
    BY <2>1, <2>2, RemoveFirstProperties
  <2> QED BY <1>1, <2>3, EmptySeq
<1> QED BY <1>2, <1>3

LEMMA OneJobStep == Types /\ OneJobPerWorker /\ [Next]_vars => OneJobPerWorker'
<1> SUFFICES ASSUME TypeOK, HandOK, OneJobPerWorker, [Next]_vars
             PROVE  OneJobPerWorker'
  BY DEF Types
<1> USE DEF TypeOK, OneJobPerWorker, redis, locals, Unconcluded, Concluded, Leaving, Goto
<1>1. ASSUME NEW j \in Job, InsertRow(j)
      PROVE  OneJobPerWorker'
  BY <1>1 DEF InsertRow
<1>2. ASSUME NEW j \in Job, Push(j)
      PROVE  OneJobPerWorker'
  BY <1>2 DEF Push
<1>3. ASSUME NEW j \in Job, PushRefused(j)
      PROVE  OneJobPerWorker'
  BY <1>3 DEF PushRefused
<1>4. ASSUME NEW j \in Job, Age(j)
      PROVE  OneJobPerWorker'
  BY <1>4 DEF Age
<1>5. ASSUME NEW w \in Worker, Start(w)
      PROVE  OneJobPerWorker'
  BY <1>5 DEF Start
<1>6. ASSUME NEW w \in Worker, ReapDue(w)
      PROVE  OneJobPerWorker'
  BY <1>6 DEF ReapDue
<1>7. ASSUME NEW w \in Worker, RecoverOne(w)
      PROVE  OneJobPerWorker'
  <2> DEFINE u == target[w]
  <2>1. u \in Worker /\ processing[u] \in Seq(Entry) /\ processing[u] # <<>>
    BY <1>7 DEF RecoverOne, HandOK
  <2>2. Len(processing[u]) \in Nat /\ Len(processing[u]) # 0
    BY <2>1, LenProperties, EmptySeq
  <2>3. Tail(processing[u]) \in Seq(Entry) /\ Len(Tail(processing[u])) = 0
    <3>1. Tail(processing[u]) \in Seq(Entry) /\ Len(Tail(processing[u])) = Len(processing[u]) - 1
      BY <2>1, HeadTailProperties
    <3>2. Len(processing[u]) <= 1
      BY <2>1
    <3>3. Len(processing[u]) = 1
      BY <2>2, <3>2, AtMostOne, Zenon
    <3>4. 1 - 1 = 0
      OBVIOUS
    <3> QED BY <3>1, <3>3, <3>4, Zenon
  <2>4. Tail(processing[u]) = <<>>
    BY <2>3, EmptySeq
  <2>5. processing' = [processing EXCEPT ![u] = <<>>] /\ UNCHANGED <<pc, raw>>
    BY <1>7, <2>4 DEF RecoverOne
  <2> QED BY <2>1, <2>5
<1>8. ASSUME NEW w \in Worker, Drained(w)
      PROVE  OneJobPerWorker'
  BY <1>8 DEF Drained
<1>9. ASSUME NEW w \in Worker, ScanDone(w)
      PROVE  OneJobPerWorker'
  BY <1>9 DEF ScanDone
<1>10. ASSUME NEW w \in Worker, Relabel(w)
      PROVE  OneJobPerWorker'
  BY <1>10 DEF Relabel
<1>11. ASSUME NEW w \in Worker, SnapshotHeld(w)
      PROVE  OneJobPerWorker'
  BY <1>11 DEF SnapshotHeld
<1>12. ASSUME NEW w \in Worker, SweepRows(w)
      PROVE  OneJobPerWorker'
  BY <1>12 DEF SweepRows
<1>13. ASSUME NEW w \in Worker, ReapNotDue(w)
      PROVE  OneJobPerWorker'
  BY <1>13 DEF ReapNotDue
<1>14. ASSUME NEW w \in Worker, Repush(w)
      PROVE  OneJobPerWorker'
  BY <1>14 DEF Repush
<1>15. ASSUME NEW w \in Worker, PromoteDone(w)
      PROVE  OneJobPerWorker'
  BY <1>15 DEF PromoteDone
<1>16. ASSUME NEW w \in Worker, Reserve(w)
      PROVE  OneJobPerWorker'
  <2>1. processing[w] = <<>> /\ queue \in Seq(Entry) /\ queue # <<>>
    BY <1>16 DEF Reserve
  <2>2. Head(queue) \in Entry
    BY <2>1, SequenceHeadTail
  <2>3. <<Head(queue)>> \o <<>> = <<Head(queue)>>
    BY <2>2
  <2>4. processing' = [processing EXCEPT ![w] = <<Head(queue)>>]
    BY <1>16, <2>1, <2>3 DEF Reserve
  <2> QED BY <1>16, <2>2, <2>4 DEF Reserve
<1>17. ASSUME NEW w \in Worker, ReserveTimeout(w)
      PROVE  OneJobPerWorker'
  BY <1>17 DEF ReserveTimeout
<1>18. ASSUME NEW w \in Worker, RejectUnknown(w)
      PROVE  OneJobPerWorker'
  BY <1>18 DEF RejectUnknown
<1>19. ASSUME NEW w \in Worker, FindSuperseded(w)
      PROVE  OneJobPerWorker'
  BY <1>19 DEF FindSuperseded
<1>20. ASSUME NEW w \in Worker, SkipSuperseded(w)
      PROVE  OneJobPerWorker'
  BY <1>20 DEF SkipSuperseded
<1>21. ASSUME NEW w \in Worker, Accept(w)
      PROVE  OneJobPerWorker'
  BY <1>21 DEF Accept
<1>22. ASSUME NEW w \in Worker, Begin(w)
      PROVE  OneJobPerWorker'
  BY <1>22 DEF Begin
<1>23. ASSUME NEW w \in Worker, HandlerReturns(w)
      PROVE  OneJobPerWorker'
  BY <1>23 DEF HandlerReturns
<1>24. ASSUME NEW w \in Worker, HandlerRaises(w)
      PROVE  OneJobPerWorker'
  BY <1>24 DEF HandlerRaises
<1>25. ASSUME NEW w \in Worker, Finish(w)
      PROVE  OneJobPerWorker'
  BY <1>25 DEF Finish
<1>26. ASSUME NEW w \in Worker, MarkQueued(w)
      PROVE  OneJobPerWorker'
  BY <1>26 DEF MarkQueued
<1>27. ASSUME NEW w \in Worker, MarkFailed(w)
      PROVE  OneJobPerWorker'
  BY <1>27 DEF MarkFailed
<1>28. ASSUME NEW w \in Worker, Ack(w)
      PROVE  OneJobPerWorker'
  <2>1. RemoveFirst(processing[w], raw[w]) = <<>>
    BY <1>28, UnholdEmpties DEF Ack
  <2> QED BY <1>28, <2>1 DEF Ack, Unhold
<1>29. ASSUME NEW w \in Worker, AckAndLeave(w)
      PROVE  OneJobPerWorker'
  <2>1. RemoveFirst(processing[w], raw[w]) = <<>>
    BY <1>29, UnholdEmpties DEF AckAndLeave
  <2> QED BY <1>29, <2>1 DEF AckAndLeave, Unhold, Forget
<1>30. ASSUME NEW w \in Worker, Heartbeat(w)
      PROVE  OneJobPerWorker'
  BY <1>30 DEF Heartbeat
<1>31. ASSUME NEW w \in Worker, Expire(w)
      PROVE  OneJobPerWorker'
  BY <1>31 DEF Expire
<1>32. ASSUME NEW w \in Worker, Crash(w)
      PROVE  OneJobPerWorker'
  BY <1>32 DEF Crash, Forget, Up, Reaping
<1>33. ASSUME NEW w \in Worker, Unwind(w)
      PROVE  OneJobPerWorker'
  BY <1>33 DEF Unwind
<1>34. ASSUME NEW w \in Worker, Lapse(w)
      PROVE  OneJobPerWorker'
  BY <1>34 DEF Lapse
<1>35. ASSUME NEW w \in Worker, NEW v \in Worker, FindOrphans(w, v)
      PROVE  OneJobPerWorker'
  BY <1>35 DEF FindOrphans
<1>36. ASSUME NEW w \in Worker, NEW e \in delayed, TakeDelayed(w, e)
      PROVE  OneJobPerWorker'
  BY <1>36 DEF TakeDelayed
<1>37. ASSUME NEW w \in Worker, NEW err \in Error, RetryLater(w, err)
      PROVE  OneJobPerWorker'
  BY <1>37 DEF RetryLater
<1>38. ASSUME NEW w \in Worker, NEW err \in Error, Bury(w, err)
      PROVE  OneJobPerWorker'
  BY <1>38 DEF Bury
<1>39. CASE UNCHANGED vars
  BY <1>39 DEF vars
<1> QED
  BY <1>1, <1>2, <1>3, <1>4, <1>5, <1>6, <1>7, <1>8, <1>9, <1>10, <1>11, <1>12, <1>13, <1>14, <1>15, <1>16, <1>17, <1>18, <1>19, <1>20, <1>21, <1>22, <1>23, <1>24, <1>25, <1>26, <1>27, <1>28, <1>29, <1>30, <1>31, <1>32, <1>33, <1>34, <1>35, <1>36, <1>37, <1>38, <1>39 DEF Next, Work, Reap, Take, Process

(* A worker holds at most the job it works on, and no other.  It follows  *)
(* that the LREM of its ack always finds the text that it removes, unless *)
(* recover_orphans took it away first.                                    *)
THEOREM OneJobHeld == Spec => []OneJobPerWorker
<1> DEFINE IInv == Types /\ OneJobPerWorker
<1>1. Init => IInv
  <2> SUFFICES ASSUME Init
               PROVE  IInv
    OBVIOUS
  <2>1. Types
    BY TypesInit
  <2>2. OneJobPerWorker
    BY EmptySeq DEF Init, OneJobPerWorker
  <2> QED BY <2>1, <2>2
<1>2. IInv /\ [Next]_vars => IInv'
  BY TypesStep, OneJobStep
<1>3. IInv => OneJobPerWorker
  OBVIOUS
<1> QED BY <1>1, <1>2, <1>3, PTL DEF Spec

-----------------------------------------------------------------------------
(* Delivery.  First, what no step forgets: the settled jobs only grow, and *)
(* a copy that leaves Redis is the one a worker acknowledges or drops.     *)
Remembered ==
  /\ ran \subseteq ran' /\ skipped \subseteq skipped' /\ rejected \subseteq rejected'
  /\ dropped \subseteq dropped' /\ dead \subseteq dead'

(* The worker w acknowledges the job that it has in hand. *)
Acknowledges(w) == Ack(w) \/ (AckAndLeave(w) /\ pc[w] = "exit")

Kept == \A e \in Copies :
          \/ e \in Copies'
          \/ e.job \in dropped'
          \/ \E w \in Worker : Acknowledges(w) /\ e = raw[w]

(* Where no copy is taken out, all of them are kept. *)
LEMMA CopiesGrow ==
  ASSUME ToSet(queue) \subseteq ToSet(queue)', delayed \subseteq delayed',
         \A w \in Worker : Held(w) \subseteq Held(w)',
         \A w \in Worker : pc[w] = "repush" => pc'[w] = "repush" /\ raw'[w] = raw[w]
  PROVE  Copies \subseteq Copies'
<1>1. ASSUME NEW w \in Worker
      PROVE  InFlight(w) \subseteq InFlight(w)'
  BY DEF InFlight
<1> QED BY <1>1 DEF Copies

LEMMA QuietStep ==
  ASSUME UNCHANGED <<queue, processing>>, delayed \subseteq delayed',
         \A w \in Worker : pc[w] = "repush" => pc'[w] = "repush" /\ raw'[w] = raw[w]
  PROVE  Kept
<1>1. Copies \subseteq Copies'
  BY CopiesGrow DEF Held
<1> QED BY <1>1 DEF Kept

LEMMA PushSet ==
  ASSUME queue \in Seq(Entry), NEW STATE e, e \in Entry, queue' = Append(queue, e)
  PROVE  ToSet(queue)' = ToSet(queue) \cup {e}
<1> DEFINE s == queue
           q == queue'
<1>1. /\ Len(q) = Len(s) + 1 /\ Len(s) \in Nat /\ s \in Seq(Entry) /\ q \in Seq(Entry)
      /\ \A i \in 1 .. Len(s) : q[i] = s[i]
      /\ q[Len(s) + 1] = e
  BY AppendProperties, LenProperties
<1> HIDE DEF s, q
<1>2. DOMAIN q = 1 .. Len(s) + 1 /\ DOMAIN s = 1 .. Len(s)
  BY <1>1, LenProperties
<1>3. \A i \in 1 .. Len(s) + 1 : i \in 1 .. Len(s) \/ i = Len(s) + 1
  BY <1>1
<1>4. ToSet(q) \subseteq ToSet(s) \cup {e}
  <2> SUFFICES ASSUME NEW i \in 1 .. Len(s) + 1
               PROVE  q[i] \in ToSet(s) \cup {e}
    BY <1>2 DEF ToSet
  <2> QED BY <1>1, <1>2, <1>3 DEF ToSet
<1>5. ToSet(s) \cup {e} \subseteq ToSet(q)
  <2>1. Len(s) + 1 \in 1 .. Len(s) + 1 /\ \A i \in 1 .. Len(s) : i \in 1 .. Len(s) + 1
    BY <1>1
  <2>2. \A i \in 1 .. Len(s) + 1 : q[i] \in ToSet(q)
    BY <1>2 DEF ToSet
  <2> QED BY <1>1, <1>2, <2>1, <2>2 DEF ToSet
<1> QED BY <1>4, <1>5 DEF s, q

LEMMA StepKeepsCopies == Types /\ [Next]_vars => Remembered /\ Kept
<1> SUFFICES ASSUME TypeOK, HandOK, [Next]_vars
             PROVE  Remembered /\ Kept
  BY DEF Types
<1> USE DEF TypeOK, redis, locals, history, Unconcluded, Concluded, Leaving, Goto
<1>1. ASSUME NEW j \in Job, InsertRow(j)
      PROVE  Remembered /\ Kept
  BY <1>1, QuietStep DEF InsertRow, Remembered
<1>2. ASSUME NEW j \in Job, Push(j)
      PROVE  Remembered /\ Kept
  <2>1. ToSet(queue) \subseteq ToSet(queue)'
    <3> DEFINE f == Fresh(j)
    <3>1. f \in Entry /\ queue' = Append(queue, f)
      BY <1>2, EntryTypes DEF Push
    <3> HIDE DEF f
    <3>2. queue \in Seq(Entry)
      OBVIOUS
    <3>3. ToSet(queue') = ToSet(queue) \cup {f}
      BY <3>1, <3>2, PushSet, Zenon
    <3> QED BY <3>3
  <2>2. Copies \subseteq Copies'
    BY <1>2, <2>1, CopiesGrow DEF Push, Held
  <2>3. Remembered
    BY <1>2 DEF Push, Remembered
  <2> QED BY <2>2, <2>3 DEF Kept
<1>3. ASSUME NEW j \in Job, PushRefused(j)
      PROVE  Remembered /\ Kept
  BY <1>3, QuietStep DEF PushRefused, Remembered
<1>4. ASSUME NEW j \in Job, Age(j)
      PROVE  Remembered /\ Kept
  BY <1>4, QuietStep DEF Age, Remembered
<1>5. ASSUME NEW w \in Worker, Start(w)
      PROVE  Remembered /\ Kept
  BY <1>5, QuietStep DEF Start, Remembered
<1>6. ASSUME NEW w \in Worker, ReapDue(w)
      PROVE  Remembered /\ Kept
  BY <1>6, QuietStep DEF ReapDue, Remembered
<1>7. ASSUME NEW w \in Worker, RecoverOne(w)
      PROVE  Remembered /\ Kept
  <2> DEFINE u == target[w]
             h == Head(processing[u])
             t == Tail(processing[u])
  <2>1. u \in Worker /\ processing[u] \in Seq(Entry) /\ processing[u] # <<>> /\ queue \in Seq(Entry)
    BY <1>7 DEF RecoverOne, HandOK
  <2>2. h \in Entry /\ t \in Seq(Entry) /\ ToSet(processing[u]) = ToSet(t) \cup {h}
    BY <2>1, SequenceHeadTail
  <2>3. queue' = <<h>> \o queue /\ processing' = [processing EXCEPT ![u] = t]
    BY <1>7 DEF RecoverOne
  <2>4. UNCHANGED <<delayed, pc, raw>> /\ Remembered
    BY <1>7 DEF RecoverOne, Remembered
  <2> HIDE DEF u, h, t
  <2>5. ToSet(queue)' = ToSet(queue) \cup {h}
    BY <2>1, <2>2, <2>3, SequenceSets
  <2>6. ASSUME NEW v \in Worker
        PROVE  Held(v) \subseteq Held(v)' \cup {h}
    BY <2>1, <2>2, <2>3 DEF Held
  <2>7. ASSUME NEW v \in Worker
        PROVE  InFlight(v)' = InFlight(v)
    BY <2>4 DEF InFlight
  <2>8. Copies \subseteq Copies'
    BY <2>4, <2>5, <2>6, <2>7 DEF Copies
  <2> QED BY <2>4, <2>8 DEF Kept
<1>8. ASSUME NEW w \in Worker, Drained(w)
      PROVE  Remembered /\ Kept
  BY <1>8, QuietStep DEF Drained, Remembered
<1>9. ASSUME NEW w \in Worker, ScanDone(w)
      PROVE  Remembered /\ Kept
  BY <1>9, QuietStep DEF ScanDone, Remembered
<1>10. ASSUME NEW w \in Worker, Relabel(w)
      PROVE  Remembered /\ Kept
  BY <1>10, QuietStep DEF Relabel, Remembered
<1>11. ASSUME NEW w \in Worker, SnapshotHeld(w)
      PROVE  Remembered /\ Kept
  BY <1>11, QuietStep DEF SnapshotHeld, Remembered
<1>12. ASSUME NEW w \in Worker, SweepRows(w)
      PROVE  Remembered /\ Kept
  BY <1>12, QuietStep DEF SweepRows, Remembered
<1>13. ASSUME NEW w \in Worker, ReapNotDue(w)
      PROVE  Remembered /\ Kept
  BY <1>13, QuietStep DEF ReapNotDue, Remembered
<1>14. ASSUME NEW w \in Worker, Repush(w)
      PROVE  Remembered /\ Kept
  <2>1. pc[w] = "repush" /\ raw[w] \in Entry /\ queue' = Append(queue, raw[w])
    BY <1>14 DEF Repush, HandOK
  <2>2. ToSet(queue)' = ToSet(queue) \cup {raw[w]}
    <3> DEFINE r == raw[w]
    <3>1. r \in Entry /\ queue' = Append(queue, r) /\ queue \in Seq(Entry)
      BY <2>1
    <3> HIDE DEF r
    <3>2. ToSet(queue') = ToSet(queue) \cup {r}
      BY <3>1, PushSet, Zenon
    <3> QED BY <3>2 DEF r
  <2>3. UNCHANGED <<delayed, processing>> /\ Remembered
    BY <1>14 DEF Repush, Remembered
  <2>4. \A v \in Worker : Held(v)' = Held(v)
    BY <2>3 DEF Held
  <2>5. \A v \in Worker : v # w => pc'[v] = pc[v] /\ raw'[v] = raw[v]
    BY <1>14 DEF Repush
  <2>6. \A v \in Worker : InFlight(v) \subseteq InFlight(v)' \cup {raw[w]}
    BY <2>1, <2>5 DEF InFlight
  <2>7. Copies \subseteq Copies'
    BY <2>2, <2>3, <2>4, <2>6 DEF Copies
  <2> QED BY <2>3, <2>7 DEF Kept
<1>15. ASSUME NEW w \in Worker, PromoteDone(w)
      PROVE  Remembered /\ Kept
  BY <1>15, QuietStep DEF PromoteDone, Remembered
<1>16. ASSUME NEW w \in Worker, Reserve(w)
      PROVE  Remembered /\ Kept
  <2> DEFINE h == Head(queue)
             t == Tail(queue)
  <2>1. queue # <<>> /\ queue' = t /\ processing' = [processing EXCEPT ![w] = <<h>> \o @]
    BY <1>16 DEF Reserve
  <2>2. h \in Entry /\ t \in Seq(Entry) /\ ToSet(queue) = ToSet(t) \cup {h}
    BY <2>1, SequenceHeadTail
  <2>3. delayed' = delayed /\ Remembered
    BY <1>16 DEF Reserve, Remembered
  <2>4. pc[w] = "reserve" /\ \A v \in Worker : v # w => pc'[v] = pc[v] /\ raw'[v] = raw[v]
    BY <1>16 DEF Reserve
  <2> HIDE DEF h, t
  <2>5. ToSet(queue) = ToSet(queue)' \cup {h}
    BY <2>1, <2>2
  <2>6. processing[w] \in Seq(Entry) /\ ToSet(<<h>> \o processing[w]) = ToSet(processing[w]) \cup {h}
    BY <2>2, SequenceSets
  <2>7. h \in Held(w)' /\ \A v \in Worker : Held(v) \subseteq Held(v)'
    BY <2>1, <2>6 DEF Held
  <2>8. \A v \in Worker : InFlight(v) \subseteq InFlight(v)'
    BY <2>4 DEF InFlight
  <2>9. Copies \subseteq Copies'
    BY <2>3, <2>5, <2>7, <2>8 DEF Copies
  <2> QED BY <2>3, <2>9 DEF Kept
<1>17. ASSUME NEW w \in Worker, ReserveTimeout(w)
      PROVE  Remembered /\ Kept
  BY <1>17, QuietStep DEF ReserveTimeout, Remembered
<1>18. ASSUME NEW w \in Worker, RejectUnknown(w)
      PROVE  Remembered /\ Kept
  BY <1>18, QuietStep DEF RejectUnknown, Remembered
<1>19. ASSUME NEW w \in Worker, FindSuperseded(w)
      PROVE  Remembered /\ Kept
  BY <1>19, QuietStep DEF FindSuperseded, Remembered
<1>20. ASSUME NEW w \in Worker, SkipSuperseded(w)
      PROVE  Remembered /\ Kept
  BY <1>20, QuietStep DEF SkipSuperseded, Remembered
<1>21. ASSUME NEW w \in Worker, Accept(w)
      PROVE  Remembered /\ Kept
  BY <1>21, QuietStep DEF Accept, Remembered
<1>22. ASSUME NEW w \in Worker, Begin(w)
      PROVE  Remembered /\ Kept
  BY <1>22, QuietStep DEF Begin, Remembered
<1>23. ASSUME NEW w \in Worker, HandlerReturns(w)
      PROVE  Remembered /\ Kept
  BY <1>23, QuietStep DEF HandlerReturns, Remembered
<1>24. ASSUME NEW w \in Worker, HandlerRaises(w)
      PROVE  Remembered /\ Kept
  BY <1>24, QuietStep DEF HandlerRaises, Remembered
<1>25. ASSUME NEW w \in Worker, Finish(w)
      PROVE  Remembered /\ Kept
  BY <1>25, QuietStep DEF Finish, Remembered
<1>26. ASSUME NEW w \in Worker, MarkQueued(w)
      PROVE  Remembered /\ Kept
  BY <1>26, QuietStep DEF MarkQueued, Remembered
<1>27. ASSUME NEW w \in Worker, MarkFailed(w)
      PROVE  Remembered /\ Kept
  BY <1>27, QuietStep DEF MarkFailed, Remembered
<1>28. ASSUME NEW w \in Worker, Ack(w)
      PROVE  Remembered /\ Kept
  <2>1. /\ UNCHANGED <<queue, delayed>> /\ Remembered
        /\ pc[w] # "repush" /\ \A v \in Worker : v # w => pc'[v] = pc[v] /\ raw'[v] = raw[v]
        /\ processing' = [processing EXCEPT ![w] = RemoveFirst(@, raw[w])]
        /\ Acknowledges(w)
    BY <1>28 DEF Ack, Unhold, Remembered, Acknowledges
  <2>2. ToSet(processing[w]) \subseteq ToSet(RemoveFirst(processing[w], raw[w])) \cup {raw[w]}
    BY RemoveFirstProperties
  <2>3. \A v \in Worker : Held(v) \subseteq Held(v)' \cup {raw[w]}
    BY <2>1, <2>2 DEF Held
  <2>4. \A v \in Worker : InFlight(v) \subseteq InFlight(v)'
    BY <2>1 DEF InFlight
  <2>5. \A e \in Copies : e \in Copies' \/ e = raw[w]
    BY <2>1, <2>3, <2>4 DEF Copies
  <2> QED BY <2>1, <2>5 DEF Kept
<1>29. ASSUME NEW w \in Worker, AckAndLeave(w)
      PROVE  Remembered /\ Kept
  <2>1. /\ UNCHANGED <<queue, delayed>> /\ Remembered
        /\ pc[w] # "repush" /\ \A v \in Worker : v # w => pc'[v] = pc[v] /\ raw'[v] = raw[v]
        /\ processing' = [processing EXCEPT ![w] = RemoveFirst(@, raw[w])]
        /\ Acknowledges(w) \/ raw[w].job \in dropped'
    BY <1>29 DEF AckAndLeave, Forget, Unhold, Remembered, Acknowledges
  <2>2. ToSet(processing[w]) \subseteq ToSet(RemoveFirst(processing[w], raw[w])) \cup {raw[w]}
    BY RemoveFirstProperties
  <2>3. \A v \in Worker : Held(v) \subseteq Held(v)' \cup {raw[w]}
    BY <2>1, <2>2 DEF Held
  <2>4. \A v \in Worker : InFlight(v) \subseteq InFlight(v)'
    BY <2>1 DEF InFlight
  <2>5. \A e \in Copies : e \in Copies' \/ e = raw[w]
    BY <2>1, <2>3, <2>4 DEF Copies
  <2> QED BY <2>1, <2>5 DEF Kept
<1>30. ASSUME NEW w \in Worker, Heartbeat(w)
      PROVE  Remembered /\ Kept
  BY <1>30, QuietStep DEF Heartbeat, Remembered
<1>31. ASSUME NEW w \in Worker, Expire(w)
      PROVE  Remembered /\ Kept
  BY <1>31, QuietStep DEF Expire, Remembered
<1>32. ASSUME NEW w \in Worker, Crash(w)
      PROVE  Remembered /\ Kept
  <2>1. /\ UNCHANGED <<queue, delayed, processing>> /\ Remembered
        /\ \A v \in Worker : v # w => pc'[v] = pc[v] /\ raw'[v] = raw[v]
        /\ pc[w] = "repush" => raw[w].job \in dropped'
    BY <1>32 DEF Crash, Forget, Remembered
  <2>2. \A v \in Worker : Held(v)' = Held(v)
    BY <2>1 DEF Held
  <2>3. \A v \in Worker : v # w => InFlight(v)' = InFlight(v)
    BY <2>1 DEF InFlight
  <2>4. \A e \in InFlight(w) : e.job \in dropped'
    BY <2>1 DEF InFlight
  <2>5. ASSUME NEW e \in Copies
        PROVE  e \in Copies' \/ e.job \in dropped'
    <3>1. CASE e \in ToSet(queue) \cup delayed
      BY <2>1, <3>1 DEF Copies
    <3>2. CASE \E v \in Worker : e \in Held(v)
      BY <2>2, <3>2 DEF Copies
    <3>3. CASE \E v \in Worker : v # w /\ e \in InFlight(v)
      BY <2>3, <3>3 DEF Copies
    <3>4. CASE e \in InFlight(w)
      BY <2>4, <3>4
    <3> QED BY <3>1, <3>2, <3>3, <3>4 DEF Copies
  <2> QED BY <2>1, <2>5 DEF Kept
<1>33. ASSUME NEW w \in Worker, Unwind(w)
      PROVE  Remembered /\ Kept
  BY <1>33, QuietStep DEF Unwind, Remembered
<1>34. ASSUME NEW w \in Worker, Lapse(w)
      PROVE  Remembered /\ Kept
  BY <1>34, QuietStep DEF Lapse, Remembered
<1>35. ASSUME NEW w \in Worker, NEW v \in Worker, FindOrphans(w, v)
      PROVE  Remembered /\ Kept
  BY <1>35, QuietStep DEF FindOrphans, Remembered
<1>36. ASSUME NEW w \in Worker, NEW e \in delayed, TakeDelayed(w, e)
      PROVE  Remembered /\ Kept
  <2>1. /\ pc[w] = "promote" /\ pc' = [pc EXCEPT ![w] = "repush"]
        /\ delayed' = delayed \ {e} /\ raw' = [raw EXCEPT ![w] = e]
        /\ UNCHANGED <<queue, processing>> /\ Remembered
    BY <1>36 DEF TakeDelayed, Remembered
  <2>2. \A v \in Worker : Held(v)' = Held(v)
    BY <2>1 DEF Held
  <2>3. \A v \in Worker : InFlight(v) \subseteq InFlight(v)'
    BY <2>1 DEF InFlight
  <2>4. InFlight(w)' = {e}
    BY <2>1 DEF InFlight
  <2>5. Copies \subseteq Copies'
    BY <2>1, <2>2, <2>3, <2>4 DEF Copies
  <2> QED BY <2>1, <2>5 DEF Kept
<1>37. ASSUME NEW w \in Worker, NEW err \in Error, RetryLater(w, err)
      PROVE  Remembered /\ Kept
  BY <1>37, QuietStep DEF RetryLater, Remembered
<1>38. ASSUME NEW w \in Worker, NEW err \in Error, Bury(w, err)
      PROVE  Remembered /\ Kept
  BY <1>38, QuietStep DEF Bury, Remembered
<1>39. CASE UNCHANGED vars
  BY QuietStep, <1>39 DEF vars, Remembered
<1> QED
  BY <1>1, <1>2, <1>3, <1>4, <1>5, <1>6, <1>7, <1>8, <1>9, <1>10, <1>11, <1>12, <1>13, <1>14, <1>15, <1>16, <1>17, <1>18, <1>19, <1>20, <1>21, <1>22, <1>23, <1>24, <1>25, <1>26, <1>27, <1>28, <1>29, <1>30, <1>31, <1>32, <1>33, <1>34, <1>35, <1>36, <1>37, <1>38, <1>39 DEF Next, Work, Reap, Take, Process

LEMMA CopiesType == Types => Copies \subseteq Entry
<1> SUFFICES ASSUME TypeOK, HandOK
             PROVE  Copies \subseteq Entry
  BY DEF Types
<1>1. \A s \in Seq(Entry) : ToSet(s) \subseteq Entry
  BY ElementOfSeq, LenProperties DEF ToSet
<1>2. ToSet(queue) \subseteq Entry /\ delayed \subseteq Entry
  BY <1>1 DEF TypeOK
<1>3. ASSUME NEW w \in Worker
      PROVE  Held(w) \subseteq Entry /\ InFlight(w) \subseteq Entry
  BY <1>1 DEF TypeOK, HandOK, Held, InFlight
<1> QED BY <1>2, <1>3 DEF Copies

(* A job that is settled, or has a copy of at least a certain number of     *)
(* attempts, stays so: the only copies that leave Redis are dropped, or are *)
(* acknowledged by a worker behind which a later attempt waits.             *)
LEMMA SafeStable ==
  ASSUME Types, AckIsSafe, [Next]_vars, NEW j \in Job, NEW n \in Nat, Safe(j, n)
  PROVE  Safe(j, n)'
<1>1. Remembered /\ Kept
  BY StepKeepsCopies
<1>2. Settled(j) => Settled(j)'
  BY <1>1 DEF Settled, Remembered, Buried
<1>3. \A e : e \in Copies' /\ e.job = j /\ e.attempts >= n => Pending(j, n)'
  BY DEF Pending
<1>4. j \in dropped' => Settled(j)'
  BY DEF Settled
<1>5. ASSUME Pending(j, n)
      PROVE  Pending(j, n)' \/ Settled(j)'
  <2>1. PICK e \in Copies : e.job = j /\ e.attempts >= n
    BY <1>5 DEF Pending
  <2>2. CASE e \in Copies' \/ e.job \in dropped'
    BY <1>3, <1>4, <2>1, <2>2
  <2>3. CASE \E w \in Worker : Acknowledges(w) /\ e = raw[w]
    <3>1. PICK w \in Worker : Acknowledges(w) /\ e = raw[w]
      BY <2>3
    <3>2. pc[w] \in {"ack", "exit"} /\ pc'[w] # pc[w] /\ \A v \in Worker : v # w => pc'[v] = pc[v]
      BY <3>1 DEF Acknowledges, Ack, AckAndLeave, Goto, Types, TypeOK
    <3>3. e \in Entry
      BY <2>1, CopiesType
    <3>4. Safe(e.job, e.attempts + 1)
      BY <3>1, <3>2 DEF AckIsSafe, Concluded
    <3>5. CASE Settled(j)
      BY <1>2, <3>5
    <3>6. CASE Pending(j, e.attempts + 1)
      <4>1. PICK f \in Copies : f.job = j /\ f.attempts >= e.attempts + 1
        BY <3>6 DEF Pending
      <4>2. f \in Entry /\ f.attempts \in Nat /\ e.attempts \in Nat
        BY <3>3, <4>1, CopiesType, EntryTypes
      <4>3. f.attempts >= n /\ f # e
        BY <2>1, <4>1, <4>2
      <4>4. ~ \E v \in Worker : Acknowledges(v) /\ f = raw[v]
        <5>1. ASSUME NEW v \in Worker, Acknowledges(v)
              PROVE  pc'[v] # pc[v]
          BY <5>1 DEF Acknowledges, Ack, AckAndLeave, Goto, Types, TypeOK
        <5> QED BY <3>1, <3>2, <4>3, <5>1
      <4> QED BY <1>1, <1>3, <1>4, <4>1, <4>3, <4>4 DEF Kept
    <3> QED BY <2>1, <3>4, <3>5, <3>6 DEF Safe
  <2> QED BY <1>1, <2>2, <2>3 DEF Kept
<1> QED BY <1>2, <1>5 DEF Safe

(* The ways in which a worker records the outcome of the job in its hand. *)
Concludes(w) ==
  \/ raw[w].job \in ran' \cup skipped' \cup rejected'
  \/ \E d \in dead' : d.job = raw[w].job
  \/ \E e \in delayed' : e.job = raw[w].job /\ e.attempts = raw[w].attempts + 1

Closing == Concluded \cup {"exit"}

LEMMA ClosingStep ==
  ASSUME Types, [Next]_vars, NEW u \in Worker, pc'[u] \in Closing
  PROVE  raw'[u] = raw[u] /\ (pc[u] \in Closing \/ Concludes(u))
<1> USE DEF Types, TypeOK, locals, history, Unconcluded, Concluded, Leaving, Closing, Goto
<1>1. ASSUME NEW j \in Job, InsertRow(j)
      PROVE  raw'[u] = raw[u] /\ (pc[u] \in Closing \/ Concludes(u))
  BY <1>1 DEF InsertRow
<1>2. ASSUME NEW j \in Job, Push(j)
      PROVE  raw'[u] = raw[u] /\ (pc[u] \in Closing \/ Concludes(u))
  BY <1>2 DEF Push
<1>3. ASSUME NEW j \in Job, PushRefused(j)
      PROVE  raw'[u] = raw[u] /\ (pc[u] \in Closing \/ Concludes(u))
  BY <1>3 DEF PushRefused
<1>4. ASSUME NEW j \in Job, Age(j)
      PROVE  raw'[u] = raw[u] /\ (pc[u] \in Closing \/ Concludes(u))
  BY <1>4 DEF Age
<1>5. ASSUME NEW w \in Worker, Start(w)
      PROVE  raw'[u] = raw[u] /\ (pc[u] \in Closing \/ Concludes(u))
  BY <1>5 DEF Start
<1>6. ASSUME NEW w \in Worker, ReapDue(w)
      PROVE  raw'[u] = raw[u] /\ (pc[u] \in Closing \/ Concludes(u))
  BY <1>6 DEF ReapDue
<1>7. ASSUME NEW w \in Worker, RecoverOne(w)
      PROVE  raw'[u] = raw[u] /\ (pc[u] \in Closing \/ Concludes(u))
  BY <1>7 DEF RecoverOne
<1>8. ASSUME NEW w \in Worker, Drained(w)
      PROVE  raw'[u] = raw[u] /\ (pc[u] \in Closing \/ Concludes(u))
  BY <1>8 DEF Drained
<1>9. ASSUME NEW w \in Worker, ScanDone(w)
      PROVE  raw'[u] = raw[u] /\ (pc[u] \in Closing \/ Concludes(u))
  BY <1>9 DEF ScanDone
<1>10. ASSUME NEW w \in Worker, Relabel(w)
      PROVE  raw'[u] = raw[u] /\ (pc[u] \in Closing \/ Concludes(u))
  BY <1>10 DEF Relabel
<1>11. ASSUME NEW w \in Worker, SnapshotHeld(w)
      PROVE  raw'[u] = raw[u] /\ (pc[u] \in Closing \/ Concludes(u))
  BY <1>11 DEF SnapshotHeld
<1>12. ASSUME NEW w \in Worker, SweepRows(w)
      PROVE  raw'[u] = raw[u] /\ (pc[u] \in Closing \/ Concludes(u))
  BY <1>12 DEF SweepRows
<1>13. ASSUME NEW w \in Worker, ReapNotDue(w)
      PROVE  raw'[u] = raw[u] /\ (pc[u] \in Closing \/ Concludes(u))
  BY <1>13 DEF ReapNotDue
<1>14. ASSUME NEW w \in Worker, Repush(w)
      PROVE  raw'[u] = raw[u] /\ (pc[u] \in Closing \/ Concludes(u))
  BY <1>14 DEF Repush
<1>15. ASSUME NEW w \in Worker, PromoteDone(w)
      PROVE  raw'[u] = raw[u] /\ (pc[u] \in Closing \/ Concludes(u))
  BY <1>15 DEF PromoteDone
<1>16. ASSUME NEW w \in Worker, Reserve(w)
      PROVE  raw'[u] = raw[u] /\ (pc[u] \in Closing \/ Concludes(u))
  BY <1>16 DEF Reserve
<1>17. ASSUME NEW w \in Worker, ReserveTimeout(w)
      PROVE  raw'[u] = raw[u] /\ (pc[u] \in Closing \/ Concludes(u))
  BY <1>17 DEF ReserveTimeout
<1>18. ASSUME NEW w \in Worker, RejectUnknown(w)
      PROVE  raw'[u] = raw[u] /\ (pc[u] \in Closing \/ Concludes(u))
  BY <1>18 DEF RejectUnknown, Concludes
<1>19. ASSUME NEW w \in Worker, FindSuperseded(w)
      PROVE  raw'[u] = raw[u] /\ (pc[u] \in Closing \/ Concludes(u))
  BY <1>19 DEF FindSuperseded
<1>20. ASSUME NEW w \in Worker, SkipSuperseded(w)
      PROVE  raw'[u] = raw[u] /\ (pc[u] \in Closing \/ Concludes(u))
  BY <1>20 DEF SkipSuperseded, Concludes
<1>21. ASSUME NEW w \in Worker, Accept(w)
      PROVE  raw'[u] = raw[u] /\ (pc[u] \in Closing \/ Concludes(u))
  BY <1>21 DEF Accept
<1>22. ASSUME NEW w \in Worker, Begin(w)
      PROVE  raw'[u] = raw[u] /\ (pc[u] \in Closing \/ Concludes(u))
  BY <1>22 DEF Begin
<1>23. ASSUME NEW w \in Worker, HandlerReturns(w)
      PROVE  raw'[u] = raw[u] /\ (pc[u] \in Closing \/ Concludes(u))
  BY <1>23 DEF HandlerReturns, Concludes
<1>24. ASSUME NEW w \in Worker, HandlerRaises(w)
      PROVE  raw'[u] = raw[u] /\ (pc[u] \in Closing \/ Concludes(u))
  BY <1>24 DEF HandlerRaises
<1>25. ASSUME NEW w \in Worker, Finish(w)
      PROVE  raw'[u] = raw[u] /\ (pc[u] \in Closing \/ Concludes(u))
  BY <1>25 DEF Finish
<1>26. ASSUME NEW w \in Worker, MarkQueued(w)
      PROVE  raw'[u] = raw[u] /\ (pc[u] \in Closing \/ Concludes(u))
  BY <1>26 DEF MarkQueued
<1>27. ASSUME NEW w \in Worker, MarkFailed(w)
      PROVE  raw'[u] = raw[u] /\ (pc[u] \in Closing \/ Concludes(u))
  BY <1>27 DEF MarkFailed
<1>28. ASSUME NEW w \in Worker, Ack(w)
      PROVE  raw'[u] = raw[u] /\ (pc[u] \in Closing \/ Concludes(u))
  BY <1>28 DEF Ack
<1>29. ASSUME NEW w \in Worker, AckAndLeave(w)
      PROVE  raw'[u] = raw[u] /\ (pc[u] \in Closing \/ Concludes(u))
  BY <1>29 DEF AckAndLeave, Forget
<1>30. ASSUME NEW w \in Worker, Heartbeat(w)
      PROVE  raw'[u] = raw[u] /\ (pc[u] \in Closing \/ Concludes(u))
  BY <1>30 DEF Heartbeat
<1>31. ASSUME NEW w \in Worker, Expire(w)
      PROVE  raw'[u] = raw[u] /\ (pc[u] \in Closing \/ Concludes(u))
  BY <1>31 DEF Expire
<1>32. ASSUME NEW w \in Worker, Crash(w)
      PROVE  raw'[u] = raw[u] /\ (pc[u] \in Closing \/ Concludes(u))
  BY <1>32 DEF Crash, Forget
<1>33. ASSUME NEW w \in Worker, Unwind(w)
      PROVE  raw'[u] = raw[u] /\ (pc[u] \in Closing \/ Concludes(u))
  BY <1>33 DEF Unwind
<1>34. ASSUME NEW w \in Worker, Lapse(w)
      PROVE  raw'[u] = raw[u] /\ (pc[u] \in Closing \/ Concludes(u))
  BY <1>34 DEF Lapse
<1>35. ASSUME NEW w \in Worker, NEW v \in Worker, FindOrphans(w, v)
      PROVE  raw'[u] = raw[u] /\ (pc[u] \in Closing \/ Concludes(u))
  BY <1>35 DEF FindOrphans
<1>36. ASSUME NEW w \in Worker, NEW e \in delayed, TakeDelayed(w, e)
      PROVE  raw'[u] = raw[u] /\ (pc[u] \in Closing \/ Concludes(u))
  BY <1>36 DEF TakeDelayed
<1>37. ASSUME NEW w \in Worker, NEW err \in Error, RetryLater(w, err)
      PROVE  raw'[u] = raw[u] /\ (pc[u] \in Closing \/ Concludes(u))
  <2>1. pc' = [pc EXCEPT ![w] = "requeue"] /\ raw' = raw
    BY <1>37 DEF RetryLater
  <2>2. CASE u = w
    <3>1. raw[u] \in Entry
      BY <1>37, <2>2 DEF HandOK, RetryLater
    <3>2. Failed(raw[u], err).job = raw[u].job /\ Failed(raw[u], err).attempts = raw[u].attempts + 1
      BY <3>1, EntryTypes
    <3>3. Failed(raw[u], err) \in delayed'
      BY <1>37, <2>2 DEF RetryLater
    <3>4. Concludes(u)
      BY <3>2, <3>3 DEF Concludes
    <3> QED BY <2>1, <3>4
  <2>3. CASE u # w
    BY <2>1, <2>3
  <2> QED BY <2>2, <2>3
<1>38. ASSUME NEW w \in Worker, NEW err \in Error, Bury(w, err)
      PROVE  raw'[u] = raw[u] /\ (pc[u] \in Closing \/ Concludes(u))
  <2>1. pc' = [pc EXCEPT ![w] = "ack"] /\ raw' = raw
    BY <1>38 DEF Bury
  <2>2. CASE u = w
    <3>1. raw[u] \in Entry
      BY <1>38, <2>2 DEF HandOK, Bury
    <3>2. Failed(raw[u], err).job = raw[u].job /\ Failed(raw[u], err).attempts = raw[u].attempts + 1
      BY <3>1, EntryTypes
    <3>3. Failed(raw[u], err) \in dead'
      BY <1>38, <2>2 DEF Bury
    <3>4. Concludes(u)
      BY <3>2, <3>3 DEF Concludes
    <3> QED BY <2>1, <3>4
  <2>3. CASE u # w
    BY <2>1, <2>3
  <2> QED BY <2>2, <2>3
<1>39. CASE UNCHANGED vars
  BY <1>39 DEF vars
<1> QED
  BY <1>1, <1>2, <1>3, <1>4, <1>5, <1>6, <1>7, <1>8, <1>9, <1>10, <1>11, <1>12, <1>13, <1>14, <1>15, <1>16, <1>17, <1>18, <1>19, <1>20, <1>21, <1>22, <1>23, <1>24, <1>25, <1>26, <1>27, <1>28, <1>29, <1>30, <1>31, <1>32, <1>33, <1>34, <1>35, <1>36, <1>37, <1>38, <1>39 DEF Next, Work, Reap, Take, Process

LEMMA AckIsSafeStep == Types /\ AckIsSafe /\ [Next]_vars => AckIsSafe'
<1> SUFFICES ASSUME Types, AckIsSafe, [Next]_vars, NEW w \in Worker, pc'[w] \in Closing
             PROVE  Safe(raw[w].job, raw[w].attempts + 1)'
  BY DEF AckIsSafe, Closing
<1>1. raw'[w] = raw[w] /\ (pc[w] \in Closing \/ Concludes(w))
  BY ClosingStep
<1>2. Types'
  BY TypesStep
<1>3. raw[w] \in Entry
  BY <1>1, <1>2 DEF Types, HandOK, Closing, Leaving
<1>4. PICK j \in Job, n \in Nat : j = raw[w].job /\ n = raw[w].attempts + 1
  BY <1>3, EntryTypes
<1>5. Safe(j, n)'
  <2>1. CASE pc[w] \in Closing
    <3>1. Safe(j, n)
      BY <1>4, <2>1 DEF AckIsSafe, Closing
    <3> QED BY <3>1, SafeStable
  <2>2. CASE Concludes(w)
    <3>1. CASE j \in ran' \cup skipped' \cup rejected' \/ \E d \in dead' : d.job = j
      BY <3>1 DEF Safe, Settled, Buried
    <3>2. CASE \E e \in delayed' : e.job = j /\ e.attempts = n
      <4>1. PICK e \in delayed' : e.job = j /\ e.attempts = n
        BY <3>2
      <4>2. e \in Copies'
        BY <4>1 DEF Copies
      <4> QED BY <4>1, <4>2 DEF Safe, Pending
    <3> QED BY <1>4, <2>2, <3>1, <3>2 DEF Concludes
  <2> QED BY <1>1, <2>1, <2>2
<1> QED BY <1>1, <1>4, <1>5

(* After every step of a worker that has recorded the outcome of its job,   *)
(* the job is settled or a later attempt of it is on its way: the ack loses *)
(* nothing.                                                                 *)
THEOREM AckLosesNothing == Spec => []AckIsSafe
<1> DEFINE IInv == Types /\ AckIsSafe
<1>1. Init => IInv
  <2> SUFFICES ASSUME Init
               PROVE  IInv
    OBVIOUS
  <2>1. Types
    BY TypesInit
  <2>2. AckIsSafe
    BY DEF Init, AckIsSafe, Concluded
  <2> QED BY <2>1, <2>2
<1>2. IInv /\ [Next]_vars => IInv'
  BY TypesStep, AckIsSafeStep
<1>3. IInv => AckIsSafe
  OBVIOUS
<1> QED BY <1>1, <1>2, <1>3, PTL DEF Spec

(* Only Push turns a job into a pushed one, and it leaves a copy. *)
LEMMA PushedStep ==
  ASSUME Types, [Next]_vars, NEW k \in Job, stage'[k] = "pushed", stage[k] # "pushed"
  PROVE  Fresh(k) \in ToSet(queue)'
<1> USE DEF Types, TypeOK
<1>1. ASSUME NEW j \in Job, InsertRow(j)
      PROVE  Fresh(k) \in ToSet(queue)'
  BY <1>1 DEF InsertRow
<1>2. ASSUME NEW j \in Job, Push(j)
      PROVE  Fresh(k) \in ToSet(queue)'
  <2>1. j = k
    BY <1>2 DEF Push
  <2>2. Fresh(j) \in Entry /\ queue' = Append(queue, Fresh(j)) /\ queue \in Seq(Entry)
    BY <1>2, EntryTypes DEF Push
  <2>3. ToSet(queue)' = ToSet(queue) \cup {Fresh(j)}
    BY <2>2, PushSet, Zenon
  <2> QED BY <2>1, <2>3
<1>3. ASSUME NEW j \in Job, PushRefused(j)
      PROVE  Fresh(k) \in ToSet(queue)'
  BY <1>3 DEF PushRefused
<1>4. ASSUME NEW j \in Job, Age(j)
      PROVE  Fresh(k) \in ToSet(queue)'
  BY <1>4 DEF Age
<1>5. ASSUME NEW w \in Worker, Start(w)
      PROVE  Fresh(k) \in ToSet(queue)'
  BY <1>5 DEF Start
<1>6. ASSUME NEW w \in Worker, ReapDue(w)
      PROVE  Fresh(k) \in ToSet(queue)'
  BY <1>6 DEF ReapDue
<1>7. ASSUME NEW w \in Worker, RecoverOne(w)
      PROVE  Fresh(k) \in ToSet(queue)'
  BY <1>7 DEF RecoverOne
<1>8. ASSUME NEW w \in Worker, Drained(w)
      PROVE  Fresh(k) \in ToSet(queue)'
  BY <1>8 DEF Drained
<1>9. ASSUME NEW w \in Worker, ScanDone(w)
      PROVE  Fresh(k) \in ToSet(queue)'
  BY <1>9 DEF ScanDone
<1>10. ASSUME NEW w \in Worker, Relabel(w)
      PROVE  Fresh(k) \in ToSet(queue)'
  BY <1>10 DEF Relabel
<1>11. ASSUME NEW w \in Worker, SnapshotHeld(w)
      PROVE  Fresh(k) \in ToSet(queue)'
  BY <1>11 DEF SnapshotHeld
<1>12. ASSUME NEW w \in Worker, SweepRows(w)
      PROVE  Fresh(k) \in ToSet(queue)'
  BY <1>12 DEF SweepRows
<1>13. ASSUME NEW w \in Worker, ReapNotDue(w)
      PROVE  Fresh(k) \in ToSet(queue)'
  BY <1>13 DEF ReapNotDue
<1>14. ASSUME NEW w \in Worker, Repush(w)
      PROVE  Fresh(k) \in ToSet(queue)'
  BY <1>14 DEF Repush
<1>15. ASSUME NEW w \in Worker, PromoteDone(w)
      PROVE  Fresh(k) \in ToSet(queue)'
  BY <1>15 DEF PromoteDone
<1>16. ASSUME NEW w \in Worker, Reserve(w)
      PROVE  Fresh(k) \in ToSet(queue)'
  BY <1>16 DEF Reserve
<1>17. ASSUME NEW w \in Worker, ReserveTimeout(w)
      PROVE  Fresh(k) \in ToSet(queue)'
  BY <1>17 DEF ReserveTimeout
<1>18. ASSUME NEW w \in Worker, RejectUnknown(w)
      PROVE  Fresh(k) \in ToSet(queue)'
  BY <1>18 DEF RejectUnknown
<1>19. ASSUME NEW w \in Worker, FindSuperseded(w)
      PROVE  Fresh(k) \in ToSet(queue)'
  BY <1>19 DEF FindSuperseded
<1>20. ASSUME NEW w \in Worker, SkipSuperseded(w)
      PROVE  Fresh(k) \in ToSet(queue)'
  BY <1>20 DEF SkipSuperseded
<1>21. ASSUME NEW w \in Worker, Accept(w)
      PROVE  Fresh(k) \in ToSet(queue)'
  BY <1>21 DEF Accept
<1>22. ASSUME NEW w \in Worker, Begin(w)
      PROVE  Fresh(k) \in ToSet(queue)'
  BY <1>22 DEF Begin
<1>23. ASSUME NEW w \in Worker, HandlerReturns(w)
      PROVE  Fresh(k) \in ToSet(queue)'
  BY <1>23 DEF HandlerReturns
<1>24. ASSUME NEW w \in Worker, HandlerRaises(w)
      PROVE  Fresh(k) \in ToSet(queue)'
  BY <1>24 DEF HandlerRaises
<1>25. ASSUME NEW w \in Worker, Finish(w)
      PROVE  Fresh(k) \in ToSet(queue)'
  BY <1>25 DEF Finish
<1>26. ASSUME NEW w \in Worker, MarkQueued(w)
      PROVE  Fresh(k) \in ToSet(queue)'
  BY <1>26 DEF MarkQueued
<1>27. ASSUME NEW w \in Worker, MarkFailed(w)
      PROVE  Fresh(k) \in ToSet(queue)'
  BY <1>27 DEF MarkFailed
<1>28. ASSUME NEW w \in Worker, Ack(w)
      PROVE  Fresh(k) \in ToSet(queue)'
  BY <1>28 DEF Ack
<1>29. ASSUME NEW w \in Worker, AckAndLeave(w)
      PROVE  Fresh(k) \in ToSet(queue)'
  BY <1>29 DEF AckAndLeave
<1>30. ASSUME NEW w \in Worker, Heartbeat(w)
      PROVE  Fresh(k) \in ToSet(queue)'
  BY <1>30 DEF Heartbeat
<1>31. ASSUME NEW w \in Worker, Expire(w)
      PROVE  Fresh(k) \in ToSet(queue)'
  BY <1>31 DEF Expire
<1>32. ASSUME NEW w \in Worker, Crash(w)
      PROVE  Fresh(k) \in ToSet(queue)'
  BY <1>32 DEF Crash
<1>33. ASSUME NEW w \in Worker, Unwind(w)
      PROVE  Fresh(k) \in ToSet(queue)'
  BY <1>33 DEF Unwind
<1>34. ASSUME NEW w \in Worker, Lapse(w)
      PROVE  Fresh(k) \in ToSet(queue)'
  BY <1>34 DEF Lapse
<1>35. ASSUME NEW w \in Worker, NEW v \in Worker, FindOrphans(w, v)
      PROVE  Fresh(k) \in ToSet(queue)'
  BY <1>35 DEF FindOrphans
<1>36. ASSUME NEW w \in Worker, NEW e \in delayed, TakeDelayed(w, e)
      PROVE  Fresh(k) \in ToSet(queue)'
  BY <1>36 DEF TakeDelayed
<1>37. ASSUME NEW w \in Worker, NEW err \in Error, RetryLater(w, err)
      PROVE  Fresh(k) \in ToSet(queue)'
  BY <1>37 DEF RetryLater
<1>38. ASSUME NEW w \in Worker, NEW err \in Error, Bury(w, err)
      PROVE  Fresh(k) \in ToSet(queue)'
  BY <1>38 DEF Bury
<1>39. CASE UNCHANGED vars
  BY <1>39 DEF vars
<1> QED
  BY <1>1, <1>2, <1>3, <1>4, <1>5, <1>6, <1>7, <1>8, <1>9, <1>10, <1>11, <1>12, <1>13, <1>14, <1>15, <1>16, <1>17, <1>18, <1>19, <1>20, <1>21, <1>22, <1>23, <1>24, <1>25, <1>26, <1>27, <1>28, <1>29, <1>30, <1>31, <1>32, <1>33, <1>34, <1>35, <1>36, <1>37, <1>38, <1>39 DEF Next, Work, Reap, Take, Process

LEMMA NothingElseIsLostStep ==
  Types /\ AckIsSafe /\ NothingElseIsLost /\ [Next]_vars => NothingElseIsLost'
<1> SUFFICES ASSUME Types, AckIsSafe, NothingElseIsLost, [Next]_vars,
                    NEW k \in Job, stage'[k] = "pushed"
             PROVE  Safe(k, 0)'
  BY DEF NothingElseIsLost
<1>1. CASE stage[k] = "pushed"
  BY <1>1, SafeStable DEF NothingElseIsLost
<1>2. CASE stage[k] # "pushed"
  <2>1. Fresh(k) \in Copies'
    BY <1>2, PushedStep DEF Copies
  <2>2. Fresh(k).job = k /\ Fresh(k).attempts >= 0
    BY EntryTypes
  <2>3. Pending(k, 0)'
    BY <2>1, <2>2 DEF Pending
  <2> QED BY <2>3 DEF Safe
<1> QED BY <1>1, <1>2

(* At-least-once delivery up to the two windows of "dropped": every job     *)
(* that was pushed is settled or has a copy that will be delivered, however *)
(* many workers there are and whatever faults strike, and when.             *)
THEOREM NoJobIsLost == Spec => []NothingElseIsLost
<1> DEFINE IInv == Types /\ AckIsSafe /\ NothingElseIsLost
<1>1. Init => IInv
  <2> SUFFICES ASSUME Init
               PROVE  IInv
    OBVIOUS
  <2>1. Types
    BY TypesInit
  <2>2. AckIsSafe
    BY DEF Init, AckIsSafe, Concluded
  <2>3. NothingElseIsLost
    BY DEF Init, NothingElseIsLost
  <2> QED BY <2>1, <2>2, <2>3
<1>2. IInv /\ [Next]_vars => IInv'
  BY TypesStep, AckIsSafeStep, NothingElseIsLostStep
<1>3. IInv => NothingElseIsLost
  OBVIOUS
<1> QED BY <1>1, <1>2, <1>3, PTL DEF Spec


-----------------------------------------------------------------------------
(* Coalescing.  What is skipped, or about to be, has been superseded by a   *)
(* row that was written later; a row never loses its age.                   *)
Rows ==
  /\ \A j \in Job : born[j] <= clock
  /\ \A j \in Job : born[j] # 0 => stage[j] # "new"

Outdated ==
  /\ \A j \in skipped : \E k \in Job : Supersedes(k, j)
  /\ \A w \in Worker : pc[w] = "skip" => \E k \in Job : Supersedes(k, raw[w].job)

Unknowns == rejected \cap Known = {}

(* Whatever is on a list of Redis, or in the memory of a worker, was pushed. *)
Sent ==
  /\ \A e \in ToSet(queue) \cup delayed \cup dead : stage[e.job] = "pushed"
  /\ \A w \in Worker : \A e \in ToSet(processing[w]) \cup ToSet(recovered[w]) : stage[e.job] = "pushed"
  /\ \A w \in Worker : raw[w] # NoEntry => stage[raw[w].job] = "pushed"

(* What a step may do to the histories: a fault is counted, a job skipped    *)
(* that was superseded when the worker looked, a job rejected that nobody    *)
(* handles.                                                                  *)
Noted ==
  /\ \A k \in FaultKind : faults[k] <= faults'[k]
  /\ \A j \in skipped' \ skipped : \E w \in Worker : pc[w] = "skip" /\ j = raw[w].job
  /\ \A w \in Worker : pc'[w] = "skip" => /\ raw'[w] = raw[w]
                                          /\ pc[w] = "skip" \/ Superseded(raw[w].job)
  /\ rejected' \cap Known \subseteq rejected

LEMMA StrikeCounts ==
  ASSUME TypeOK, NEW k \in FaultKind, Strike(k)
  PROVE  faults'[k] = faults[k] + 1 /\ \A i \in FaultKind : faults[i] <= faults'[i]
BY DEF TypeOK, Strike

LEMMA TrackCounts ==
  ASSUME TypeOK, NEW j, NEW s, Track(j, s)
  PROVE  \A i \in FaultKind : faults[i] <= faults'[i]
<1>1. CASE UNCHANGED faults
  BY <1>1 DEF TypeOK
<1>2. CASE Strike("db")
  BY <1>2, StrikeCounts DEF FaultKind
<1> QED BY <1>1, <1>2 DEF Track

LEMMA StepIsNoted == Types /\ [Next]_vars => Noted
<1> SUFFICES ASSUME TypeOK, HandOK, [Next]_vars
             PROVE  Noted
  BY DEF Types
<1> USE DEF TypeOK, Noted, locals, history, Goto
<1>1. ASSUME NEW j \in Job, InsertRow(j)
      PROVE  Noted
  BY <1>1, TrackCounts DEF InsertRow
<1>2. ASSUME NEW j \in Job, Push(j)
      PROVE  Noted
  BY <1>2 DEF Push
<1>3. ASSUME NEW j \in Job, PushRefused(j)
      PROVE  Noted
  BY <1>3, StrikeCounts DEF PushRefused, FaultKind
<1>4. ASSUME NEW j \in Job, Age(j)
      PROVE  Noted
  BY <1>4 DEF Age
<1>5. ASSUME NEW w \in Worker, Start(w)
      PROVE  Noted
  BY <1>5 DEF Start
<1>6. ASSUME NEW w \in Worker, ReapDue(w)
      PROVE  Noted
  BY <1>6 DEF ReapDue
<1>7. ASSUME NEW w \in Worker, RecoverOne(w)
      PROVE  Noted
  BY <1>7, StrikeCounts DEF RecoverOne, FaultKind
<1>8. ASSUME NEW w \in Worker, Drained(w)
      PROVE  Noted
  BY <1>8 DEF Drained
<1>9. ASSUME NEW w \in Worker, ScanDone(w)
      PROVE  Noted
  BY <1>9 DEF ScanDone
<1>10. ASSUME NEW w \in Worker, Relabel(w)
      PROVE  Noted
  BY <1>10, TrackCounts DEF Relabel
<1>11. ASSUME NEW w \in Worker, SnapshotHeld(w)
      PROVE  Noted
  BY <1>11 DEF SnapshotHeld
<1>12. ASSUME NEW w \in Worker, SweepRows(w)
      PROVE  Noted
  BY <1>12, StrikeCounts DEF SweepRows, FaultKind
<1>13. ASSUME NEW w \in Worker, ReapNotDue(w)
      PROVE  Noted
  BY <1>13 DEF ReapNotDue
<1>14. ASSUME NEW w \in Worker, Repush(w)
      PROVE  Noted
  BY <1>14 DEF Repush
<1>15. ASSUME NEW w \in Worker, PromoteDone(w)
      PROVE  Noted
  BY <1>15 DEF PromoteDone
<1>16. ASSUME NEW w \in Worker, Reserve(w)
      PROVE  Noted
  BY <1>16 DEF Reserve
<1>17. ASSUME NEW w \in Worker, ReserveTimeout(w)
      PROVE  Noted
  BY <1>17 DEF ReserveTimeout
<1>18. ASSUME NEW w \in Worker, RejectUnknown(w)
      PROVE  Noted
  BY <1>18, TrackCounts DEF RejectUnknown
<1>19. ASSUME NEW w \in Worker, FindSuperseded(w)
      PROVE  Noted
  BY <1>19 DEF FindSuperseded
<1>20. ASSUME NEW w \in Worker, SkipSuperseded(w)
      PROVE  Noted
  BY <1>20, TrackCounts DEF SkipSuperseded
<1>21. ASSUME NEW w \in Worker, Accept(w)
      PROVE  Noted
  BY <1>21, StrikeCounts DEF Accept, FaultKind
<1>22. ASSUME NEW w \in Worker, Begin(w)
      PROVE  Noted
  BY <1>22, TrackCounts DEF Begin
<1>23. ASSUME NEW w \in Worker, HandlerReturns(w)
      PROVE  Noted
  BY <1>23 DEF HandlerReturns
<1>24. ASSUME NEW w \in Worker, HandlerRaises(w)
      PROVE  Noted
  BY <1>24 DEF HandlerRaises
<1>25. ASSUME NEW w \in Worker, Finish(w)
      PROVE  Noted
  BY <1>25, TrackCounts DEF Finish
<1>26. ASSUME NEW w \in Worker, MarkQueued(w)
      PROVE  Noted
  BY <1>26, TrackCounts DEF MarkQueued
<1>27. ASSUME NEW w \in Worker, MarkFailed(w)
      PROVE  Noted
  BY <1>27, TrackCounts DEF MarkFailed
<1>28. ASSUME NEW w \in Worker, Ack(w)
      PROVE  Noted
  BY <1>28 DEF Ack
<1>29. ASSUME NEW w \in Worker, AckAndLeave(w)
      PROVE  Noted
  BY <1>29 DEF AckAndLeave, Forget
<1>30. ASSUME NEW w \in Worker, Heartbeat(w)
      PROVE  Noted
  BY <1>30 DEF Heartbeat
<1>31. ASSUME NEW w \in Worker, Expire(w)
      PROVE  Noted
  BY <1>31 DEF Expire
<1>32. ASSUME NEW w \in Worker, Crash(w)
      PROVE  Noted
  BY <1>32, StrikeCounts DEF Crash, Forget, FaultKind
<1>33. ASSUME NEW w \in Worker, Unwind(w)
      PROVE  Noted
  BY <1>33, StrikeCounts DEF Unwind, FaultKind
<1>34. ASSUME NEW w \in Worker, Lapse(w)
      PROVE  Noted
  BY <1>34 DEF Lapse
<1>35. ASSUME NEW w \in Worker, NEW v \in Worker, FindOrphans(w, v)
      PROVE  Noted
  BY <1>35 DEF FindOrphans
<1>36. ASSUME NEW w \in Worker, NEW e \in delayed, TakeDelayed(w, e)
      PROVE  Noted
  BY <1>36 DEF TakeDelayed
<1>37. ASSUME NEW w \in Worker, NEW err \in Error, RetryLater(w, err)
      PROVE  Noted
  BY <1>37 DEF RetryLater
<1>38. ASSUME NEW w \in Worker, NEW err \in Error, Bury(w, err)
      PROVE  Noted
  BY <1>38 DEF Bury
<1>39. CASE UNCHANGED vars
  BY <1>39 DEF vars
<1> QED
  BY <1>1, <1>2, <1>3, <1>4, <1>5, <1>6, <1>7, <1>8, <1>9, <1>10, <1>11, <1>12,
     <1>13, <1>14, <1>15, <1>16, <1>17, <1>18, <1>19, <1>20, <1>21, <1>22,
     <1>23, <1>24, <1>25, <1>26, <1>27, <1>28, <1>29, <1>30, <1>31, <1>32,
     <1>33, <1>34, <1>35, <1>36, <1>37, <1>38, <1>39
  DEF Next, Work, Reap, Take, Process


LEMMA EmptyToSet == \A e : e \notin ToSet(<<>>)
BY DEF ToSet

LEMMA AppendSet ==
  ASSUME NEW s \in Seq(Entry), NEW e \in Entry
  PROVE  ToSet(Append(s, e)) = ToSet(s) \cup {e}
<1> DEFINE q == Append(s, e)
<1>1. /\ Len(q) = Len(s) + 1 /\ Len(s) \in Nat /\ q \in Seq(Entry)
      /\ \A i \in 1 .. Len(s) : q[i] = s[i]
      /\ q[Len(s) + 1] = e
  BY AppendProperties, LenProperties
<1> HIDE DEF q
<1>2. DOMAIN q = 1 .. Len(s) + 1 /\ DOMAIN s = 1 .. Len(s)
  BY <1>1, LenProperties
<1>3. \A i \in 1 .. Len(s) + 1 : i \in 1 .. Len(s) \/ i = Len(s) + 1
  BY <1>1
<1>4. ToSet(q) \subseteq ToSet(s) \cup {e}
  <2> SUFFICES ASSUME NEW i \in 1 .. Len(s) + 1
               PROVE  q[i] \in ToSet(s) \cup {e}
    BY <1>2 DEF ToSet
  <2> QED BY <1>1, <1>2, <1>3 DEF ToSet
<1>5. ToSet(s) \cup {e} \subseteq ToSet(q)
  <2>1. Len(s) + 1 \in 1 .. Len(s) + 1 /\ \A i \in 1 .. Len(s) : i \in 1 .. Len(s) + 1
    BY <1>1
  <2>2. \A i \in 1 .. Len(s) + 1 : q[i] \in ToSet(q)
    BY <1>2 DEF ToSet
  <2> QED BY <1>1, <1>2, <2>1, <2>2 DEF ToSet
<1> QED BY <1>4, <1>5 DEF q

LEMMA SentStep == Types /\ Sent /\ [Next]_vars => Sent'
<1> SUFFICES ASSUME TypeOK, HandOK, Sent, [Next]_vars
             PROVE  Sent'
  BY DEF Types
<1> USE DEF TypeOK, Sent, redis, locals, Goto
<1>1. ASSUME NEW j \in Job, InsertRow(j)
      PROVE  Sent'
  BY <1>1 DEF InsertRow
<1>2. ASSUME NEW j \in Job, Push(j)
      PROVE  Sent'
  <2>1. PICK f \in Entry : f = Fresh(j)
    BY EntryTypes
  <2>2. f.job = j /\ queue' = Append(queue, f) /\ stage'[j] = "pushed"
    BY <1>2, <2>1, EntryTypes DEF Push
  <2>3. ToSet(queue)' = ToSet(queue) \cup {f}
    BY <2>2, PushSet, Zenon
  <2>4. \A e : stage[e.job] = "pushed" => stage'[e.job] = "pushed"
    BY <1>2 DEF Push
  <2> QED BY <1>2, <2>2, <2>3, <2>4 DEF Push
<1>3. ASSUME NEW j \in Job, PushRefused(j)
      PROVE  Sent'
  BY <1>3 DEF PushRefused
<1>4. ASSUME NEW j \in Job, Age(j)
      PROVE  Sent'
  BY <1>4 DEF Age
<1>5. ASSUME NEW w \in Worker, Start(w)
      PROVE  Sent'
  BY <1>5 DEF Start
<1>6. ASSUME NEW w \in Worker, ReapDue(w)
      PROVE  Sent'
  BY <1>6 DEF ReapDue
<1>7. ASSUME NEW w \in Worker, RecoverOne(w)
      PROVE  Sent'
  <2> DEFINE u == target[w]
  <2>1. /\ u \in Worker /\ processing[u] \in Seq(Entry) /\ processing[u] # <<>>
        /\ queue \in Seq(Entry) /\ recovered[w] \in Seq(Entry)
    BY <1>7 DEF RecoverOne, HandOK
  <2>2. PICK h \in Entry : h = Head(processing[u])
    BY <2>1, SequenceHeadTail
  <2>3. ToSet(processing[u]) = ToSet(Tail(processing[u])) \cup {h}
    BY <2>1, <2>2, SequenceHeadTail
  <2>4. ToSet(<<h>> \o queue) = ToSet(queue) \cup {h}
    BY <2>1, SequenceSets
  <2>5. ToSet(Append(recovered[w], h)) = ToSet(recovered[w]) \cup {h}
    BY <2>1, AppendSet, Zenon
  <2>6. /\ queue' = <<h>> \o queue
        /\ processing' = [processing EXCEPT ![u] = Tail(processing[u])]
        /\ recovered' = [recovered EXCEPT ![w] = Append(recovered[w], h)]
        /\ UNCHANGED <<delayed, dead, stage, raw>>
    BY <1>7, <2>2 DEF RecoverOne
  <2>7. stage[h.job] = "pushed"
    BY <2>1, <2>3
  <2> HIDE DEF u
  <2>8. \A v \in Worker : ToSet(processing'[v]) \subseteq ToSet(processing[v])
    BY <2>1, <2>3, <2>6
  <2>9. \A v \in Worker : ToSet(recovered'[v]) \subseteq ToSet(recovered[v]) \cup {h}
    BY <2>5, <2>6
  <2>10. ToSet(queue') = ToSet(queue) \cup {h}
    BY <2>4, <2>6
  <2> QED BY <2>6, <2>7, <2>8, <2>9, <2>10
<1>8. ASSUME NEW w \in Worker, Drained(w)
      PROVE  Sent'
  BY <1>8 DEF Drained
<1>9. ASSUME NEW w \in Worker, ScanDone(w)
      PROVE  Sent'
  BY <1>9 DEF ScanDone
<1>10. ASSUME NEW w \in Worker, Relabel(w)
      PROVE  Sent'
  <2>1. recovered[w] \in Seq(Entry) /\ recovered[w] # <<>>
    BY <1>10 DEF Relabel
  <2>2. ToSet(Tail(recovered[w])) \subseteq ToSet(recovered[w])
    BY <2>1, SequenceHeadTail
  <2>3. recovered' = [recovered EXCEPT ![w] = Tail(recovered[w])]
    BY <1>10 DEF Relabel
  <2>4. \A v \in Worker : ToSet(recovered'[v]) \subseteq ToSet(recovered[v])
    BY <2>2, <2>3
  <2> QED BY <1>10, <2>4 DEF Relabel
<1>11. ASSUME NEW w \in Worker, SnapshotHeld(w)
      PROVE  Sent'
  BY <1>11 DEF SnapshotHeld
<1>12. ASSUME NEW w \in Worker, SweepRows(w)
      PROVE  Sent'
  BY <1>12 DEF SweepRows
<1>13. ASSUME NEW w \in Worker, ReapNotDue(w)
      PROVE  Sent'
  BY <1>13 DEF ReapNotDue
<1>14. ASSUME NEW w \in Worker, Repush(w)
      PROVE  Sent'
  <2>1. PICK f \in Entry : f = raw[w]
    BY <1>14 DEF Repush, HandOK
  <2>2. queue' = Append(queue, f) /\ stage[f.job] = "pushed"
    BY <1>14, <2>1 DEF Repush
  <2>3. ToSet(queue)' = ToSet(queue) \cup {f}
    BY <2>2, PushSet, Zenon
  <2> QED BY <1>14, <2>2, <2>3 DEF Repush
<1>15. ASSUME NEW w \in Worker, PromoteDone(w)
      PROVE  Sent'
  BY <1>15 DEF PromoteDone
<1>16. ASSUME NEW w \in Worker, Reserve(w)
      PROVE  Sent'
  <2>1. queue # <<>> /\ queue \in Seq(Entry) /\ processing[w] \in Seq(Entry)
    BY <1>16 DEF Reserve
  <2>2. PICK h \in Entry : h = Head(queue)
    BY <2>1, SequenceHeadTail
  <2>3. ToSet(queue) = ToSet(Tail(queue)) \cup {h}
    BY <2>1, <2>2, SequenceHeadTail
  <2>4. ToSet(<<h>> \o processing[w]) = ToSet(processing[w]) \cup {h}
    BY <2>1, SequenceSets
  <2>5. /\ queue' = Tail(queue)
        /\ processing' = [processing EXCEPT ![w] = <<h>> \o processing[w]]
        /\ raw' = [raw EXCEPT ![w] = h]
        /\ UNCHANGED <<delayed, dead, stage, recovered>>
    BY <1>16, <2>2 DEF Reserve
  <2>6. stage[h.job] = "pushed"
    BY <2>3
  <2>7. \A v \in Worker : ToSet(processing'[v]) \subseteq ToSet(processing[v]) \cup {h}
    BY <2>4, <2>5
  <2>8. ToSet(queue') \subseteq ToSet(queue)
    BY <2>3, <2>5
  <2> QED BY <2>5, <2>6, <2>7, <2>8
<1>17. ASSUME NEW w \in Worker, ReserveTimeout(w)
      PROVE  Sent'
  BY <1>17 DEF ReserveTimeout
<1>18. ASSUME NEW w \in Worker, RejectUnknown(w)
      PROVE  Sent'
  BY <1>18 DEF RejectUnknown
<1>19. ASSUME NEW w \in Worker, FindSuperseded(w)
      PROVE  Sent'
  BY <1>19 DEF FindSuperseded
<1>20. ASSUME NEW w \in Worker, SkipSuperseded(w)
      PROVE  Sent'
  BY <1>20 DEF SkipSuperseded
<1>21. ASSUME NEW w \in Worker, Accept(w)
      PROVE  Sent'
  BY <1>21 DEF Accept
<1>22. ASSUME NEW w \in Worker, Begin(w)
      PROVE  Sent'
  BY <1>22 DEF Begin
<1>23. ASSUME NEW w \in Worker, HandlerReturns(w)
      PROVE  Sent'
  BY <1>23 DEF HandlerReturns
<1>24. ASSUME NEW w \in Worker, HandlerRaises(w)
      PROVE  Sent'
  BY <1>24 DEF HandlerRaises
<1>25. ASSUME NEW w \in Worker, Finish(w)
      PROVE  Sent'
  BY <1>25 DEF Finish
<1>26. ASSUME NEW w \in Worker, MarkQueued(w)
      PROVE  Sent'
  BY <1>26 DEF MarkQueued
<1>27. ASSUME NEW w \in Worker, MarkFailed(w)
      PROVE  Sent'
  BY <1>27 DEF MarkFailed
<1>28. ASSUME NEW w \in Worker, Ack(w)
      PROVE  Sent'
  <2>1. processing[w] \in Seq(Entry)
    OBVIOUS
  <2>2. ToSet(RemoveFirst(processing[w], raw[w])) \subseteq ToSet(processing[w])
    BY <2>1, RemoveFirstProperties
  <2>3. processing' = [processing EXCEPT ![w] = RemoveFirst(processing[w], raw[w])]
    BY <1>28 DEF Ack, Unhold
  <2>4. \A v \in Worker : ToSet(processing'[v]) \subseteq ToSet(processing[v])
    BY <2>2, <2>3
  <2> QED BY <1>28, <2>4 DEF Ack
<1>29. ASSUME NEW w \in Worker, AckAndLeave(w)
      PROVE  Sent'
  <2>1. processing[w] \in Seq(Entry)
    OBVIOUS
  <2>2. ToSet(RemoveFirst(processing[w], raw[w])) \subseteq ToSet(processing[w])
    BY <2>1, RemoveFirstProperties
  <2>3. processing' = [processing EXCEPT ![w] = RemoveFirst(processing[w], raw[w])]
    BY <1>29 DEF AckAndLeave, Unhold
  <2>4. \A v \in Worker : ToSet(processing'[v]) \subseteq ToSet(processing[v])
    BY <2>2, <2>3
  <2>5. \A v \in Worker : ToSet(recovered'[v]) \subseteq ToSet(recovered[v])
    BY <1>29, EmptyToSet DEF AckAndLeave, Forget
  <2> QED BY <1>29, <2>4, <2>5 DEF AckAndLeave, Forget
<1>30. ASSUME NEW w \in Worker, Heartbeat(w)
      PROVE  Sent'
  BY <1>30 DEF Heartbeat
<1>31. ASSUME NEW w \in Worker, Expire(w)
      PROVE  Sent'
  BY <1>31 DEF Expire
<1>32. ASSUME NEW w \in Worker, Crash(w)
      PROVE  Sent'
  <2>1. \A v \in Worker : ToSet(recovered'[v]) \subseteq ToSet(recovered[v])
    BY <1>32, EmptyToSet DEF Crash, Forget
  <2> QED BY <1>32, <2>1 DEF Crash, Forget
<1>33. ASSUME NEW w \in Worker, Unwind(w)
      PROVE  Sent'
  BY <1>33 DEF Unwind
<1>34. ASSUME NEW w \in Worker, Lapse(w)
      PROVE  Sent'
  BY <1>34 DEF Lapse
<1>35. ASSUME NEW w \in Worker, NEW v \in Worker, FindOrphans(w, v)
      PROVE  Sent'
  BY <1>35 DEF FindOrphans
<1>36. ASSUME NEW w \in Worker, NEW e \in delayed, TakeDelayed(w, e)
      PROVE  Sent'
  BY <1>36 DEF TakeDelayed
<1>37. ASSUME NEW w \in Worker, NEW err \in Error, RetryLater(w, err)
      PROVE  Sent'
  <2>1. raw[w] \in Entry /\ Failed(raw[w], err).job = raw[w].job
    BY <1>37, EntryTypes DEF RetryLater, HandOK, Unconcluded
  <2> QED BY <1>37, <2>1 DEF RetryLater
<1>38. ASSUME NEW w \in Worker, NEW err \in Error, Bury(w, err)
      PROVE  Sent'
  <2>1. raw[w] \in Entry /\ Failed(raw[w], err).job = raw[w].job
    BY <1>38, EntryTypes DEF Bury, HandOK, Unconcluded
  <2> QED BY <1>38, <2>1 DEF Bury
<1>39. CASE UNCHANGED vars
  BY <1>39 DEF vars
<1> QED
  BY <1>1, <1>2, <1>3, <1>4, <1>5, <1>6, <1>7, <1>8, <1>9, <1>10, <1>11, <1>12,
     <1>13, <1>14, <1>15, <1>16, <1>17, <1>18, <1>19, <1>20, <1>21, <1>22,
     <1>23, <1>24, <1>25, <1>26, <1>27, <1>28, <1>29, <1>30, <1>31, <1>32,
     <1>33, <1>34, <1>35, <1>36, <1>37, <1>38, <1>39
  DEF Next, Work, Reap, Take, Process


(* A row that has an age keeps it. *)
Aging == clock <= clock' /\ \A k \in Job : born[k] # 0 => born'[k] = born[k]

LEMMA TrackAges ==
  ASSUME TypeOK, Rows, NEW j \in Job, NEW s, Track(j, s), stage'[j] # "new",
         \A k \in Job : stage'[k] = "new" => stage[k] = "new"
  PROVE  Rows' /\ Aging
<1>1. CASE UNCHANGED <<born, clock>>
  BY <1>1 DEF TypeOK, Rows, Aging
<1>2. CASE born[j] = 0 /\ clock' = clock + 1 /\ born' = [born EXCEPT ![j] = clock + 1]
  <2>1. clock' = clock + 1 /\ clock \in Nat /\ born'[j] = clock + 1
        /\ \A k \in Job : born[k] \in Nat /\ (k # j => born'[k] = born[k])
    BY <1>2 DEF TypeOK
  <2> QED BY <1>2, <2>1 DEF Rows, Aging
<1> QED BY <1>1, <1>2 DEF Track, WriteRow, rows

LEMMA RowsStep == Types /\ Sent /\ Rows /\ [Next]_vars => Rows' /\ Aging
<1> SUFFICES ASSUME TypeOK, HandOK, Sent, Rows, [Next]_vars
             PROVE  Rows' /\ Aging
  BY DEF Types
<1>0. ASSUME UNCHANGED <<born, clock>>, \A k \in Job : stage'[k] = "new" => stage[k] = "new"
      PROVE  Rows' /\ Aging
  BY <1>0 DEF TypeOK, Rows, Aging
<1> USE DEF Goto, rows
<1>1. ASSUME NEW j \in Job, InsertRow(j)
      PROVE  Rows' /\ Aging
  <2>1. Track(j, "queued") /\ stage' = [stage EXCEPT ![j] = "inserted"]
    BY <1>1 DEF InsertRow
  <2>2. stage'[j] # "new" /\ \A k \in Job : stage'[k] = "new" => stage[k] = "new"
    BY <2>1 DEF TypeOK
  <2> QED BY <2>1, <2>2, TrackAges
<1>2. ASSUME NEW j \in Job, Push(j)
      PROVE  Rows' /\ Aging
  BY <1>2, <1>0 DEF Push, TypeOK
<1>3. ASSUME NEW j \in Job, PushRefused(j)
      PROVE  Rows' /\ Aging
  BY <1>3, <1>0 DEF PushRefused, TypeOK
<1>4. ASSUME NEW j \in Job, Age(j)
      PROVE  Rows' /\ Aging
  BY <1>4, <1>0 DEF Age
<1>5. ASSUME NEW w \in Worker, Start(w)
      PROVE  Rows' /\ Aging
  BY <1>5, <1>0 DEF Start
<1>6. ASSUME NEW w \in Worker, ReapDue(w)
      PROVE  Rows' /\ Aging
  BY <1>6, <1>0 DEF ReapDue
<1>7. ASSUME NEW w \in Worker, RecoverOne(w)
      PROVE  Rows' /\ Aging
  BY <1>7, <1>0 DEF RecoverOne
<1>8. ASSUME NEW w \in Worker, Drained(w)
      PROVE  Rows' /\ Aging
  BY <1>8, <1>0 DEF Drained
<1>9. ASSUME NEW w \in Worker, ScanDone(w)
      PROVE  Rows' /\ Aging
  BY <1>9, <1>0 DEF ScanDone
<1>10. ASSUME NEW w \in Worker, Relabel(w)
      PROVE  Rows' /\ Aging
  <2>1. PICK h \in Entry : h = Head(recovered[w]) /\ h \in ToSet(recovered[w])
    BY <1>10, SequenceHeadTail DEF Relabel, TypeOK
  <2>2. Track(h.job, "queued") /\ stage' = stage /\ h.job \in Job /\ stage'[h.job] # "new"
    BY <1>10, <2>1, EntryTypes DEF Relabel, Sent
  <2> QED BY <2>2, TrackAges
<1>11. ASSUME NEW w \in Worker, SnapshotHeld(w)
      PROVE  Rows' /\ Aging
  BY <1>11, <1>0 DEF SnapshotHeld
<1>12. ASSUME NEW w \in Worker, SweepRows(w)
      PROVE  Rows' /\ Aging
  BY <1>12, <1>0 DEF SweepRows
<1>13. ASSUME NEW w \in Worker, ReapNotDue(w)
      PROVE  Rows' /\ Aging
  BY <1>13, <1>0 DEF ReapNotDue
<1>14. ASSUME NEW w \in Worker, Repush(w)
      PROVE  Rows' /\ Aging
  BY <1>14, <1>0 DEF Repush
<1>15. ASSUME NEW w \in Worker, PromoteDone(w)
      PROVE  Rows' /\ Aging
  BY <1>15, <1>0 DEF PromoteDone
<1>16. ASSUME NEW w \in Worker, Reserve(w)
      PROVE  Rows' /\ Aging
  BY <1>16, <1>0 DEF Reserve
<1>17. ASSUME NEW w \in Worker, ReserveTimeout(w)
      PROVE  Rows' /\ Aging
  BY <1>17, <1>0 DEF ReserveTimeout
<1>18. ASSUME NEW w \in Worker, RejectUnknown(w)
      PROVE  Rows' /\ Aging
  <2>1. raw[w] \in Entry /\ raw[w].job \in Job /\ Track(raw[w].job, "failed") /\ stage' = stage
    BY <1>18, EntryTypes DEF RejectUnknown, HandOK, Unconcluded, Concluded
  <2>2. stage'[raw[w].job] # "new"
    BY <2>1 DEF Sent
  <2> QED BY <2>1, <2>2, TrackAges
<1>19. ASSUME NEW w \in Worker, FindSuperseded(w)
      PROVE  Rows' /\ Aging
  BY <1>19, <1>0 DEF FindSuperseded
<1>20. ASSUME NEW w \in Worker, SkipSuperseded(w)
      PROVE  Rows' /\ Aging
  <2>1. raw[w] \in Entry /\ raw[w].job \in Job /\ Track(raw[w].job, "done") /\ stage' = stage
    BY <1>20, EntryTypes DEF SkipSuperseded, HandOK, Unconcluded, Concluded
  <2>2. stage'[raw[w].job] # "new"
    BY <2>1 DEF Sent
  <2> QED BY <2>1, <2>2, TrackAges
<1>21. ASSUME NEW w \in Worker, Accept(w)
      PROVE  Rows' /\ Aging
  BY <1>21, <1>0 DEF Accept
<1>22. ASSUME NEW w \in Worker, Begin(w)
      PROVE  Rows' /\ Aging
  <2>1. raw[w] \in Entry /\ raw[w].job \in Job /\ Track(raw[w].job, "running") /\ stage' = stage
    BY <1>22, EntryTypes DEF Begin, HandOK, Unconcluded, Concluded
  <2>2. stage'[raw[w].job] # "new"
    BY <2>1 DEF Sent
  <2> QED BY <2>1, <2>2, TrackAges
<1>23. ASSUME NEW w \in Worker, HandlerReturns(w)
      PROVE  Rows' /\ Aging
  BY <1>23, <1>0 DEF HandlerReturns
<1>24. ASSUME NEW w \in Worker, HandlerRaises(w)
      PROVE  Rows' /\ Aging
  BY <1>24, <1>0 DEF HandlerRaises
<1>25. ASSUME NEW w \in Worker, Finish(w)
      PROVE  Rows' /\ Aging
  <2>1. raw[w] \in Entry /\ raw[w].job \in Job /\ Track(raw[w].job, "done") /\ stage' = stage
    BY <1>25, EntryTypes DEF Finish, HandOK, Unconcluded, Concluded
  <2>2. stage'[raw[w].job] # "new"
    BY <2>1 DEF Sent
  <2> QED BY <2>1, <2>2, TrackAges
<1>26. ASSUME NEW w \in Worker, MarkQueued(w)
      PROVE  Rows' /\ Aging
  <2>1. raw[w] \in Entry /\ raw[w].job \in Job /\ Track(raw[w].job, "queued") /\ stage' = stage
    BY <1>26, EntryTypes DEF MarkQueued, HandOK, Unconcluded, Concluded
  <2>2. stage'[raw[w].job] # "new"
    BY <2>1 DEF Sent
  <2> QED BY <2>1, <2>2, TrackAges
<1>27. ASSUME NEW w \in Worker, MarkFailed(w)
      PROVE  Rows' /\ Aging
  <2>1. raw[w] \in Entry /\ raw[w].job \in Job /\ Track(raw[w].job, "failed") /\ stage' = stage
    BY <1>27, EntryTypes DEF MarkFailed, HandOK, Unconcluded, Concluded
  <2>2. stage'[raw[w].job] # "new"
    BY <2>1 DEF Sent
  <2> QED BY <2>1, <2>2, TrackAges
<1>28. ASSUME NEW w \in Worker, Ack(w)
      PROVE  Rows' /\ Aging
  BY <1>28, <1>0 DEF Ack
<1>29. ASSUME NEW w \in Worker, AckAndLeave(w)
      PROVE  Rows' /\ Aging
  BY <1>29, <1>0 DEF AckAndLeave
<1>30. ASSUME NEW w \in Worker, Heartbeat(w)
      PROVE  Rows' /\ Aging
  BY <1>30, <1>0 DEF Heartbeat
<1>31. ASSUME NEW w \in Worker, Expire(w)
      PROVE  Rows' /\ Aging
  BY <1>31, <1>0 DEF Expire
<1>32. ASSUME NEW w \in Worker, Crash(w)
      PROVE  Rows' /\ Aging
  BY <1>32, <1>0 DEF Crash
<1>33. ASSUME NEW w \in Worker, Unwind(w)
      PROVE  Rows' /\ Aging
  BY <1>33, <1>0 DEF Unwind
<1>34. ASSUME NEW w \in Worker, Lapse(w)
      PROVE  Rows' /\ Aging
  BY <1>34, <1>0 DEF Lapse
<1>35. ASSUME NEW w \in Worker, NEW v \in Worker, FindOrphans(w, v)
      PROVE  Rows' /\ Aging
  BY <1>35, <1>0 DEF FindOrphans
<1>36. ASSUME NEW w \in Worker, NEW e \in delayed, TakeDelayed(w, e)
      PROVE  Rows' /\ Aging
  BY <1>36, <1>0 DEF TakeDelayed
<1>37. ASSUME NEW w \in Worker, NEW err \in Error, RetryLater(w, err)
      PROVE  Rows' /\ Aging
  BY <1>37, <1>0 DEF RetryLater
<1>38. ASSUME NEW w \in Worker, NEW err \in Error, Bury(w, err)
      PROVE  Rows' /\ Aging
  BY <1>38, <1>0 DEF Bury
<1>39. CASE UNCHANGED vars
  BY <1>39, <1>0 DEF vars
<1> QED
  BY <1>1, <1>2, <1>3, <1>4, <1>5, <1>6, <1>7, <1>8, <1>9, <1>10, <1>11, <1>12,
     <1>13, <1>14, <1>15, <1>16, <1>17, <1>18, <1>19, <1>20, <1>21, <1>22,
     <1>23, <1>24, <1>25, <1>26, <1>27, <1>28, <1>29, <1>30, <1>31, <1>32,
     <1>33, <1>34, <1>35, <1>36, <1>37, <1>38, <1>39
  DEF Next, Work, Reap, Take, Process


LEMMA SupersedesStays ==
  ASSUME TypeOK, Aging, NEW j \in Job, NEW k \in Job, Supersedes(k, j)
  PROVE  Supersedes(k, j)'
<1>1. /\ born[j] \in Nat /\ born[k] \in Nat
      /\ Topic[j] # NoTopic /\ Topic[k] = Topic[j] /\ 0 < born[j] /\ born[j] < born[k]
  BY DEF TypeOK, Supersedes
<1>2. born[j] # 0 /\ born[k] # 0
  BY <1>1
<1>3. born'[j] = born[j] /\ born'[k] = born[k]
  BY <1>2 DEF Aging
<1> QED BY <1>1, <1>3 DEF Supersedes

(* Age orders the rows, and a row is superseded by a later one of its topic. *)
LEMMA SupersedesFurther ==
  ASSUME TypeOK, NEW i \in Job, NEW j \in Job, NEW k \in Job, Supersedes(k, j), Supersedes(j, i)
  PROVE  Supersedes(k, i)
<1>1. born[i] \in Nat /\ born[j] \in Nat /\ born[k] \in Nat
  BY DEF TypeOK
<1> QED BY <1>1 DEF Supersedes

LEMMA OutdatedStep ==
  Types /\ Rows' /\ Aging /\ Outdated /\ Unknowns /\ [Next]_vars => Outdated' /\ Unknowns'
<1> SUFFICES ASSUME TypeOK, HandOK, Aging, Outdated, Unknowns, [Next]_vars
             PROVE  Outdated' /\ Unknowns'
  BY DEF Types
<1>1. Noted
  BY StepIsNoted DEF Types
<1>2. ASSUME NEW j \in Job, \E k \in Job : Supersedes(k, j)
      PROVE  \E k \in Job : Supersedes(k, j)'
  BY <1>2, SupersedesStays
<1>3. ASSUME NEW w \in Worker, pc[w] = "skip"
      PROVE  raw[w].job \in Job /\ \E k \in Job : Supersedes(k, raw[w].job)
  BY <1>3, EntryTypes DEF HandOK, Unconcluded, Outdated
<1>4. ASSUME NEW j \in skipped'
      PROVE  \E k \in Job : Supersedes(k, j)'
  <2>1. CASE j \in skipped
    <3>1. j \in Job /\ \E k \in Job : Supersedes(k, j)
      BY <2>1 DEF TypeOK, Outdated
    <3> QED BY <3>1, <1>2
  <2>2. CASE j \notin skipped
    <3>1. PICK w \in Worker : pc[w] = "skip" /\ j = raw[w].job
      BY <1>1, <2>2 DEF Noted
    <3>2. j \in Job /\ \E k \in Job : Supersedes(k, j)
      BY <3>1, <1>3
    <3> QED BY <3>2, <1>2
  <2> QED BY <2>1, <2>2
<1>5. ASSUME NEW w \in Worker, pc'[w] = "skip"
      PROVE  \E k \in Job : Supersedes(k, raw[w].job)'
  <2>1. raw'[w] = raw[w] /\ (pc[w] = "skip" \/ Superseded(raw[w].job))
    BY <1>1, <1>5 DEF Noted
  <2>2. TypeOK' /\ HandOK'
    BY TypesStep DEF Types
  <2>3. PICK j \in Job : j = raw[w].job
    BY <1>5, <2>1, <2>2, EntryTypes DEF HandOK, Unconcluded
  <2>4. \E k \in Job : Supersedes(k, j)
    BY <1>3, <2>1, <2>3 DEF Superseded
  <2>5. \E k \in Job : Supersedes(k, j)'
    BY <1>2, <2>4
  <2>6. raw'[w].job = j
    BY <2>1, <2>3
  <2> QED BY <2>5, <2>6
<1>6. Unknowns'
  BY <1>1 DEF Noted, Unknowns
<1> QED BY <1>4, <1>5, <1>6 DEF Outdated

(* Of the rows that supersede a job one was written last, and that one was  *)
(* not skipped: what superseded it would supersede the job too.             *)
LEMMA LastIsNotSkipped ==
  ASSUME TypeOK, Rows, Outdated, NEW j \in skipped
  PROVE  \E k \in Job : Supersedes(k, j) /\ k \notin skipped
<1> DEFINE I == {clock - born[k] : k \in {i \in Job : Supersedes(i, j)}}
<1>1. j \in Job /\ clock \in Nat /\ \A k \in Job : born[k] \in Nat /\ born[k] <= clock
  BY DEF TypeOK, Rows
<1>2. I \in SUBSET Nat
  BY <1>1
<1>3. I # {}
  BY DEF Outdated
<1>4. Min(I) \in I /\ \A n \in I : Min(I) <= n
  <2> HIDE DEF I
  <2> QED BY <1>2, <1>3, LeastNatural
<1>5. PICK k \in Job : Supersedes(k, j) /\ Min(I) = clock - born[k]
  BY <1>4
<1>6. ASSUME NEW i \in Job, Supersedes(i, j)
      PROVE  born[i] <= born[k]
  <2>1. clock - born[i] \in I
    BY <1>6
  <2>2. clock - born[k] <= clock - born[i]
    BY <1>4, <1>5, <2>1
  <2> QED BY <1>1, <2>2
<1>7. ASSUME k \in skipped
      PROVE  FALSE
  <2>1. PICK i \in Job : Supersedes(i, k)
    BY <1>7 DEF Outdated
  <2>2. Supersedes(i, j)
    BY <1>1, <1>5, <2>1, SupersedesFurther
  <2>3. born[i] <= born[k] /\ born[k] < born[i]
    BY <1>6, <2>1, <2>2 DEF Supersedes
  <2> QED BY <1>1, <2>3
<1> QED BY <1>5, <1>7

(* _superseded: a job skipped because a newer one of its ward is queued is  *)
(* covered by a job that has run or been buried or is still on its way, but *)
(* for a refused push and the two windows of "dropped".                     *)
THEOREM SkipsCovered == Spec => []SkipsAreCovered
<1> DEFINE IInv == /\ Types /\ AckIsSafe /\ NothingElseIsLost
                   /\ Sent /\ Rows /\ Outdated /\ Unknowns
<1>1. Init => IInv
  <2> SUFFICES ASSUME Init
               PROVE  IInv
    OBVIOUS
  <2>1. Types
    BY TypesInit
  <2>2. AckIsSafe
    BY DEF Init, AckIsSafe, Concluded
  <2>3. NothingElseIsLost
    BY DEF Init, NothingElseIsLost
  <2>4. Sent
    BY EmptyToSet DEF Init, Sent
  <2>5. Rows /\ Outdated /\ Unknowns
    BY DEF Init, Rows, Outdated, Unknowns
  <2> QED BY <2>1, <2>2, <2>3, <2>4, <2>5
<1>2. IInv /\ [Next]_vars => IInv'
  BY TypesStep, AckIsSafeStep, NothingElseIsLostStep, SentStep, RowsStep, OutdatedStep
<1>3. IInv => SkipsAreCovered
  <2> SUFFICES ASSUME IInv, NEW j \in skipped
               PROVE  \E k \in Job : Supersedes(k, j) /\ (Covers(k) \/ k \in dropped \/ stage[k] = "refused")
    BY DEF SkipsAreCovered
  <2>1. PICK k \in Job : Supersedes(k, j) /\ k \notin skipped
    BY LastIsNotSkipped DEF Types
  <2>2. j \in Job /\ born[j] \in Nat /\ born[k] \in Nat /\ stage[k] \in {"new", "inserted", "pushed", "refused"}
    BY DEF Types, TypeOK
  <2>3. stage[k] # "new"
    BY <2>1, <2>2 DEF Rows, Supersedes
  <2>4. k \notin rejected
    BY <2>1, <2>2 DEF Unknowns, Supersedes
  <2>5. CASE stage[k] = "pushed"
    BY <2>1, <2>4, <2>5 DEF NothingElseIsLost, Safe, Settled, Covers
  <2> QED BY <2>1, <2>2, <2>3, <2>5 DEF Covers
<1> QED BY <1>1, <1>2, <1>3, PTL DEF Spec


-----------------------------------------------------------------------------
(* The places where a job may be: in the queue, parked in the sorted set or *)
(* on the dead-letter list, or in the hand of a worker that still owes it   *)
(* an outcome.                                                              *)
Parked == delayed \cup dead
Busy(w) == pc[w] \in Unconcluded \cup {"repush", "finish"}

OnePlace ==
  /\ \A i, k \in DOMAIN queue : queue[i].job = queue[k].job => i = k
  /\ \A e, f \in Parked : e.job = f.job => e = f
  /\ \A v, w \in Worker : Busy(v) /\ Busy(w) /\ raw[v].job = raw[w].job => v = w
  /\ \A i \in DOMAIN queue, e \in Parked : queue[i].job # e.job
  /\ \A i \in DOMAIN queue, w \in Worker : Busy(w) => queue[i].job # raw[w].job
  /\ \A e \in Parked, w \in Worker : Busy(w) => e.job # raw[w].job

(* While nothing disturbs the workers, none of them has died or is leaving. *)
Staffed == \A w \in Worker : pc[w] \notin Leaving \cup {"dead"}
Solitary == Undisturbed => Staffed /\ OnePlace

(* Worker v keeps what it has in hand, or lets go of it. *)
Keeps(v) == Busy(v)' => Busy(v) /\ raw'[v] = raw[v]

(* A job moves from one place to the next: five kinds of steps. *)
LEMMA PlacesStay ==
  ASSUME OnePlace, queue' = queue, Parked' = Parked, \A v \in Worker : Keeps(v)
  PROVE  OnePlace'
BY DEF OnePlace, Keeps

LEMMA PlaceQueued ==
  ASSUME OnePlace, queue \in Seq(Entry), NEW e \in Entry,
         queue' = Append(queue, e), Parked' = Parked,
         \A i \in DOMAIN queue : queue[i].job # e.job,
         \A f \in Parked : f.job # e.job,
         \A v \in Worker : Keeps(v) /\ (Busy(v)' => raw[v].job # e.job)
  PROVE  OnePlace'
<1>1. /\ Len(queue) \in Nat /\ Len(queue') = Len(queue) + 1 /\ queue' \in Seq(Entry)
      /\ \A i \in 1 .. Len(queue) : queue'[i] = queue[i]
      /\ queue'[Len(queue) + 1] = e
  BY AppendProperties, LenProperties
<1>2. DOMAIN queue' = 1 .. Len(queue) + 1 /\ DOMAIN queue = 1 .. Len(queue)
  BY <1>1, LenProperties
<1>3. \A i \in DOMAIN queue' : \/ i \in DOMAIN queue /\ queue'[i] = queue[i]
                               \/ i = Len(queue) + 1 /\ queue'[i] = e
  BY <1>1, <1>2
<1>4. \A i, k \in DOMAIN queue' : queue'[i].job = queue'[k].job => i = k
  BY <1>3 DEF OnePlace
<1>5. \A i \in DOMAIN queue', f \in Parked : queue'[i].job # f.job
  BY <1>3 DEF OnePlace
<1>6. \A i \in DOMAIN queue', v \in Worker : Busy(v)' => queue'[i].job # raw'[v].job
  BY <1>3 DEF OnePlace, Keeps
<1> QED BY <1>4, <1>5, <1>6 DEF OnePlace, Keeps

LEMMA PlaceTaken ==
  ASSUME OnePlace, queue \in Seq(Entry), queue # <<>>, NEW w \in Worker,
         queue' = Tail(queue), raw'[w] = Head(queue), Parked' = Parked,
         \A v \in Worker \ {w} : Keeps(v)
  PROVE  OnePlace'
<1>1. /\ Len(queue) \in Nat \ {0} /\ Len(queue') = Len(queue) - 1 /\ queue' \in Seq(Entry)
      /\ \A i \in 1 .. Len(queue) - 1 : queue'[i] = queue[i + 1]
      /\ Head(queue) = queue[1]
  BY HeadTailProperties, LenProperties, EmptySeq
<1>2. DOMAIN queue' = 1 .. Len(queue) - 1 /\ DOMAIN queue = 1 .. Len(queue)
  BY <1>1, LenProperties
<1>3. 1 \in DOMAIN queue /\ raw'[w] = queue[1]
  BY <1>1, <1>2
<1>4. \A i \in DOMAIN queue' : /\ i + 1 \in DOMAIN queue /\ i \in Nat /\ i + 1 # 1
                               /\ queue'[i] = queue[i + 1]
  BY <1>1, <1>2
<1>5. \A i, k \in DOMAIN queue' : queue'[i].job = queue'[k].job => i = k
  BY <1>4 DEF OnePlace
<1>6. \A i \in DOMAIN queue', v \in Worker : Busy(v)' => queue'[i].job # raw'[v].job
  BY <1>3, <1>4 DEF OnePlace, Keeps
<1>7. \A u, v \in Worker : Busy(u)' /\ Busy(v)' /\ raw'[u].job = raw'[v].job => u = v
  BY <1>3 DEF OnePlace, Keeps
<1>8. \A i \in DOMAIN queue', f \in Parked : queue'[i].job # f.job
  BY <1>4 DEF OnePlace
<1>9. \A f \in Parked, v \in Worker : Busy(v)' => f.job # raw'[v].job
  BY <1>3 DEF OnePlace, Keeps
<1> QED BY <1>5, <1>6, <1>7, <1>8, <1>9 DEF OnePlace

LEMMA PlacePromoted ==
  ASSUME OnePlace, NEW w \in Worker, NEW e \in Parked,
         queue' = queue, Parked' = Parked \ {e}, raw'[w] = e,
         \A v \in Worker \ {w} : Keeps(v)
  PROVE  OnePlace'
BY DEF OnePlace, Keeps

LEMMA PlaceParked ==
  ASSUME OnePlace, NEW w \in Worker, Busy(w), ~Busy(w)', NEW f, f.job = raw[w].job,
         queue' = queue, Parked' = Parked \cup {f}, \A v \in Worker : Keeps(v)
  PROVE  OnePlace'
BY DEF OnePlace, Keeps

LEMMA SolitaryStep == Types /\ Sent /\ OneJobPerWorker /\ Solitary /\ [Next]_vars => Solitary'
<1> SUFFICES ASSUME TypeOK, HandOK, Sent, OneJobPerWorker, [Next]_vars, Undisturbed', Solitary
             PROVE  Staffed' /\ OnePlace'
  BY DEF Types, Solitary
<1>0. Undisturbed /\ Staffed /\ OnePlace
  <2>1. Noted
    BY StepIsNoted DEF Types
  <2>2. Undisturbed
    BY <2>1 DEF Noted, Undisturbed, TypeOK, FaultKind
  <2> QED BY <2>2 DEF Solitary
<1> USE DEF TypeOK, redis, Goto
<1> USE <1>0
<1>1. ASSUME NEW j \in Job, InsertRow(j)
      PROVE  Staffed' /\ OnePlace'
  BY <1>1, PlacesStay DEF InsertRow, Busy, Keeps, Parked, Staffed, Unconcluded, Concluded, Leaving, locals
<1>2. ASSUME NEW j \in Job, Push(j)
      PROVE  Staffed' /\ OnePlace'
  <2>1. PICK f \in Entry : f = Fresh(j)
    BY EntryTypes
  <2>2. f.job = j /\ queue' = Append(queue, f) /\ stage[j] = "inserted"
    BY <1>2, <2>1, EntryTypes DEF Push
  <2>3. \A i \in DOMAIN queue : queue[i] \in ToSet(queue)
    BY DEF ToSet
  <2>4. \A i \in DOMAIN queue : queue[i].job # f.job
    BY <2>2, <2>3 DEF Sent
  <2>5. \A e \in Parked : e.job # f.job
    BY <2>2 DEF Sent, Parked
  <2>6. \A v \in Worker : Keeps(v) /\ (Busy(v)' => Busy(v))
    BY <1>2 DEF Push, Keeps, Busy
  <2>7. ASSUME NEW v \in Worker, Busy(v)
        PROVE  raw[v].job # f.job
    <3>1. raw[v] \in Entry
      BY <2>7 DEF HandOK, Busy, Concluded
    <3>2. stage[raw[v].job] = "pushed"
      BY <3>1, NoEntryAssumption DEF Sent
    <3> QED BY <2>2, <3>2
  <2>8. Parked' = Parked /\ Staffed'
    BY <1>2 DEF Push, Parked, Staffed
  <2>9. \A v \in Worker : Busy(v)' => raw[v].job # f.job
    BY <2>6, <2>7
  <2>10. queue \in Seq(Entry)
    OBVIOUS
  <2> HIDE DEF TypeOK
  <2> QED BY <2>2, <2>4, <2>5, <2>6, <2>8, <2>9, <2>10, PlaceQueued
<1>3. ASSUME NEW j \in Job, PushRefused(j)
      PROVE  Staffed' /\ OnePlace'
  BY <1>3, PlacesStay DEF PushRefused, Busy, Keeps, Parked, Staffed, Unconcluded, Concluded, Leaving, locals
<1>4. ASSUME NEW j \in Job, Age(j)
      PROVE  Staffed' /\ OnePlace'
  BY <1>4, PlacesStay DEF Age, Busy, Keeps, Parked, Staffed, Unconcluded, Concluded, Leaving, locals
<1>5. ASSUME NEW w \in Worker, Start(w)
      PROVE  Staffed' /\ OnePlace'
  BY <1>5, PlacesStay DEF Start, Busy, Keeps, Parked, Staffed, Unconcluded, Concluded, Leaving, locals
<1>6. ASSUME NEW w \in Worker, ReapDue(w)
      PROVE  Staffed' /\ OnePlace'
  BY <1>6, PlacesStay DEF ReapDue, Busy, Keeps, Parked, Staffed, Unconcluded, Concluded, Leaving, locals
<1>7. ASSUME NEW w \in Worker, RecoverOne(w)
      PROVE  Staffed' /\ OnePlace'
  <2>1. target[w] \in Worker /\ processing[target[w]] # <<>>
    BY <1>7 DEF RecoverOne, HandOK
  <2>2. pc[target[w]] \in Up
    BY <2>1 DEF OneJobPerWorker, Staffed, Up
  <2>3. Strike("theft")
    BY <1>7, <2>2 DEF RecoverOne
  <2> QED BY <2>3, StrikeCounts DEF Undisturbed, FaultKind
<1>8. ASSUME NEW w \in Worker, Drained(w)
      PROVE  Staffed' /\ OnePlace'
  BY <1>8, PlacesStay DEF Drained, Busy, Keeps, Parked, Staffed, Unconcluded, Concluded, Leaving, locals
<1>9. ASSUME NEW w \in Worker, ScanDone(w)
      PROVE  Staffed' /\ OnePlace'
  BY <1>9, PlacesStay DEF ScanDone, Busy, Keeps, Parked, Staffed, Unconcluded, Concluded, Leaving, locals
<1>10. ASSUME NEW w \in Worker, Relabel(w)
      PROVE  Staffed' /\ OnePlace'
  BY <1>10, PlacesStay DEF Relabel, Busy, Keeps, Parked, Staffed, Unconcluded, Concluded, Leaving, locals
<1>11. ASSUME NEW w \in Worker, SnapshotHeld(w)
      PROVE  Staffed' /\ OnePlace'
  BY <1>11, PlacesStay DEF SnapshotHeld, Busy, Keeps, Parked, Staffed, Unconcluded, Concluded, Leaving, locals
<1>12. ASSUME NEW w \in Worker, SweepRows(w)
      PROVE  Staffed' /\ OnePlace'
  BY <1>12, PlacesStay DEF SweepRows, Busy, Keeps, Parked, Staffed, Unconcluded, Concluded, Leaving, locals
<1>13. ASSUME NEW w \in Worker, ReapNotDue(w)
      PROVE  Staffed' /\ OnePlace'
  BY <1>13, PlacesStay DEF ReapNotDue, Busy, Keeps, Parked, Staffed, Unconcluded, Concluded, Leaving, locals
<1>14. ASSUME NEW w \in Worker, Repush(w)
      PROVE  Staffed' /\ OnePlace'
  <2>1. PICK f \in Entry : f = raw[w]
    BY <1>14 DEF Repush, HandOK
  <2>2. Busy(w) /\ queue' = Append(queue, f) /\ ~Busy(w)'
    BY <1>14, <2>1 DEF Repush, Busy, Unconcluded
  <2>3. \A i \in DOMAIN queue : queue[i].job # f.job
    BY <2>1, <2>2 DEF OnePlace
  <2>4. \A e \in Parked : e.job # f.job
    BY <2>1, <2>2 DEF OnePlace
  <2>5. \A v \in Worker : Keeps(v)
    BY <1>14 DEF Repush, Keeps, Busy, Unconcluded
  <2>6. \A v \in Worker : Busy(v)' => raw[v].job # f.job
    BY <2>1, <2>2, <2>5 DEF OnePlace, Keeps
  <2>7. Parked' = Parked /\ Staffed'
    BY <1>14 DEF Repush, Parked, Staffed, Leaving
  <2> QED BY <2>2, <2>3, <2>4, <2>5, <2>6, <2>7, PlaceQueued
<1>15. ASSUME NEW w \in Worker, PromoteDone(w)
      PROVE  Staffed' /\ OnePlace'
  BY <1>15, PlacesStay DEF PromoteDone, Busy, Keeps, Parked, Staffed, Unconcluded, Concluded, Leaving, locals
<1>16. ASSUME NEW w \in Worker, Reserve(w)
      PROVE  Staffed' /\ OnePlace'
  <2>1. queue # <<>> /\ queue' = Tail(queue) /\ raw'[w] = Head(queue)
    BY <1>16 DEF Reserve
  <2>2. \A v \in Worker \ {w} : Keeps(v)
    BY <1>16 DEF Reserve, Keeps, Busy
  <2>3. Parked' = Parked /\ Staffed'
    BY <1>16 DEF Reserve, Parked, Staffed, Leaving
  <2> QED BY <2>1, <2>2, <2>3, PlaceTaken
<1>17. ASSUME NEW w \in Worker, ReserveTimeout(w)
      PROVE  Staffed' /\ OnePlace'
  BY <1>17, PlacesStay DEF ReserveTimeout, Busy, Keeps, Parked, Staffed, Unconcluded, Concluded, Leaving, locals
<1>18. ASSUME NEW w \in Worker, RejectUnknown(w)
      PROVE  Staffed' /\ OnePlace'
  BY <1>18, PlacesStay DEF RejectUnknown, Busy, Keeps, Parked, Staffed, Unconcluded, Concluded, Leaving, locals
<1>19. ASSUME NEW w \in Worker, FindSuperseded(w)
      PROVE  Staffed' /\ OnePlace'
  BY <1>19, PlacesStay DEF FindSuperseded, Busy, Keeps, Parked, Staffed, Unconcluded, Concluded, Leaving, locals
<1>20. ASSUME NEW w \in Worker, SkipSuperseded(w)
      PROVE  Staffed' /\ OnePlace'
  BY <1>20, PlacesStay DEF SkipSuperseded, Busy, Keeps, Parked, Staffed, Unconcluded, Concluded, Leaving, locals
<1>21. ASSUME NEW w \in Worker, Accept(w)
      PROVE  Staffed' /\ OnePlace'
  BY <1>21, PlacesStay DEF Accept, Busy, Keeps, Parked, Staffed, Unconcluded, Concluded, Leaving, locals
<1>22. ASSUME NEW w \in Worker, Begin(w)
      PROVE  Staffed' /\ OnePlace'
  BY <1>22, PlacesStay DEF Begin, Busy, Keeps, Parked, Staffed, Unconcluded, Concluded, Leaving, locals
<1>23. ASSUME NEW w \in Worker, HandlerReturns(w)
      PROVE  Staffed' /\ OnePlace'
  BY <1>23, PlacesStay DEF HandlerReturns, Busy, Keeps, Parked, Staffed, Unconcluded, Concluded, Leaving, locals
<1>24. ASSUME NEW w \in Worker, HandlerRaises(w)
      PROVE  Staffed' /\ OnePlace'
  BY <1>24, PlacesStay DEF HandlerRaises, Busy, Keeps, Parked, Staffed, Unconcluded, Concluded, Leaving, locals
<1>25. ASSUME NEW w \in Worker, Finish(w)
      PROVE  Staffed' /\ OnePlace'
  BY <1>25, PlacesStay DEF Finish, Busy, Keeps, Parked, Staffed, Unconcluded, Concluded, Leaving, locals
<1>26. ASSUME NEW w \in Worker, MarkQueued(w)
      PROVE  Staffed' /\ OnePlace'
  BY <1>26, PlacesStay DEF MarkQueued, Busy, Keeps, Parked, Staffed, Unconcluded, Concluded, Leaving, locals
<1>27. ASSUME NEW w \in Worker, MarkFailed(w)
      PROVE  Staffed' /\ OnePlace'
  BY <1>27, PlacesStay DEF MarkFailed, Busy, Keeps, Parked, Staffed, Unconcluded, Concluded, Leaving, locals
<1>28. ASSUME NEW w \in Worker, Ack(w)
      PROVE  Staffed' /\ OnePlace'
  BY <1>28, PlacesStay DEF Ack, Busy, Keeps, Parked, Staffed, Unconcluded, Concluded, Leaving, locals
<1>29. ASSUME NEW w \in Worker, AckAndLeave(w)
      PROVE  Staffed' /\ OnePlace'
  BY <1>29 DEF AckAndLeave, Staffed
<1>30. ASSUME NEW w \in Worker, Heartbeat(w)
      PROVE  Staffed' /\ OnePlace'
  BY <1>30, PlacesStay DEF Heartbeat, Busy, Keeps, Parked, Staffed, Unconcluded, Concluded, Leaving, locals
<1>31. ASSUME NEW w \in Worker, Expire(w)
      PROVE  Staffed' /\ OnePlace'
  BY <1>31, PlacesStay DEF Expire, Busy, Keeps, Parked, Staffed, Unconcluded, Concluded, Leaving, locals
<1>32. ASSUME NEW w \in Worker, Crash(w)
      PROVE  Staffed' /\ OnePlace'
  BY <1>32, StrikeCounts DEF Crash, Undisturbed, FaultKind
<1>33. ASSUME NEW w \in Worker, Unwind(w)
      PROVE  Staffed' /\ OnePlace'
  BY <1>33, StrikeCounts DEF Unwind, Undisturbed, FaultKind
<1>34. ASSUME NEW w \in Worker, Lapse(w)
      PROVE  Staffed' /\ OnePlace'
  BY <1>34, PlacesStay DEF Lapse, Busy, Keeps, Parked, Staffed, Unconcluded, Concluded, Leaving, locals
<1>35. ASSUME NEW w \in Worker, NEW v \in Worker, FindOrphans(w, v)
      PROVE  Staffed' /\ OnePlace'
  BY <1>35, PlacesStay DEF FindOrphans, Busy, Keeps, Parked, Staffed, Unconcluded, Concluded, Leaving, locals
<1>36. ASSUME NEW w \in Worker, NEW e \in delayed, TakeDelayed(w, e)
      PROVE  Staffed' /\ OnePlace'
  <2>1. e \notin dead
    BY DEF Entry, DeadEntry
  <2>2. Parked' = Parked \ {e} /\ e \in Parked /\ queue' = queue /\ raw'[w] = e /\ Staffed'
    BY <1>36, <2>1 DEF TakeDelayed, Parked, Staffed, Leaving
  <2>3. \A v \in Worker \ {w} : Keeps(v)
    BY <1>36 DEF TakeDelayed, Keeps, Busy
  <2> QED BY <2>2, <2>3, PlacePromoted
<1>37. ASSUME NEW w \in Worker, NEW err \in Error, RetryLater(w, err)
      PROVE  Staffed' /\ OnePlace'
  <2> DEFINE f == Failed(raw[w], err)
  <2>1. f.job = raw[w].job
    BY DEF Failed
  <2>2. Busy(w) /\ ~Busy(w)' /\ \A v \in Worker : Keeps(v)
    BY <1>37 DEF RetryLater, Keeps, Busy, Unconcluded
  <2>3. Parked' = Parked \cup {f} /\ queue' = queue /\ Staffed'
    BY <1>37 DEF RetryLater, Parked, Staffed, Leaving
  <2> HIDE DEF f
  <2> QED BY <2>1, <2>2, <2>3, PlaceParked
<1>38. ASSUME NEW w \in Worker, NEW err \in Error, Bury(w, err)
      PROVE  Staffed' /\ OnePlace'
  <2> DEFINE f == Failed(raw[w], err)
  <2>1. f.job = raw[w].job
    BY DEF Failed
  <2>2. Busy(w) /\ ~Busy(w)' /\ \A v \in Worker : Keeps(v)
    BY <1>38 DEF Bury, Keeps, Busy, Unconcluded
  <2>3. Parked' = Parked \cup {f} /\ queue' = queue /\ Staffed'
    BY <1>38 DEF Bury, Parked, Staffed, Leaving
  <2> HIDE DEF f
  <2> QED BY <2>1, <2>2, <2>3, PlaceParked
<1>39. CASE UNCHANGED vars
  BY <1>39, PlacesStay DEF vars, Busy, Keeps, Parked, Staffed
<1> QED
  BY <1>1, <1>2, <1>3, <1>4, <1>5, <1>6, <1>7, <1>8, <1>9, <1>10, <1>11, <1>12,
     <1>13, <1>14, <1>15, <1>16, <1>17, <1>18, <1>19, <1>20, <1>21, <1>22,
     <1>23, <1>24, <1>25, <1>26, <1>27, <1>28, <1>29, <1>30, <1>31, <1>32,
     <1>33, <1>34, <1>35, <1>36, <1>37, <1>38, <1>39
  DEF Next, Work, Reap, Take, Process

LEMMA OneAtMost ==
  ASSUME NEW S, \A a, b \in S : a = b
  PROVE  Cardinality(S) \in {0, 1} /\ (S = {} => Cardinality(S) = 0)
<1>1. CASE S = {}
  BY <1>1, FS_EmptySet
<1>2. ASSUME NEW a \in S
      PROVE  Cardinality(S) = 1
  <2>1. S = {a}
    OBVIOUS
  <2> QED BY <2>1, FS_Singleton
<1> QED BY <1>1, <1>2

(* Redis and the loop of the worker: while no worker dies and no job is     *)
(* taken from a live one, a job is in one place only, so that no two        *)
(* workers ever run it, and no retry waits beside another delivery.         *)
THEOREM OneCopyLives == Spec => []OneLiveCopy
<1> DEFINE IInv == Types /\ Sent /\ OneJobPerWorker /\ Solitary
<1>1. Init => IInv
  <2> SUFFICES ASSUME Init
               PROVE  IInv
    OBVIOUS
  <2>1. Types
    BY TypesInit
  <2>2. Sent
    BY EmptyToSet DEF Init, Sent
  <2>3. OneJobPerWorker
    BY DEF Init, OneJobPerWorker
  <2>4. Staffed
    BY DEF Init, Staffed, Leaving
  <2>5. DOMAIN queue = {} /\ Parked = {} /\ \A w \in Worker : ~Busy(w)
    BY DEF Init, Parked, Busy, Unconcluded
  <2>6. OnePlace
    BY <2>5 DEF OnePlace
  <2> QED BY <2>1, <2>2, <2>3, <2>4, <2>6 DEF Solitary
<1>2. IInv /\ [Next]_vars => IInv'
  BY TypesStep, SentStep, OneJobStep, SolitaryStep
<1>3. IInv => OneLiveCopy
  <2> SUFFICES ASSUME IInv, Undisturbed, NEW j \in Job
               PROVE  LiveCopies(j) <= 1
    BY DEF OneLiveCopy
  <2> DEFINE at == {i \in DOMAIN queue : queue[i].job = j}
             waiting == {e \in delayed \cup dead : e.job = j}
             with == {w \in Worker : /\ pc[w] \in Unconcluded \cup {"repush", "finish"}
                                     /\ raw[w].job = j}
  <2>1. OnePlace
    BY DEF Solitary
  <2>2. /\ \A a, b \in at : a = b
        /\ \A a, b \in waiting : a = b
        /\ \A a, b \in with : a = b
    BY <2>1 DEF OnePlace, Parked, Busy
  <2>3. (at = {} \/ waiting = {}) /\ (at = {} \/ with = {}) /\ (waiting = {} \/ with = {})
    BY <2>1 DEF OnePlace, Parked, Busy
  <2>4. LiveCopies(j) = Cardinality(at) + Cardinality(waiting) + Cardinality(with)
    BY DEF LiveCopies
  <2> HIDE DEF at, waiting, with
  <2>5. /\ Cardinality(at) \in {0, 1} /\ (at = {} => Cardinality(at) = 0)
        /\ Cardinality(waiting) \in {0, 1} /\ (waiting = {} => Cardinality(waiting) = 0)
        /\ Cardinality(with) \in {0, 1} /\ (with = {} => Cardinality(with) = 0)
    BY <2>2, OneAtMost
  <2> QED BY <2>3, <2>4, <2>5
<1> QED BY <1>1, <1>2, <1>3, PTL DEF Spec

=============================================================================
