--------------------------- MODULE Delivery_proofs ---------------------------
(***************************************************************************)
(* JobQueue implements Delivery: all lists, locks, heartbeats, reapers and *)
(* promoters together do what a box of messages does.  Every step of the   *)
(* queue has one of six shapes, each of which is a step of the box or none.*)
(***************************************************************************)
EXTENDS JobQueue_proofs

Pushed == {j \in Job : stage[j] = "pushed"}
Ended == ran \cup skipped \cup rejected \cup Buried

(* The shapes of a step. *)
Still == Pushed' = Pushed /\ Ended' = Ended /\ dropped' = dropped

\* A hand may be emptied, or take a copy.
HandsFollow == \A v \in Worker : raw'[v] \in {raw[v], NoEntry} \cup Copies

Idles == Still /\ Copies' = Copies /\ HandsFollow

Accepts(j) ==
  /\ j \notin Pushed /\ Pushed' = Pushed \cup {j}
  /\ Copies' = Copies \cup {Fresh(j)}
  /\ UNCHANGED <<raw, dropped>> /\ Ended' = Ended

Settles(w) ==
  /\ raw[w] \in Entry /\ Ended' = Ended \cup {raw[w].job}
  /\ Copies' = Copies
  /\ UNCHANGED <<raw, dropped>> /\ Pushed' = Pushed

Retries(w, err) ==
  /\ raw[w] \in Entry /\ raw[w].attempts + 1 < MaxAttempts
  /\ Copies' = Copies \cup {Failed(raw[w], err)}
  /\ UNCHANGED raw /\ Still

Shrinks(w) ==
  /\ raw[w] \in Entry
  /\ Copies' \subseteq Copies /\ Copies \subseteq Copies' \cup {raw[w]}
  /\ \A v \in Worker : raw'[v] \in {raw[v], NoEntry}

Discards(w) == pc[w] \in Closing /\ Shrinks(w) /\ Still

Loses(w) ==
  /\ Shrinks(w)
  /\ dropped' = dropped \cup {raw[w].job} /\ Pushed' = Pushed /\ Ended' = Ended

Shaped ==
  \/ Idles
  \/ \E j \in Job : Accepts(j)
  \/ \E w \in Worker :
       \/ Settles(w) \/ Discards(w) \/ Loses(w)
       \/ \E err \in Error : Retries(w, err)

-----------------------------------------------------------------------------
(* A step that leaves the lists and what promote_due has in hand alone.     *)
LEMMA CopiesSame ==
  ASSUME UNCHANGED <<queue, delayed, processing>>,
         \A w \in Worker : pc[w] = "repush" \/ pc'[w] = "repush" => pc'[w] = pc[w] /\ raw'[w] = raw[w]
  PROVE  Copies' = Copies
<1>1. \A w \in Worker : Held(w)' = Held(w) /\ InFlight(w)' = InFlight(w)
  BY DEF Held, InFlight
<1> QED BY <1>1 DEF Copies

LEMMA IdleStep ==
  ASSUME UNCHANGED <<queue, delayed, processing, dead, history>>, Pushed' = Pushed,
         \A w \in Worker : pc[w] = "repush" \/ pc'[w] = "repush" => pc'[w] = pc[w] /\ raw'[w] = raw[w],
         \A w \in Worker : raw'[w] \in {raw[w], NoEntry}
  PROVE  Shaped
<1>1. Copies' = Copies
  BY CopiesSame
<1>2. Ended' = Ended /\ dropped' = dropped
  BY DEF Ended, Buried, history
<1> QED BY <1>1, <1>2 DEF Shaped, Idles, Still, HandsFollow

(* The places a copy may be in, before and after a step. *)
LEMMA Places ==
  /\ ToSet(queue) \subseteq Copies /\ delayed \subseteq Copies
  /\ \A v \in Worker : Held(v) \subseteq Copies /\ InFlight(v) \subseteq Copies
  BY DEF Copies

LEMMA NewPlaces ==
  /\ ToSet(queue)' \subseteq Copies' /\ delayed' \subseteq Copies'
  /\ \A v \in Worker : Held(v)' \subseteq Copies' /\ InFlight(v)' \subseteq Copies'
  BY DEF Copies

LEMMA NoneLost ==
  ASSUME NEW ACTION C, ToSet(queue) \subseteq C, delayed \subseteq C,
         \A v \in Worker : Held(v) \subseteq C /\ InFlight(v) \subseteq C
  PROVE  Copies \subseteq C
  BY DEF Copies

LEMMA NoneMade ==
  ASSUME NEW ACTION C, ToSet(queue)' \subseteq C, delayed' \subseteq C,
         \A v \in Worker : Held(v)' \subseteq C /\ InFlight(v)' \subseteq C
  PROVE  Copies' \subseteq C
  BY DEF Copies

LEMMA CopiesMove ==
  ASSUME UNCHANGED <<dead, stage, history>>, HandsFollow, Copies' = Copies
  PROVE  Shaped
<1>1. Ended' = Ended /\ dropped' = dropped /\ Pushed' = Pushed
  BY DEF Ended, Buried, history, Pushed
<1> QED BY <1>1 DEF Shaped, Idles, Still


-----------------------------------------------------------------------------
(* The steps that move, make or take a copy. *)
LEMMA PushAccepts ==
  ASSUME Types, NEW j \in Job, Push(j)
  PROVE  Shaped
<1> DEFINE f == Fresh(j)
<1>1. f \in Entry /\ queue' = Append(queue, f) /\ queue \in Seq(Entry) /\ stage[j] = "inserted"
  BY EntryTypes DEF Push, Types, TypeOK
<1>2. /\ UNCHANGED <<delayed, processing, dead, raw, pc, ran, skipped, rejected, dropped>>
      /\ Pushed' = Pushed \cup {j}
  BY DEF Push, Types, TypeOK, history, Pushed
<1> HIDE DEF f
<1>3. ToSet(queue') = ToSet(queue) \cup {f}
  BY <1>1, PushSet, Zenon
<1>4. \A w \in Worker : Held(w)' = Held(w) /\ InFlight(w)' = InFlight(w)
  BY <1>2 DEF Held, InFlight
<1>5. Copies' = Copies \cup {f}
  BY <1>2, <1>3, <1>4 DEF Copies
<1>6. Accepts(j)
  BY <1>1, <1>2, <1>5 DEF Accepts, f, Ended, Buried, Pushed
<1> QED BY <1>6 DEF Shaped

LEMMA RecoverOneMoves ==
  ASSUME Types, NEW w \in Worker, RecoverOne(w)
  PROVE  Shaped
<1>1. PICK u \in Worker : u = target[w] /\ processing[u] \in Seq(Entry) /\ processing[u] # <<>>
  BY DEF RecoverOne, Types, TypeOK, HandOK
<1> DEFINE h == Head(processing[u])
           t == Tail(processing[u])
           q == <<h>> \o queue
<1>2. h \in Entry /\ t \in Seq(Entry) /\ ToSet(processing[u]) = ToSet(t) \cup {h}
  BY <1>1, SequenceHeadTail
<1>3. /\ queue' = q /\ processing' = [processing EXCEPT ![u] = t]
      /\ UNCHANGED <<delayed, dead, pc, raw, stage, history>>
      /\ processing \in [Worker -> Seq(Entry)] /\ queue \in Seq(Entry)
  BY <1>1 DEF RecoverOne, Types, TypeOK
<1>4. ToSet(q) = ToSet(queue) \cup {h}
  BY <1>2, <1>3, SequenceSets
<1> HIDE DEF h, t, q
<1>5. Held(u) = Held(u)' \cup {h} /\ \A v \in Worker : v # u => Held(v)' = Held(v)
  BY <1>1, <1>2, <1>3 DEF Held
<1>6. \A v \in Worker : InFlight(v)' = InFlight(v)
  BY <1>3 DEF InFlight
<1>7. h \in ToSet(queue)' /\ ToSet(queue)' = ToSet(queue) \cup {h}
  BY <1>3, <1>4
<1>8. Copies \subseteq Copies'
  <2>1. \A v \in Worker : Held(v) \subseteq Copies'
    BY <1>5, <1>7, NewPlaces
  <2>2. ToSet(queue) \subseteq Copies' /\ delayed \subseteq Copies'
    BY <1>3, <1>7, NewPlaces
  <2> QED BY <1>6, <2>1, <2>2, NewPlaces, NoneLost
<1>9. Copies' \subseteq Copies
  BY <1>1, <1>3, <1>5, <1>6, <1>7, Places, NoneMade
<1>10. HandsFollow
  BY <1>3 DEF HandsFollow
<1> QED BY <1>3, <1>8, <1>9, <1>10, CopiesMove

LEMMA ReserveMoves ==
  ASSUME Types, NEW w \in Worker, Reserve(w)
  PROVE  Shaped
<1> DEFINE h == Head(queue)
           t == Tail(queue)
           p == <<h>> \o processing[w]
<1>1. /\ queue # <<>> /\ queue' = t /\ processing' = [processing EXCEPT ![w] = p]
      /\ UNCHANGED <<delayed, dead, stage, history>>
      /\ raw' = [raw EXCEPT ![w] = h] /\ pc[w] = "reserve" /\ pc' = [pc EXCEPT ![w] = "judge"]
  BY DEF Reserve, Goto, Types, TypeOK
<1>2. /\ queue \in Seq(Entry) /\ processing[w] \in Seq(Entry) /\ processing \in [Worker -> Seq(Entry)]
      /\ pc \in [Worker -> Phase] /\ raw \in [Worker -> Entry \cup {NoEntry}]
  BY DEF Types, TypeOK
<1>3. h \in Entry /\ t \in Seq(Entry) /\ ToSet(queue) = ToSet(t) \cup {h}
  BY <1>1, <1>2, SequenceHeadTail
<1>4. ToSet(p) = ToSet(processing[w]) \cup {h}
  BY <1>2, <1>3, SequenceSets
<1> HIDE DEF h, t, p
<1>5. ToSet(queue) = ToSet(queue)' \cup {h}
  BY <1>1, <1>3
<1>6. Held(w)' = Held(w) \cup {h} /\ \A v \in Worker : v # w => Held(v)' = Held(v)
  BY <1>1, <1>2, <1>4 DEF Held
<1>7. \A v \in Worker : InFlight(v)' = InFlight(v)
  BY <1>1, <1>2 DEF InFlight
<1>8. Copies \subseteq Copies'
  BY <1>1, <1>5, <1>6, <1>7, NewPlaces, NoneLost
<1>9. h \in Copies
  BY <1>5, Places
<1>10. Copies' \subseteq Copies
  BY <1>1, <1>5, <1>6, <1>7, <1>9, Places, NoneMade
<1>11. HandsFollow
  BY <1>1, <1>2, <1>9 DEF HandsFollow
<1> QED BY <1>1, <1>8, <1>10, <1>11, CopiesMove

LEMMA RepushMoves ==
  ASSUME Types, NEW w \in Worker, Repush(w)
  PROVE  Shaped
<1> DEFINE r == raw[w]
<1>1. /\ r \in Entry /\ queue' = Append(queue, r) /\ queue \in Seq(Entry) /\ pc[w] = "repush"
      /\ UNCHANGED <<delayed, processing, dead, stage, history>>
      /\ raw' = [raw EXCEPT ![w] = NoEntry] /\ pc' = [pc EXCEPT ![w] = "promote"]
      /\ pc \in [Worker -> Phase] /\ raw \in [Worker -> Entry \cup {NoEntry}]
  BY DEF Repush, Goto, Types, TypeOK, HandOK
<1>2. InFlight(w) = {r} /\ InFlight(w)' = {} /\ \A v \in Worker : v # w => InFlight(v)' = InFlight(v)
  BY <1>1 DEF InFlight
<1> HIDE DEF r
<1>3. ToSet(queue') = ToSet(queue) \cup {r}
  BY <1>1, PushSet, Zenon
<1>4. \A v \in Worker : Held(v)' = Held(v)
  BY <1>1 DEF Held
<1>5. r \in Copies /\ r \in Copies'
  BY <1>2, <1>3, Places, NewPlaces
<1>6. Copies \subseteq Copies'
  BY <1>1, <1>2, <1>3, <1>4, <1>5, NewPlaces, NoneLost
<1>7. Copies' \subseteq Copies
  BY <1>1, <1>2, <1>3, <1>4, <1>5, Places, NoneMade
<1>8. HandsFollow
  BY <1>1 DEF HandsFollow
<1> QED BY <1>1, <1>6, <1>7, <1>8, CopiesMove

LEMMA TakeDelayedMoves ==
  ASSUME Types, NEW w \in Worker, NEW e \in delayed, TakeDelayed(w, e)
  PROVE  Shaped
<1>1. /\ pc[w] = "promote" /\ pc' = [pc EXCEPT ![w] = "repush"]
      /\ delayed' = delayed \ {e} /\ raw' = [raw EXCEPT ![w] = e]
      /\ UNCHANGED <<queue, processing, dead, stage, history>>
      /\ pc \in [Worker -> Phase] /\ raw \in [Worker -> Entry \cup {NoEntry}]
  BY DEF TakeDelayed, Goto, Types, TypeOK
<1>2. \A v \in Worker : Held(v)' = Held(v)
  BY <1>1 DEF Held
<1>3. InFlight(w) = {} /\ InFlight(w)' = {e} /\ \A v \in Worker : v # w => InFlight(v)' = InFlight(v)
  BY <1>1 DEF InFlight
<1>4. e \in Copies /\ e \in Copies'
  BY <1>3, Places, NewPlaces
<1>5. Copies \subseteq Copies'
  BY <1>1, <1>2, <1>3, <1>4, NewPlaces, NoneLost
<1>6. Copies' \subseteq Copies
  BY <1>1, <1>2, <1>3, <1>4, Places, NoneMade
<1>7. HandsFollow
  BY <1>1, <1>4 DEF HandsFollow
<1> QED BY <1>1, <1>5, <1>6, <1>7, CopiesMove

LEMMA BurySettles ==
  ASSUME Types, NEW w \in Worker, NEW err \in Error, Bury(w, err)
  PROVE  Shaped
<1> DEFINE d == Failed(raw[w], err)
<1>1. /\ raw[w] \in Entry /\ dead' = dead \cup {d}
      /\ pc[w] = "bury" /\ pc' = [pc EXCEPT ![w] = "ack"] /\ pc \in [Worker -> Phase]
      /\ UNCHANGED <<queue, delayed, processing, raw, stage, history>>
  BY DEF Bury, Goto, Types, TypeOK, HandOK, Unconcluded
<1>2. d.job = raw[w].job
  BY <1>1, EntryTypes
<1> HIDE DEF d
<1>3. Copies' = Copies
  BY <1>1, CopiesSame
<1>4. Buried' = Buried \cup {raw[w].job}
  BY <1>1, <1>2 DEF Buried
<1> QED BY <1>1, <1>3, <1>4 DEF Shaped, Settles, Ended, history, Pushed

LEMMA RetryLaterRetries ==
  ASSUME Types, NEW w \in Worker, NEW err \in Error, RetryLater(w, err)
  PROVE  Shaped
<1>1. /\ raw[w] \in Entry /\ raw[w].attempts + 1 < MaxAttempts
      /\ delayed' = delayed \cup {Failed(raw[w], err)}
      /\ pc[w] = "retry" /\ pc' = [pc EXCEPT ![w] = "requeue"] /\ pc \in [Worker -> Phase]
      /\ UNCHANGED <<queue, processing, dead, stage, raw, history>>
  BY DEF RetryLater, Goto, Types, TypeOK, HandOK, Unconcluded
<1>2. \A v \in Worker : Held(v)' = Held(v) /\ InFlight(v)' = InFlight(v)
  BY <1>1 DEF Held, InFlight
<1>3. Copies' = Copies \cup {Failed(raw[w], err)}
  BY <1>1, <1>2 DEF Copies
<1> QED BY <1>1, <1>3 DEF Shaped, Retries, Still, Ended, Buried, history, Pushed

(* LREM takes at most the worker's own copy. *)
LEMMA UnholdShrinks ==
  ASSUME Types, NEW w \in Worker, Unhold(w), raw[w] \in Entry, pc[w] # "repush", pc'[w] # "repush",
         UNCHANGED <<queue, delayed>>, raw' = [raw EXCEPT ![w] = NoEntry],
         \A v \in Worker : v # w => pc'[v] = pc[v]
  PROVE  Shrinks(w)
<1>1. /\ processing' = [processing EXCEPT ![w] = RemoveFirst(@, raw[w])]
      /\ processing \in [Worker -> Seq(Entry)] /\ raw \in [Worker -> Entry \cup {NoEntry}]
  BY DEF Unhold, Types, TypeOK
<1>2. /\ ToSet(processing[w]) \subseteq ToSet(RemoveFirst(processing[w], raw[w])) \cup {raw[w]}
      /\ ToSet(RemoveFirst(processing[w], raw[w])) \subseteq ToSet(processing[w])
  BY <1>1, RemoveFirstProperties
<1>3. \A v \in Worker : Held(v) \subseteq Held(v)' \cup {raw[w]} /\ Held(v)' \subseteq Held(v)
  BY <1>1, <1>2 DEF Held
<1>4. \A v \in Worker : InFlight(v)' = InFlight(v)
  BY <1>1 DEF InFlight
<1>5. Copies' \subseteq Copies
  BY <1>3, <1>4, Places, NoneMade
<1>6. Copies \subseteq Copies' \cup {raw[w]}
  BY <1>3, <1>4, NewPlaces DEF Copies
<1>7. \A v \in Worker : raw'[v] \in {raw[v], NoEntry}
  BY <1>1
<1> QED BY <1>5, <1>6, <1>7 DEF Shrinks

LEMMA AckDiscards ==
  ASSUME Types, NEW w \in Worker, Ack(w)
  PROVE  Shaped
<1>1. /\ UNCHANGED <<queue, delayed, dead, stage, history>>
      /\ pc[w] = "ack" /\ pc'[w] = "loop" /\ \A v \in Worker : v # w => pc'[v] = pc[v]
      /\ raw[w] \in Entry /\ raw' = [raw EXCEPT ![w] = NoEntry] /\ Unhold(w)
  BY DEF Ack, Goto, Types, TypeOK, HandOK, Concluded
<1>2. Shrinks(w)
  BY <1>1, UnholdShrinks
<1> QED BY <1>1, <1>2 DEF Shaped, Discards, Still, Closing, Concluded, Ended, Buried, history, Pushed

LEMMA LeavingDiscardsOrLoses ==
  ASSUME Types, NEW w \in Worker, AckAndLeave(w)
  PROVE  Shaped
<1>1. /\ UNCHANGED <<queue, delayed, dead, stage, ran, skipped, rejected>>
      /\ pc[w] \in Leaving /\ pc'[w] = "dead" /\ \A v \in Worker : v # w => pc'[v] = pc[v]
      /\ raw[w] \in Entry /\ raw' = [raw EXCEPT ![w] = NoEntry] /\ Unhold(w)
      /\ dropped' = IF pc[w] = "abort" THEN dropped \cup {raw[w].job} ELSE dropped
  BY DEF AckAndLeave, Forget, Types, TypeOK, HandOK
<1>2. Shrinks(w)
  BY <1>1, UnholdShrinks DEF Leaving
<1>3. Pushed' = Pushed /\ Ended' = Ended
  BY <1>1 DEF Ended, Buried, Pushed
<1>4. CASE pc[w] = "abort"
  BY <1>1, <1>2, <1>3, <1>4 DEF Shaped, Loses
<1>5. CASE pc[w] = "exit"
  BY <1>1, <1>2, <1>3, <1>5 DEF Shaped, Discards, Still, Closing
<1> QED BY <1>1, <1>4, <1>5 DEF Leaving

LEMMA CrashIdlesOrLoses ==
  ASSUME Types, NEW w \in Worker, Crash(w)
  PROVE  Shaped
<1>1. /\ UNCHANGED <<queue, delayed, processing, dead, stage, ran, skipped, rejected>>
      /\ pc' = [pc EXCEPT ![w] = "dead"] /\ raw' = [raw EXCEPT ![w] = NoEntry]
      /\ dropped' = IF pc[w] = "repush" THEN dropped \cup {raw[w].job} ELSE dropped
      /\ pc \in [Worker -> Phase] /\ raw \in [Worker -> Entry \cup {NoEntry}]
  BY DEF Crash, Forget, redis, Types, TypeOK
<1>2. Pushed' = Pushed /\ Ended' = Ended
  BY <1>1 DEF Ended, Buried, Pushed
<1>3. \A v \in Worker : raw'[v] \in {raw[v], NoEntry}
  BY <1>1
<1>4. CASE pc[w] # "repush"
  <2>1. Copies' = Copies
    BY <1>1, <1>4, CopiesSame
  <2> QED BY <1>1, <1>2, <1>3, <1>4, <2>1 DEF Shaped, Idles, Still, HandsFollow
<1>5. CASE pc[w] = "repush"
  <2>1. raw[w] \in Entry
    BY <1>5 DEF Types, HandOK
  <2>2. \A v \in Worker : Held(v)' = Held(v)
    BY <1>1 DEF Held
  <2>3. InFlight(w) = {raw[w]} /\ InFlight(w)' = {} /\ \A v \in Worker : v # w => InFlight(v)' = InFlight(v)
    BY <1>1, <1>5 DEF InFlight
  <2>4. \A v \in Worker : InFlight(v)' \subseteq Copies
    BY <2>3, Places
  <2>5. Copies' \subseteq Copies
    BY <1>1, <2>2, <2>4, Places, NoneMade
  <2>6. Copies \subseteq Copies' \cup {raw[w]}
    BY <1>1, <2>2, <2>3, NewPlaces DEF Copies
  <2>7. Loses(w)
    BY <1>1, <1>2, <1>3, <1>5, <2>1, <2>5, <2>6 DEF Loses, Shrinks
  <2> QED BY <2>7 DEF Shaped
<1> QED BY <1>4, <1>5

LEMMA EveryStepIsShaped == Types /\ [Next]_vars => Shaped
<1> SUFFICES ASSUME TypeOK, HandOK, Types, [Next]_vars
             PROVE  Shaped
  BY DEF Types
<1> USE DEF TypeOK, redis, locals, history, Unconcluded, Concluded, Leaving, Goto, Pushed
<1>1. ASSUME NEW j \in Job, InsertRow(j)
      PROVE  Shaped
  BY <1>1, IdleStep DEF InsertRow
<1>2. ASSUME NEW j \in Job, PushRefused(j)
      PROVE  Shaped
  BY <1>2, IdleStep DEF PushRefused
<1>3. ASSUME NEW j \in Job, Age(j)
      PROVE  Shaped
  BY <1>3, IdleStep DEF Age
<1>4. ASSUME NEW w \in Worker, Start(w)
      PROVE  Shaped
  BY <1>4, IdleStep DEF Start
<1>5. ASSUME NEW w \in Worker, ReapDue(w)
      PROVE  Shaped
  BY <1>5, IdleStep DEF ReapDue
<1>6. ASSUME NEW w \in Worker, Drained(w)
      PROVE  Shaped
  BY <1>6, IdleStep DEF Drained
<1>7. ASSUME NEW w \in Worker, ScanDone(w)
      PROVE  Shaped
  BY <1>7, IdleStep DEF ScanDone
<1>8. ASSUME NEW w \in Worker, Relabel(w)
      PROVE  Shaped
  BY <1>8, IdleStep DEF Relabel
<1>9. ASSUME NEW w \in Worker, SnapshotHeld(w)
      PROVE  Shaped
  BY <1>9, IdleStep DEF SnapshotHeld
<1>10. ASSUME NEW w \in Worker, SweepRows(w)
      PROVE  Shaped
  BY <1>10, IdleStep DEF SweepRows
<1>11. ASSUME NEW w \in Worker, ReapNotDue(w)
      PROVE  Shaped
  BY <1>11, IdleStep DEF ReapNotDue
<1>12. ASSUME NEW w \in Worker, PromoteDone(w)
      PROVE  Shaped
  BY <1>12, IdleStep DEF PromoteDone
<1>13. ASSUME NEW w \in Worker, ReserveTimeout(w)
      PROVE  Shaped
  BY <1>13, IdleStep DEF ReserveTimeout
<1>14. ASSUME NEW w \in Worker, FindSuperseded(w)
      PROVE  Shaped
  BY <1>14, IdleStep DEF FindSuperseded
<1>15. ASSUME NEW w \in Worker, Accept(w)
      PROVE  Shaped
  BY <1>15, IdleStep DEF Accept
<1>16. ASSUME NEW w \in Worker, Begin(w)
      PROVE  Shaped
  BY <1>16, IdleStep DEF Begin
<1>17. ASSUME NEW w \in Worker, HandlerRaises(w)
      PROVE  Shaped
  BY <1>17, IdleStep DEF HandlerRaises
<1>18. ASSUME NEW w \in Worker, Finish(w)
      PROVE  Shaped
  BY <1>18, IdleStep DEF Finish
<1>19. ASSUME NEW w \in Worker, MarkQueued(w)
      PROVE  Shaped
  BY <1>19, IdleStep DEF MarkQueued
<1>20. ASSUME NEW w \in Worker, MarkFailed(w)
      PROVE  Shaped
  BY <1>20, IdleStep DEF MarkFailed
<1>21. ASSUME NEW w \in Worker, Heartbeat(w)
      PROVE  Shaped
  BY <1>21, IdleStep DEF Heartbeat
<1>22. ASSUME NEW w \in Worker, Expire(w)
      PROVE  Shaped
  BY <1>22, IdleStep DEF Expire
<1>23. ASSUME NEW w \in Worker, Unwind(w)
      PROVE  Shaped
  BY <1>23, IdleStep DEF Unwind
<1>24. ASSUME NEW w \in Worker, Lapse(w)
      PROVE  Shaped
  BY <1>24, IdleStep DEF Lapse
<1>25. ASSUME NEW w \in Worker, NEW v \in Worker, FindOrphans(w, v)
      PROVE  Shaped
  BY <1>25, IdleStep DEF FindOrphans
<1>26. ASSUME NEW w \in Worker, RejectUnknown(w)
      PROVE  Shaped
  <2>1. raw[w] \in Entry /\ Copies' = Copies
    BY <1>26, CopiesSame DEF RejectUnknown, HandOK
  <2>2. Ended' = Ended \cup {raw[w].job} /\ UNCHANGED <<raw, dropped>> /\ Pushed' = Pushed
    BY <1>26 DEF RejectUnknown, Ended, Buried
  <2> QED BY <2>1, <2>2 DEF Shaped, Settles
<1>27. ASSUME NEW w \in Worker, SkipSuperseded(w)
      PROVE  Shaped
  <2>1. raw[w] \in Entry /\ Copies' = Copies
    BY <1>27, CopiesSame DEF SkipSuperseded, HandOK
  <2>2. Ended' = Ended \cup {raw[w].job} /\ UNCHANGED <<raw, dropped>> /\ Pushed' = Pushed
    BY <1>27 DEF SkipSuperseded, Ended, Buried
  <2> QED BY <2>1, <2>2 DEF Shaped, Settles
<1>28. ASSUME NEW w \in Worker, HandlerReturns(w)
      PROVE  Shaped
  <2>1. raw[w] \in Entry /\ Copies' = Copies
    BY <1>28, CopiesSame DEF HandlerReturns, HandOK
  <2>2. Ended' = Ended \cup {raw[w].job} /\ UNCHANGED <<raw, dropped>> /\ Pushed' = Pushed
    BY <1>28 DEF HandlerReturns, Ended, Buried
  <2> QED BY <2>1, <2>2 DEF Shaped, Settles
<1>29. ASSUME NEW w \in Worker, RecoverOne(w)
      PROVE  Shaped
  BY <1>29, RecoverOneMoves
<1>30. ASSUME NEW w \in Worker, Reserve(w)
      PROVE  Shaped
  BY <1>30, ReserveMoves
<1>31. ASSUME NEW w \in Worker, Repush(w)
      PROVE  Shaped
  BY <1>31, RepushMoves
<1>32. ASSUME NEW w \in Worker, Ack(w)
      PROVE  Shaped
  BY <1>32, AckDiscards
<1>33. ASSUME NEW w \in Worker, AckAndLeave(w)
      PROVE  Shaped
  BY <1>33, LeavingDiscardsOrLoses
<1>34. ASSUME NEW w \in Worker, Crash(w)
      PROVE  Shaped
  BY <1>34, CrashIdlesOrLoses
<1>35. ASSUME NEW j \in Job, Push(j)
      PROVE  Shaped
  BY <1>35, PushAccepts
<1>36. ASSUME NEW w \in Worker, NEW e \in delayed, TakeDelayed(w, e)
      PROVE  Shaped
  BY <1>36, TakeDelayedMoves
<1>37. ASSUME NEW w \in Worker, NEW err \in Error, Bury(w, err) \/ RetryLater(w, err)
      PROVE  Shaped
  BY <1>37, BurySettles, RetryLaterRetries
<1>38. CASE UNCHANGED vars
  BY <1>38, IdleStep DEF vars
<1> QED
  BY <1>1, <1>2, <1>3, <1>4, <1>5, <1>6, <1>7, <1>8, <1>9, <1>10, <1>11, <1>12, <1>13, <1>14, <1>15, <1>16, <1>17, <1>18, <1>19, <1>20, <1>21, <1>22, <1>23, <1>24, <1>25, <1>26, <1>27, <1>28, <1>29, <1>30, <1>31, <1>32, <1>33, <1>34, <1>35, <1>36, <1>37, <1>38 DEF Next, Work, Reap, Take, Process

-----------------------------------------------------------------------------
(* Whatever is in a list or in a hand was pushed. *)
AllPushed ==
  /\ \A e \in Copies : e.job \in Pushed
  /\ \A w \in Worker : raw[w] \in Entry => raw[w].job \in Pushed

LEMMA AllPushedStep == Types /\ AllPushed /\ [Next]_vars => AllPushed'
<1> SUFFICES ASSUME Types, AllPushed, [Next]_vars
             PROVE  AllPushed'
  OBVIOUS
<1>1. Shaped /\ NoEntry \notin Entry /\ Copies \subseteq Entry
  BY EveryStepIsShaped, CopiesType, NoEntryAssumption
<1>2. CASE Idles
  BY <1>1, <1>2 DEF Idles, Still, HandsFollow, AllPushed
<1>3. ASSUME NEW j \in Job, Accepts(j)
      PROVE  AllPushed'
  <2>1. Fresh(j).job = j
    BY EntryTypes
  <2> QED BY <1>3, <2>1 DEF Accepts, AllPushed
<1>4. ASSUME NEW w \in Worker, Settles(w)
      PROVE  AllPushed'
  BY <1>4 DEF Settles, AllPushed
<1>5. ASSUME NEW w \in Worker, Discards(w) \/ Loses(w)
      PROVE  AllPushed'
  BY <1>1, <1>5 DEF Discards, Loses, Shrinks, Still, AllPushed
<1>6. ASSUME NEW w \in Worker, NEW err \in Error, Retries(w, err)
      PROVE  AllPushed'
  <2>1. Failed(raw[w], err).job = raw[w].job
    BY <1>6, EntryTypes DEF Retries
  <2> QED BY <1>6, <2>1 DEF Retries, Still, AllPushed
<1> QED BY <1>1, <1>2, <1>3, <1>4, <1>5, <1>6 DEF Shaped

-----------------------------------------------------------------------------
(* The messages of the abstract box. *)
Letter(e) == <<e.job, e.attempts>>
Box == {Letter(e) : e \in Copies}

LEMMA BoxShrinks ==
  ASSUME NEW w \in Worker, Shrinks(w)
  PROVE  Box' = Box \/ (Letter(raw[w]) \in Box /\ Box' = Box \ {Letter(raw[w])})
<1>1. Box' \subseteq Box /\ Box \subseteq Box' \cup {Letter(raw[w])}
  BY DEF Shrinks, Box
<1> QED BY <1>1

(* A worker that is about to acknowledge leaves the job settled, or lost    *)
(* before, or a later message of it in the box.                             *)
LEMMA AckedIsFollowed ==
  ASSUME Types, AckIsSafe, NEW w \in Worker, pc[w] \in Closing, raw[w] \in Entry
  PROVE  \/ raw[w].job \in Ended \cup dropped
         \/ \E m \in raw[w].attempts + 1 .. MaxAttempts - 1 : <<raw[w].job, m>> \in Box
<1>1. Safe(raw[w].job, raw[w].attempts + 1) /\ raw[w].attempts \in Nat
  BY EntryTypes DEF AckIsSafe, Closing
<1>2. CASE Settled(raw[w].job)
  BY <1>2 DEF Settled, Ended
<1>3. CASE Pending(raw[w].job, raw[w].attempts + 1)
  <2>1. PICK e \in Copies : e.job = raw[w].job /\ e.attempts >= raw[w].attempts + 1
    BY <1>3 DEF Pending
  <2>2. e.attempts \in Nat /\ e.attempts < MaxAttempts
    BY CopiesType, EntryTypes
  <2>3. e.attempts \in raw[w].attempts + 1 .. MaxAttempts - 1
    BY <1>1, <2>1, <2>2, JobQueueAssumption
  <2>4. <<raw[w].job, e.attempts>> \in Box
    BY <2>1 DEF Box, Letter
  <2> QED BY <2>3, <2>4
<1> QED BY <1>1, <1>2, <1>3 DEF Safe

LEMMA StepDelivers ==
  Types /\ AckIsSafe /\ AllPushed /\ [Next]_vars => [Mailbox!Next]_(Mailbox!vars)
<1> SUFFICES ASSUME Types, AckIsSafe, AllPushed, [Next]_vars
             PROVE  Mailbox!Next \/ UNCHANGED <<Pushed, Box, Ended, dropped>>
  BY DEF Mailbox!vars, Pushed, Box, Letter, Ended
<1> USE DEF Mailbox!Next
<1>1. Shaped
  BY EveryStepIsShaped
<1>2. CASE Idles
  BY <1>2 DEF Idles, Still, Box
<1>3. ASSUME NEW j \in Job, Accepts(j)
      PROVE  Mailbox!Next
  <2>1. Letter(Fresh(j)) = <<j, 0>>
    BY EntryTypes DEF Letter
  <2>2. Box' = Box \cup {<<j, 0>>}
    BY <1>3, <2>1 DEF Accepts, Box
  <2>3. Mailbox!Accept(j)
    BY <1>3, <2>2 DEF Accepts, Mailbox!Accept, Pushed, Box, Letter, Ended
  <2> QED BY <2>3
<1>4. ASSUME NEW w \in Worker, Settles(w)
      PROVE  Mailbox!Next
  <2>1. raw[w].job \in Job /\ raw[w].job \in Pushed
    BY <1>4, EntryTypes DEF Settles, AllPushed
  <2>2. Box' = Box
    BY <1>4 DEF Settles, Box
  <2>3. Mailbox!Settle(raw[w].job)
    BY <1>4, <2>1, <2>2 DEF Settles, Mailbox!Settle, Pushed, Box, Letter, Ended
  <2> QED BY <2>1, <2>3
<1>5. ASSUME NEW w \in Worker, NEW err \in Error, Retries(w, err)
      PROVE  Mailbox!Next
  <2>1. PICK j \in Job, n \in 0 .. MaxAttempts - 1 :
          j = raw[w].job /\ n = raw[w].attempts /\ j \in Pushed /\ n + 1 < MaxAttempts
    BY <1>5, EntryTypes, JobQueueAssumption DEF Retries, AllPushed
  <2>2. Letter(Failed(raw[w], err)) = <<j, n + 1>>
    BY <1>5, <2>1, EntryTypes DEF Retries, Letter
  <2>3. Box' = Box \cup {<<j, n + 1>>}
    BY <1>5, <2>2 DEF Retries, Box
  <2>4. Mailbox!Retry(j, n)
    BY <1>5, <2>1, <2>3 DEF Retries, Still, Mailbox!Retry, Pushed, Box, Letter, Ended
  <2> QED BY <2>1, <2>4
<1>6. ASSUME NEW w \in Worker, Discards(w)
      PROVE  Mailbox!Next \/ UNCHANGED <<Pushed, Box, Ended, dropped>>
  <2>1. PICK j \in Job, n \in 0 .. MaxAttempts - 1 :
          j = raw[w].job /\ n = raw[w].attempts /\ Letter(raw[w]) = <<j, n>>
    BY <1>6, EntryTypes, JobQueueAssumption DEF Discards, Shrinks, Letter
  <2>2. j \in Ended \cup dropped \/ \E m \in n + 1 .. MaxAttempts - 1 : <<j, m>> \in Box
    BY <1>6, <2>1, AckedIsFollowed DEF Discards, Shrinks
  <2>3. Box' = Box \/ (<<j, n>> \in Box /\ Box' = Box \ {<<j, n>>})
    BY <1>6, <2>1, BoxShrinks DEF Discards
  <2>4. CASE Box' = Box
    BY <1>6, <2>4 DEF Discards, Still
  <2>5. CASE <<j, n>> \in Box /\ Box' = Box \ {<<j, n>>}
    <3>1. Mailbox!Discard(j, n)
      BY <1>6, <2>2, <2>5 DEF Discards, Still, Mailbox!Discard, Pushed, Box, Letter, Ended
    <3> QED BY <2>1, <3>1
  <2> QED BY <2>3, <2>4, <2>5
<1>7. ASSUME NEW w \in Worker, Loses(w)
      PROVE  Mailbox!Next
  <2>1. PICK j \in Job, n \in 0 .. MaxAttempts - 1 :
          j = raw[w].job /\ n = raw[w].attempts /\ j \in Pushed /\ Letter(raw[w]) = <<j, n>>
    BY <1>7, EntryTypes, JobQueueAssumption DEF Loses, Shrinks, Letter, AllPushed
  <2>2. Box' = Box \/ Box' = Box \ {<<j, n>>}
    BY <1>7, <2>1, BoxShrinks DEF Loses
  <2>3. dropped' = dropped \cup {j}
    BY <1>7, <2>1 DEF Loses
  <2>4. Mailbox!Lose(j, n)
    BY <1>7, <2>1, <2>2, <2>3 DEF Loses, Mailbox!Lose, Pushed, Box, Letter, Ended
  <2> QED BY <2>1, <2>4
<1> QED BY <1>1, <1>2, <1>3, <1>4, <1>5, <1>6, <1>7 DEF Shaped

(* The queue of queue_client.py, with all the workers of main.py and their  *)
(* crashes, lapsed heartbeats and retries, implements the box of messages:  *)
(* at-least-once delivery and a bounded number of attempts.                 *)
THEOREM QueueImplementsDelivery == Spec => DeliverySpec
<1> DEFINE IInv == Types /\ AckIsSafe /\ AllPushed
<1>1. Init => IInv /\ Mailbox!Init
  <2> SUFFICES ASSUME Init
               PROVE  IInv /\ Mailbox!Init
    OBVIOUS
  <2>1. Types
    BY TypesInit
  <2>2. AckIsSafe
    BY DEF Init, AckIsSafe, Concluded
  <2>3. Copies = {}
    BY DEF Init, Copies, Held, InFlight, ToSet
  <2>4. AllPushed
    BY <2>3, NoEntryAssumption DEF Init, AllPushed
  <2>5. Mailbox!Init
    BY <2>3 DEF Init, Mailbox!Init, Buried
  <2> QED BY <2>1, <2>2, <2>4, <2>5
<1>2. IInv /\ [Next]_vars => IInv'
  BY TypesStep, AckIsSafeStep, AllPushedStep
<1>3. IInv /\ [Next]_vars => [Mailbox!Next]_(Mailbox!vars)
  BY StepDelivers
<1> QED BY <1>1, <1>2, <1>3, PTL DEF Spec, DeliverySpec, Mailbox!Spec
=============================================================================
