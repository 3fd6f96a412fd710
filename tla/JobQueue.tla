------------------------------ MODULE JobQueue ------------------------------
(***************************************************************************)
(* The job queue of the NAKSHA worker: worker/src/queue_client.py and the  *)
(* loop of worker/src/main.py, with the producers of                       *)
(* backend/src/infra/queue.client.ts.                                      *)
(*                                                                         *)
(* Redis keeps a list of waiting jobs, a sorted set of delayed retries, a  *)
(* list of held jobs and a heartbeat key per worker, and a dead-letter     *)
(* list.  PostgreSQL keeps one pipeline_jobs row per job.  Every Redis     *)
(* command and every database transaction is one atomic step; a worker is  *)
(* a program counter that moves from one to the next, and can be killed    *)
(* between any two.                                                        *)
(*                                                                         *)
(* A list is a sequence whose head is the end that BLMOVE consumes (the    *)
(* right end of the Redis list), so LPUSH is Append.                       *)
(***************************************************************************)
EXTENDS Integers, SequencesExt

CONSTANTS
  Job,          \* job ids
  Worker,       \* worker processes; a restarted container is another one
  Known,        \* the jobs whose jobType has a handler
  Topic,        \* job -> its (jobType, ward) if that type is coalesced
  NoTopic,      \* ... and NoTopic if it is not
  Error,        \* texts of handler exceptions
  NoError,      \* a job that has not failed yet carries no "error"
  NoEntry,      \* a worker with no raw job in hand
  NoWorker,     \* a worker that is draining no one's list
  MaxAttempts,  \* MAX_ATTEMPTS
  FaultBound    \* how often each kind of fault may strike

FaultKind == {"crash", "unwind", "theft", "refuse", "db"}

ASSUME JobQueueAssumption ==
  /\ MaxAttempts \in Nat \ {0}
  /\ Known \subseteq Job
  /\ \A j \in Job : Topic[j] # NoTopic => j \in Known
  /\ NoError \notin Error
  /\ Error # {}
  /\ NoWorker \notin Worker
  /\ FaultBound \in [FaultKind -> Nat]

(* A raw job: the JSON text on the lists.  Two texts are equal exactly when *)
(* the job, its "attempts" and its "error" are.                             *)
Entry == [job : Job, attempts : 0 .. MaxAttempts - 1, error : Error \cup {NoError}]
Fresh(j) == [job |-> j, attempts |-> 0, error |-> NoError]
Failed(e, err) == [job |-> e.job, attempts |-> e.attempts + 1, error |-> err]
DeadEntry == [job : Job, attempts : {MaxAttempts}, error : Error]

ASSUME NoEntryAssumption == NoEntry \notin Entry

VARIABLES
  queue,        \* queue:ingest
  delayed,      \* queue:ingest:delayed
  processing,   \* queue:ingest:processing:<worker>, its left end first
  dead,         \* queue:ingest:dead
  alive,        \* the workers whose heartbeat key exists
  stage,        \* how far the producer of a job has come
  status,       \* pipeline_jobs.status, "none" if the job has no row
  born,         \* pipeline_jobs.created_at, 0 if the job has no row
  clock,        \* the number of rows created so far
  old,          \* rows whose started_at is older than STALE_GRACE_MIN
  pc,           \* where each worker stands
  raw,          \* the raw job a worker has in hand
  target,       \* whose list a worker is draining
  recovered,    \* the raw jobs recover_orphans has moved
  held,         \* the jobIds held_job_ids returned
  ran,          \* history: jobs whose handler has returned
  skipped,      \* history: jobs marked done because superseded
  rejected,     \* history: jobs of an unknown type
  dropped,      \* history: jobs a copy of which has left Redis unhandled
  faults        \* history: how often each fault has struck

redis   == <<queue, delayed, processing, dead>>
rows    == <<status, born, clock, old>>
locals  == <<target, recovered, held>>
history == <<ran, skipped, rejected, dropped>>
vars == <<redis, alive, stage, rows, pc, raw, locals, history, faults>>

(* The phases of a worker.  In Unconcluded ones it holds a job whose outcome *)
(* is recorded nowhere yet, in Concluded ones it only has to tidy up.        *)
Reaping     == {"scan", "drain", "relabel", "sweep"}
Unconcluded == {"judge", "skip", "begin", "work", "retry", "giveup", "bury"}
Concluded   == {"finish", "requeue", "ack"}
Leaving     == {"abort", "exit"}
Up    == {"loop", "promote", "repush", "reserve"}
           \cup Reaping \cup Unconcluded \cup Concluded \cup Leaving
Phase == {"off", "dead"} \cup Up

TypeOK ==
  /\ queue \in Seq(Entry)
  /\ delayed \in SUBSET Entry
  /\ processing \in [Worker -> Seq(Entry)]
  /\ dead \in SUBSET DeadEntry
  /\ alive \in SUBSET Worker
  /\ stage \in [Job -> {"new", "inserted", "pushed", "refused"}]
  /\ status \in [Job -> {"none", "queued", "running", "done", "failed"}]
  /\ born \in [Job -> Nat]
  /\ clock \in Nat
  /\ old \in SUBSET Job
  /\ pc \in [Worker -> Phase]
  /\ raw \in [Worker -> Entry \cup {NoEntry}]
  /\ target \in [Worker -> Worker \cup {NoWorker}]
  /\ recovered \in [Worker -> Seq(Entry)]
  /\ held \in [Worker -> SUBSET Job]
  /\ ran \in SUBSET Job
  /\ skipped \in SUBSET Job
  /\ rejected \in SUBSET Job
  /\ dropped \in SUBSET Job
  /\ faults \in [FaultKind -> Nat]

Init ==
  /\ queue = <<>>
  /\ delayed = {}
  /\ processing = [w \in Worker |-> <<>>]
  /\ dead = {}
  /\ alive = {}
  /\ stage = [j \in Job |-> "new"]
  /\ status = [j \in Job |-> "none"]
  /\ born = [j \in Job |-> 0]
  /\ clock = 0
  /\ old = {}
  /\ pc = [w \in Worker |-> "off"]
  /\ raw = [w \in Worker |-> NoEntry]
  /\ target = [w \in Worker |-> NoWorker]
  /\ recovered = [w \in Worker |-> <<>>]
  /\ held = [w \in Worker |-> {}]
  /\ ran = {}
  /\ skipped = {}
  /\ rejected = {}
  /\ dropped = {}
  /\ faults = [k \in FaultKind |-> 0]

(* A fault of kind k strikes, at most FaultBound[k] times. *)
Strike(k) ==
  /\ faults[k] < FaultBound[k]
  /\ faults' = [faults EXCEPT ![k] = @ + 1]

Goto(w, from, to) ==
  /\ pc[w] = from
  /\ pc' = [pc EXCEPT ![w] = to]

-----------------------------------------------------------------------------
(* pipeline_jobs *)

(* INSERT ... ON CONFLICT (id) DO NOTHING, then UPDATE ... SET status = s. *)
(* A row that is created here is born now.                                 *)
WriteRow(j, s) ==
  /\ status' = [status EXCEPT ![j] = s]
  /\ IF born[j] = 0
     THEN /\ clock' = clock + 1
          /\ born' = [born EXCEPT ![j] = clock + 1]
     ELSE UNCHANGED <<clock, born>>
  /\ old' = IF s = "running" THEN old \ {j} ELSE old

(* _track: the row is written, or the exception is swallowed. *)
Track(j, s) ==
  \/ WriteRow(j, s) /\ UNCHANGED faults
  \/ Strike("db") /\ UNCHANGED rows

(* Mutant: the query forgets to compare created_at. *)
SupersedesWhateverItsAge(k, j) ==
  /\ Topic[j] # NoTopic
  /\ Topic[k] = Topic[j]
  /\ k # j

(* _superseded: a newer job of the same type and ward whose row is queued. *)
Supersedes(k, j) ==
  /\ Topic[j] # NoTopic
  /\ Topic[k] = Topic[j]
  /\ 0 < born[j] /\ born[j] < born[k]
Superseded(j) == \E k \in Job : Supersedes(k, j) /\ status[k] = "queued"

(* held_job_ids: what the processing lists hold. *)
Held(w) == ToSet(processing[w])
HeldJobs == {e.job : e \in UNION {Held(w) : w \in Worker}}

(* The row of a running job becomes older than STALE_GRACE_MIN minutes. *)
Age(j) ==
  /\ status[j] = "running"
  /\ j \notin old
  /\ old' = old \cup {j}
  /\ UNCHANGED <<redis, alive, stage, status, born, clock, pc, raw, locals, history, faults>>

-----------------------------------------------------------------------------
(* Producers: the API's Queue.enqueue and the worker's enqueue.  The row is *)
(* written first; only the API goes on when that fails.                     *)

InsertRow(j) ==
  /\ stage[j] = "new"
  /\ stage' = [stage EXCEPT ![j] = "inserted"]
  /\ Track(j, "queued")
  /\ UNCHANGED <<redis, alive, pc, raw, locals, history>>

Push(j) ==
  /\ stage[j] = "inserted"
  /\ stage' = [stage EXCEPT ![j] = "pushed"]
  /\ queue' = Append(queue, Fresh(j))
  /\ UNCHANGED <<delayed, processing, dead, alive, rows, pc, raw, locals, history, faults>>

(* LPUSH raises, or the producer dies before it: the row stays. *)
PushRefused(j) ==
  /\ stage[j] = "inserted"
  /\ Strike("refuse")
  /\ stage' = [stage EXCEPT ![j] = "refused"]
  /\ UNCHANGED <<redis, alive, rows, pc, raw, locals, history>>

-----------------------------------------------------------------------------
(* The loop of run(): reap if it is due, promote, reserve, process, ack. *)

Start(w) ==
  /\ Goto(w, "off", "loop")
  /\ alive' = alive \cup {w}
  /\ UNCHANGED <<redis, stage, rows, raw, locals, history, faults>>

ReapDue(w) ==
  /\ Goto(w, "loop", "scan")
  /\ UNCHANGED <<redis, alive, stage, rows, raw, locals, history, faults>>

ReapNotDue(w) ==
  /\ Goto(w, "loop", "promote")
  /\ UNCHANGED <<redis, alive, stage, rows, raw, locals, history, faults>>

(* Mutant: the test of the heartbeat key is inverted. *)
FindOrphansAmongTheLiving(w, v) ==
  /\ Goto(w, "scan", "drain")
  /\ processing[v] # <<>>
  /\ v \in alive
  /\ target' = [target EXCEPT ![w] = v]
  /\ UNCHANGED <<redis, alive, stage, rows, raw, recovered, held, history, faults>>

(* recover_orphans: SCAN returns the list of a worker v (an empty list does *)
(* not exist in Redis), and v has no heartbeat key.  A list whose owner has *)
(* one is passed over.  SCAN may return a list twice, or never if it was    *)
(* not there throughout.                                                    *)
FindOrphans(w, v) ==
  /\ Goto(w, "scan", "drain")
  /\ processing[v] # <<>>
  /\ v \notin alive
  /\ target' = [target EXCEPT ![w] = v]
  /\ UNCHANGED <<redis, alive, stage, rows, raw, recovered, held, history, faults>>

(* LMOVE LEFT RIGHT: the newest job of the list goes to the end that is *)
(* consumed next, so the oldest one ends up first.  It is a theft if its *)
(* holder is not dead but only missed its heartbeats.                    *)
RecoverOne(w) ==
  LET v == target[w] IN
  /\ pc[w] = "drain"
  /\ processing[v] # <<>>
  /\ IF pc[v] \in Up THEN Strike("theft") ELSE UNCHANGED faults
  /\ queue' = <<Head(processing[v])>> \o queue
  /\ processing' = [processing EXCEPT ![v] = Tail(@)]
  /\ recovered' = [recovered EXCEPT ![w] = Append(@, Head(processing[v]))]
  /\ UNCHANGED <<delayed, dead, alive, stage, rows, pc, raw, target, held, history>>

Drained(w) ==
  /\ Goto(w, "drain", "scan")
  /\ processing[target[w]] = <<>>
  /\ target' = [target EXCEPT ![w] = NoWorker]
  /\ UNCHANGED <<redis, alive, stage, rows, raw, recovered, held, history, faults>>

ScanDone(w) ==
  /\ Goto(w, "scan", "relabel")
  /\ UNCHANGED <<redis, alive, stage, rows, raw, locals, history, faults>>

(* _reap: every recovered job is marked queued, after it is on the queue. *)
Relabel(w) ==
  /\ pc[w] = "relabel"
  /\ recovered[w] # <<>>
  /\ Track(Head(recovered[w]).job, "queued")
  /\ recovered' = [recovered EXCEPT ![w] = Tail(@)]
  /\ UNCHANGED <<redis, alive, stage, pc, raw, target, held, history>>

SnapshotHeld(w) ==
  /\ recovered[w] = <<>>
  /\ Goto(w, "relabel", "sweep")
  /\ held' = [held EXCEPT ![w] = HeldJobs]
  /\ UNCHANGED <<redis, alive, stage, rows, raw, target, recovered, history, faults>>

(* Mutant: the sweep fails the rows that are held. *)
SweepHeldRows(w) ==
  /\ Goto(w, "sweep", "promote")
  /\ held' = [held EXCEPT ![w] = {}]
  /\ \/ /\ status' = [j \in Job |-> IF status[j] = "running" /\ j \in old \cap held[w]
                                    THEN "failed" ELSE status[j]]
        /\ UNCHANGED <<born, clock, old, faults>>
     \/ Strike("db") /\ UNCHANGED rows
  /\ UNCHANGED <<redis, alive, stage, raw, target, recovered, history>>

(* Running rows that are old and were not in the snapshot are failed. *)
SweepRows(w) ==
  /\ Goto(w, "sweep", "promote")
  /\ held' = [held EXCEPT ![w] = {}]
  /\ \/ /\ status' = [j \in Job |-> IF status[j] = "running" /\ j \in old \ held[w]
                                    THEN "failed" ELSE status[j]]
        /\ UNCHANGED <<born, clock, old, faults>>
     \/ Strike("db") /\ UNCHANGED rows
  /\ UNCHANGED <<redis, alive, stage, raw, target, recovered, history>>

(* Mutant: a due job is pushed whether or not the ZREM removed it. *)
TakeDelayedUnclaimed(w, e) ==
  /\ Goto(w, "promote", "repush")
  /\ e \in delayed
  /\ raw' = [raw EXCEPT ![w] = e]
  /\ UNCHANGED <<redis, alive, stage, rows, locals, history, faults>>

(* promote_due: ZREM the raw job of a retry that is due ... *)
TakeDelayed(w, e) ==
  /\ Goto(w, "promote", "repush")
  /\ e \in delayed
  /\ delayed' = delayed \ {e}
  /\ raw' = [raw EXCEPT ![w] = e]
  /\ UNCHANGED <<queue, processing, dead, alive, stage, rows, locals, history, faults>>

(* ... and LPUSH it. *)
Repush(w) ==
  /\ Goto(w, "repush", "promote")
  /\ queue' = Append(queue, raw[w])
  /\ raw' = [raw EXCEPT ![w] = NoEntry]
  /\ UNCHANGED <<delayed, processing, dead, alive, stage, rows, locals, history, faults>>

PromoteDone(w) ==
  /\ Goto(w, "promote", "reserve")
  /\ UNCHANGED <<redis, alive, stage, rows, raw, locals, history, faults>>

(* Mutant: BRPOP, which leaves the job in the worker's memory only. *)
ReserveByPop(w) ==
  /\ Goto(w, "reserve", "judge")
  /\ queue # <<>>
  /\ queue' = Tail(queue)
  /\ raw' = [raw EXCEPT ![w] = Head(queue)]
  /\ UNCHANGED <<delayed, processing, dead, alive, stage, rows, locals, history, faults>>

(* BLMOVE RIGHT LEFT. *)
Reserve(w) ==
  /\ Goto(w, "reserve", "judge")
  /\ queue # <<>>
  /\ queue' = Tail(queue)
  /\ processing' = [processing EXCEPT ![w] = <<Head(queue)>> \o @]
  /\ raw' = [raw EXCEPT ![w] = Head(queue)]
  /\ UNCHANGED <<delayed, dead, alive, stage, rows, locals, history, faults>>

ReserveTimeout(w) ==
  /\ queue = <<>>
  /\ Goto(w, "reserve", "loop")
  /\ UNCHANGED <<redis, alive, stage, rows, raw, locals, history, faults>>

-----------------------------------------------------------------------------
(* _process, one action per database transaction, handler run or command. *)

RejectUnknown(w) ==
  /\ Goto(w, "judge", "ack")
  /\ raw[w].job \notin Known
  /\ Track(raw[w].job, "failed")
  /\ rejected' = rejected \cup {raw[w].job}
  /\ UNCHANGED <<redis, alive, stage, raw, locals, ran, skipped, dropped>>

FindSuperseded(w) ==
  /\ Goto(w, "judge", "skip")
  /\ raw[w].job \in Known
  /\ Superseded(raw[w].job)
  /\ UNCHANGED <<redis, alive, stage, rows, raw, locals, history, faults>>

SkipSuperseded(w) ==
  /\ Goto(w, "skip", "ack")
  /\ Track(raw[w].job, "done")
  /\ skipped' = skipped \cup {raw[w].job}
  /\ UNCHANGED <<redis, alive, stage, raw, locals, ran, rejected, dropped>>

(* When in doubt (the query raised), run the job. *)
Accept(w) ==
  /\ Goto(w, "judge", "begin")
  /\ raw[w].job \in Known
  /\ \/ ~Superseded(raw[w].job) /\ UNCHANGED faults
     \/ Strike("db")
  /\ UNCHANGED <<redis, alive, stage, rows, raw, locals, history>>

Begin(w) ==
  /\ Goto(w, "begin", "work")
  /\ Track(raw[w].job, "running")
  /\ UNCHANGED <<redis, alive, stage, raw, locals, history>>

HandlerReturns(w) ==
  /\ Goto(w, "work", "finish")
  /\ ran' = ran \cup {raw[w].job}
  /\ UNCHANGED <<redis, alive, stage, rows, raw, locals, skipped, rejected, dropped, faults>>

(* Mutant: <= for < in the test of MAX_ATTEMPTS. *)
HandlerRaisesOnceMore(w) ==
  /\ Goto(w, "work", IF raw[w].attempts + 1 <= MaxAttempts THEN "retry" ELSE "giveup")
  /\ UNCHANGED <<redis, alive, stage, rows, raw, locals, history, faults>>

HandlerRaises(w) ==
  /\ Goto(w, "work", IF raw[w].attempts + 1 < MaxAttempts THEN "retry" ELSE "giveup")
  /\ UNCHANGED <<redis, alive, stage, rows, raw, locals, history, faults>>

Finish(w) ==
  /\ Goto(w, "finish", "ack")
  /\ Track(raw[w].job, "done")
  /\ UNCHANGED <<redis, alive, stage, raw, locals, history>>

(* Mutant: retry_later gets the raw job it was given, not the updated one. *)
RetryUncounted(w, err) ==
  /\ Goto(w, "retry", "requeue")
  /\ delayed' = delayed \cup {raw[w]}
  /\ UNCHANGED <<queue, processing, dead, alive, stage, rows, raw, locals, history, faults>>

(* retry_later: the raw job goes to the sorted set with one more attempt. *)
RetryLater(w, err) ==
  /\ Goto(w, "retry", "requeue")
  /\ delayed' = delayed \cup {Failed(raw[w], err)}
  /\ UNCHANGED <<queue, processing, dead, alive, stage, rows, raw, locals, history, faults>>

MarkQueued(w) ==
  /\ Goto(w, "requeue", "ack")
  /\ Track(raw[w].job, "queued")
  /\ UNCHANGED <<redis, alive, stage, raw, locals, history>>

(* Mutant: the job is given up without a trace on the dead-letter list. *)
MarkFailedUnburied(w) ==
  /\ Goto(w, "giveup", "ack")
  /\ Track(raw[w].job, "failed")
  /\ UNCHANGED <<redis, alive, stage, raw, locals, history>>

MarkFailed(w) ==
  /\ Goto(w, "giveup", "bury")
  /\ Track(raw[w].job, "failed")
  /\ UNCHANGED <<redis, alive, stage, raw, locals, history>>

(* LPUSH on the dead-letter list, of which only the membership is kept. *)
Bury(w, err) ==
  /\ Goto(w, "bury", "ack")
  /\ dead' = dead \cup {Failed(raw[w], err)}
  /\ UNCHANGED <<queue, delayed, processing, alive, stage, rows, raw, locals, history, faults>>

(* Mutant: the job is serialised again, with its error, and LREM finds nothing. *)
UnholdReserialised(w) ==
  processing' = [processing EXCEPT ![w] = RemoveFirst(@, Failed(raw[w], NoError))]

(* LREM 1 of the raw job, in the worker's own list only. *)
Unhold(w) == processing' = [processing EXCEPT ![w] = RemoveFirst(@, raw[w])]

Ack(w) ==
  /\ Goto(w, "ack", "loop")
  /\ Unhold(w)
  /\ raw' = [raw EXCEPT ![w] = NoEntry]
  /\ UNCHANGED <<queue, delayed, dead, alive, stage, rows, locals, history, faults>>

-----------------------------------------------------------------------------
(* Faults. *)

Forget(w) ==
  /\ raw' = [raw EXCEPT ![w] = NoEntry]
  /\ target' = [target EXCEPT ![w] = NoWorker]
  /\ recovered' = [recovered EXCEPT ![w] = <<>>]
  /\ held' = [held EXCEPT ![w] = {}]

(* The process is killed between two steps.  A job that promote_due has *)
(* taken out of the sorted set and not pushed yet dies with it.         *)
Crash(w) ==
  /\ pc[w] \in Up
  /\ Strike("crash")
  /\ pc' = [pc EXCEPT ![w] = "dead"]
  /\ Forget(w)
  /\ dropped' = IF pc[w] = "repush" THEN dropped \cup {raw[w].job} ELSE dropped
  /\ UNCHANGED <<redis, alive, stage, rows, ran, skipped, rejected>>

(* An exception that _process does not catch (KeyboardInterrupt, a Redis *)
(* error in retry_later or in the LPUSH on the dead-letter list) unwinds *)
(* run(): its finally clause still acknowledges the job ...              *)
Unwind(w) ==
  /\ pc[w] \in Unconcluded \cup {"finish", "requeue"}
  /\ Strike("unwind")
  /\ pc' = [pc EXCEPT ![w] = IF pc[w] \in Unconcluded THEN "abort" ELSE "exit"]
  /\ UNCHANGED <<redis, alive, stage, rows, raw, locals, history>>

(* ... and the process ends. *)
AckAndLeave(w) ==
  /\ pc[w] \in Leaving
  /\ pc' = [pc EXCEPT ![w] = "dead"]
  /\ Unhold(w)
  /\ Forget(w)
  /\ dropped' = IF pc[w] = "abort" THEN dropped \cup {raw[w].job} ELSE dropped
  /\ UNCHANGED <<queue, delayed, dead, alive, stage, rows, ran, skipped, rejected, faults>>

(* The heartbeat thread sets the key again after it was missed. *)
Heartbeat(w) ==
  /\ pc[w] \in Up
  /\ w \notin alive
  /\ alive' = alive \cup {w}
  /\ UNCHANGED <<redis, stage, rows, pc, raw, locals, history, faults>>

(* The key of a live worker expires: no beat got through for a whole TTL. *)
Lapse(w) ==
  /\ pc[w] \in Up
  /\ w \in alive
  /\ alive' = alive \ {w}
  /\ UNCHANGED <<redis, stage, rows, pc, raw, locals, history, faults>>

(* The key of a dead worker expires HEARTBEAT_TTL seconds after its last beat. *)
Expire(w) ==
  /\ pc[w] = "dead"
  /\ w \in alive
  /\ alive' = alive \ {w}
  /\ UNCHANGED <<redis, stage, rows, pc, raw, locals, history, faults>>

-----------------------------------------------------------------------------
Reap(w) ==
  \/ ReapDue(w) \/ RecoverOne(w) \/ Drained(w) \/ ScanDone(w)
  \/ Relabel(w) \/ SnapshotHeld(w) \/ SweepRows(w)
  \/ \E v \in Worker : FindOrphans(w, v)

Take(w) ==
  \/ ReapNotDue(w) \/ Repush(w) \/ PromoteDone(w) \/ Reserve(w) \/ ReserveTimeout(w)
  \/ \E e \in delayed : TakeDelayed(w, e)

Process(w) ==
  \/ RejectUnknown(w) \/ FindSuperseded(w) \/ SkipSuperseded(w) \/ Accept(w) \/ Begin(w)
  \/ HandlerReturns(w) \/ HandlerRaises(w) \/ Finish(w)
  \/ MarkQueued(w) \/ MarkFailed(w) \/ Ack(w) \/ AckAndLeave(w)
  \/ \E err \in Error : RetryLater(w, err) \/ Bury(w, err)

Work(w) == Reap(w) \/ Take(w) \/ Process(w)

Next ==
  \/ \E j \in Job : InsertRow(j) \/ Push(j) \/ PushRefused(j) \/ Age(j)
  \/ \E w \in Worker :
       \/ Start(w) \/ Work(w) \/ Heartbeat(w) \/ Expire(w)
       \/ Crash(w) \/ Unwind(w) \/ Lapse(w)

Spec == Init /\ [][Next]_vars

-----------------------------------------------------------------------------
(* Safety. *)

(* What a worker has in hand, phase by phase: with the type invariant, the *)
(* part of the inductive invariant that says every step finds its operands. *)
HandOK ==
  \A w \in Worker :
    /\ pc[w] \in Unconcluded \cup Concluded \cup Leaving \cup {"repush"} => raw[w] \in Entry
    /\ pc[w] = "retry" => raw[w].attempts + 1 < MaxAttempts
    /\ pc[w] \in {"giveup", "bury"} => raw[w].attempts + 1 = MaxAttempts
    /\ pc[w] = "drain" => target[w] \in Worker

(* The copies of jobs that Redis, or promote_due between its two commands, *)
(* still holds and will deliver.                                           *)
InFlight(w) == IF pc[w] = "repush" THEN {raw[w]} ELSE {}
Copies == ToSet(queue) \cup delayed \cup UNION {Held(w) \cup InFlight(w) : w \in Worker}

Buried == {e.job : e \in dead}

(* At-least-once delivery, as far as it goes: a job that was pushed has run, *)
(* was skipped, rejected or dead-lettered, or a copy of it is still to be    *)
(* delivered -- unless it was dropped, which only happens when a worker dies *)
(* between the ZREM and the LPUSH of promote_due, or when an exception       *)
(* leaves _process and the finally clause of run() acknowledges the job.     *)
Settled(j) == j \in ran \cup skipped \cup rejected \cup dropped \cup Buried
Pending(j, n) == \E e \in Copies : e.job = j /\ e.attempts >= n
Safe(j, n) == Settled(j) \/ Pending(j, n)
NothingElseIsLost == \A j \in Job : stage[j] = "pushed" => Safe(j, 0)

(* The ack is safe: a worker that has recorded the outcome of a job leaves  *)
(* behind a settled job or a later attempt of it, whatever the other        *)
(* workers did with that attempt meanwhile.                                 *)
AckIsSafe ==
  \A w \in Worker : pc[w] \in Concluded \cup {"exit"} =>
    Safe(raw[w].job, raw[w].attempts + 1)

(* A worker holds at most the one job it is working on, and none of its own *)
(* while it reaps, promotes or waits.                                       *)
OneJobPerWorker ==
  \A w \in Worker :
    /\ Len(processing[w]) <= 1
    /\ processing[w] # <<>> => pc[w] \in Unconcluded \cup Concluded \cup Leaving \cup {"dead"}
    /\ processing[w] # <<>> /\ pc[w] # "dead" => Head(processing[w]) = raw[w]

(* While no worker died and no job was taken from a live one, every job has *)
(* one live copy: no two workers ever run it, and no retry waits beside     *)
(* another delivery or behind its own burial.                               *)
Undisturbed == \A k \in {"crash", "unwind", "theft"} : faults[k] = 0
LiveCopies(j) ==
  LET at == {i \in DOMAIN queue : queue[i].job = j}
      waiting == {e \in delayed \cup dead : e.job = j}
      with == {w \in Worker : /\ pc[w] \in Unconcluded \cup {"repush", "finish"}
                              /\ raw[w].job = j}
  IN Cardinality(at) + Cardinality(waiting) + Cardinality(with)
OneLiveCopy == Undisturbed => \A j \in Job : LiveCopies(j) <= 1

(* A job skipped as superseded leaves a newer job of its ward that has run, *)
(* was buried, or is still to be delivered -- or whose push was refused or  *)
(* whose copy was dropped, the two ways a queued row has no job behind it.  *)
Covers(k) ==
  k \in ran \cup Buried \/ Pending(k, 0) \/ stage[k] = "inserted"
SkipsAreCovered ==
  \A j \in skipped : \E k \in Job :
    Supersedes(k, j) /\ (Covers(k) \/ k \in dropped \/ stage[k] = "refused")

-----------------------------------------------------------------------------
(* The abstract queue: the messages are the copies, whatever their error.   *)
Mailbox == INSTANCE Delivery WITH
  accepted <- {j \in Job : stage[j] = "pushed"},
  box <- {<<e.job, e.attempts>> : e \in Copies},
  settled <- ran \cup skipped \cup rejected \cup Buried,
  lost <- dropped

(* All the lists, locks and workers together do no more than the mailbox of *)
(* Delivery: a message leaves them only when its job is settled or a later  *)
(* attempt of it waits, and is lost only in the two windows of dropped.     *)
DeliverySpec == Mailbox!Spec

-----------------------------------------------------------------------------
(* Liveness.  The processes that are up go on, SCAN visits a list that stays *)
(* orphaned, every back-off elapses, keys of dead workers expire.            *)

Fairness ==
  /\ \A j \in Job : WF_vars(Age(j))
  /\ \A w \in Worker :
       /\ WF_vars(Start(w)) /\ WF_vars(Heartbeat(w)) /\ WF_vars(Expire(w))
       /\ WF_vars(Work(w))
       /\ SF_vars(ReapDue(w))
       /\ SF_vars(\E v \in Worker : FindOrphans(w, v))
       /\ SF_vars(\E e \in delayed : TakeDelayed(w, e))

FairSpec == Spec /\ Fairness

(* Every job that was pushed is eventually settled, although workers die. *)
EveryJobSettles == \A j \in Job : stage[j] = "pushed" ~> Settled(j)

(* No row says running forever: the worker, or the sweep, ends it. *)
NoRowRunsForever == \A j \in Job : status[j] = "running" ~> status[j] # "running"
=============================================================================
