-------------------------- MODULE SourceLife_proofs --------------------------
(* Proofs about SourceLife, for every set of kinds, any number of workers, *)
(* attempts, requests, failures and crashes.                               *)
EXTENDS SourceLife, SequenceTheorems, TLAPS

-----------------------------------------------------------------------------
(* The invariants. *)

(* A worker holds a job from Take to the end of the handler, and a handler *)
(* is at steps of its own only.                                            *)
Holding ==
  \A w \in Worker :
    /\ pc[w] # "idle" => job[w] \in Job
    /\ pc[w] \in Normalizing => job[w].type = "NORMALIZE_SOURCE"
    /\ pc[w] \in Georeferencing => job[w].type = "GEOREFERENCE"
    /\ pc[w] \in {"read", "digitized", "chain mapping"} => job[w].type = "DIGITIZE_SOURCE"
    /\ pc[w] \in Extracting \cup {"run"} => job[w].type = "EXTRACT_FEATURES"

Typing == TypeOK /\ Holding

(* What a job may rely on. *)
Possible(j) ==
  /\ j.type = "GEOREFERENCE" => preview \/ blind
  /\ j.type # "EXTRACT_FEATURES" => j.run = 0
  /\ j.type = "EXTRACT_FEATURES" => j.run \in DOMAIN runs

Jobs == \A j \in jobs : Possible(j)

Hands ==
  \A w \in Worker :
    /\ pc[w] # "idle" => Possible(job[w])
    /\ pc[w] = "chain extract" => mine[w] \in DOMAIN runs

Halves ==
  \A r \in halfway :
    /\ r.request = "apply" => preview \/ blind
    /\ r.request = "extract" => r.run \in DOMAIN runs

Handed == Jobs /\ Hands /\ Halves

(* A file is inserted only when it is located, and parked with a preview. *)
Placed ==
  /\ \A w \in Worker : pc[w] \in {"insert", "publish"} => located
  /\ \A w \in Worker : pc[w] = "park" => preview

(* A step or a job that will still queue the successor d. *)
Queues(w, d) ==
  \/ pc[w] = "fetch" /\ job[w].type = "NORMALIZE_SOURCE"
  \/ pc[w] \in {"insert", "publish"}
  \/ d = "topology" /\ pc[w] = "chain topology"
  \/ d = "match" /\ pc[w] \in {"chain topology", "chain match"}
  \/ d = "extract" /\ pc[w] \in {"chain run", "chain extract"}

Ahead(d) ==
  \/ \E j \in jobs : j.type = "NORMALIZE_SOURCE"
  \/ \E w \in Worker : Queues(w, d)

Chained ==
  /\ due \subseteq Successors
  /\ status = "ready" /\ readied = "normalize" /\ 0 \notin stranded => \A d \in due : Ahead(d)

(* Of each run there is one job, or the promise of one. *)
Carries(j, n) == j.type = "EXTRACT_FEATURES" /\ j.run = n
Runs(w, n) == pc[w] # "idle" /\ Carries(job[w], n)
Chains(w, n) == pc[w] = "chain extract" /\ mine[w] = n
Holds(w, n) == Runs(w, n) \/ Chains(w, n)
Promised(n) == Half("extract", n) \in halfway

OneJob(n) ==
  /\ \A j, k \in jobs : Carries(j, n) /\ Carries(k, n) => j = k
  /\ \A v, w \in Worker : Holds(v, n) /\ Holds(w, n) => v = w
  /\ \A j \in jobs, w \in Worker : ~ (Carries(j, n) /\ Holds(w, n))
  /\ \A j \in jobs : ~ (Carries(j, n) /\ Promised(n))
  /\ \A w \in Worker : ~ (Holds(w, n) /\ Promised(n))

OneJobPerRun == \A n \in Nat : OneJob(n)

(* What a handler has derived so far, and what its run says of it. *)
Late == {"fill", "conclude", "derived topology", "derived match"}

DerivingAt(w) ==
  /\ pc[w] \in Late => mine[w] \in DOMAIN derived
  /\ pc[w] \in Late \ {"fill"} => derived[mine[w]].filled
  /\ pc[w] \in {"derived topology", "derived match"} => runs[job[w].run].result = mine[w]
  /\ pc[w] = "derived match" => "topology" \notin derived[mine[w]].due

Deriving == \A w \in Worker : DerivingAt(w)

(* A run that is done has what it needs, or a job that will see to it. *)
Attended(n) ==
  \/ \E j \in jobs : Carries(j, n)
  \/ \E w \in Worker : Runs(w, n) /\ pc[w] # "return"

Concluded ==
  \A n \in DOMAIN runs : runs[n].status = "done" =>
    /\ runs[n].result \in DOMAIN derived
    /\ derived[runs[n].result].filled
    /\ derived[runs[n].result].due = {} \/ n \in stranded \/ Attended(n)

IInv == Typing /\ Handed /\ Placed /\ Chained /\ OneJobPerRun /\ Deriving /\ Concluded /\ SheetsAreLocated

USE SourceLifeAssumption DEF SourceLifeAssumption, vars, source, row, extraction, queued, hands, local, bounds, outside

-----------------------------------------------------------------------------
(* Types. *)

LEMMA Element ==
  ASSUME NEW S, NEW s \in Seq(S), NEW i \in DOMAIN s
  PROVE  i \in 1 .. Len(s) /\ s[i] \in S
<1>1. i \in 1 .. Len(s)
  OBVIOUS
<1> QED BY <1>1, ElementOfSeq

(* Another element in the place of one, if there is that place. *)
LEMMA Replaced ==
  ASSUME NEW S, NEW s \in Seq(S), NEW i, NEW e, i \in DOMAIN s => e \in S
  PROVE  [s EXCEPT ![i] = e] \in Seq(S)
<1>1. CASE i \in DOMAIN s
  <2>1. i \in 1 .. Len(s) /\ e \in S
    BY <1>1
  <2> QED BY <2>1, ExceptSeq
<1>2. CASE i \notin DOMAIN s
  <2>1. [s EXCEPT ![i] = e] = s
    BY <1>2
  <2> QED BY <2>1
<1> QED BY <1>1, <1>2

(* A job of any type is queued. *)
LEMMA EnqueueType ==
  ASSUME Typing, NEW type \in JobType, NEW file \in File, NEW run \in Nat, Enqueue(type, file, run)
  PROVE  made' \in Nat /\ jobs' \in SUBSET Job
BY DEF Enqueue, Typing, TypeOK, QueueOK, Job

LEMMA AskType ==
  ASSUME Typing, Ask
  PROVE  requests' \in Nat /\ failures' \in Nat /\ crashes' \in Nat
BY DEF Ask, Typing, TypeOK, BoundsOK

LEMMA HalfType ==
  ASSUME NEW q \in {"apply", "digitize", "extract"}, NEW n \in Nat
  PROVE  Half(q, n) \in [request : {"apply", "digitize", "extract"}, run : Nat]
BY DEF Half

(* The job of a worker has a run, and so has what is done again. *)
LEMMA HeldType ==
  ASSUME Typing, NEW w \in Worker, pc[w] # "idle"
  PROVE  /\ job[w] \in Job
         /\ job[w].run \in Nat
         /\ Retry(w) \subseteq Job
<1>1. job[w] \in Job
  BY DEF Typing, Holding
<1>2. ASSUME job[w].attempts + 1 < MaxAttempts
      PROVE  [job[w] EXCEPT !.attempts = @ + 1] \in Job
  BY <1>1, <1>2 DEF Job
<1> QED BY <1>1, <1>2 DEF Job, Retry

LEMMA LengthType ==
  ASSUME Typing
  PROVE  /\ Len(runs) + 1 \in Nat /\ DOMAIN runs \subseteq Nat
         /\ Len(derived) + 1 \in Nat /\ DOMAIN derived \subseteq Nat
BY DEF Typing, TypeOK, ExtractionOK

(* What becomes of a run and of a derived source. *)
LEMMA RunType ==
  ASSUME Typing, NEW n, NEW s \in {"queued", "running", "done", "failed"}, NEW m \in Nat
  PROVE  /\ [runs EXCEPT ![n].status = s] \in Seq([status : {"queued", "running", "done", "failed"}, result : Nat])
         /\ [runs EXCEPT ![n] = [status |-> s, result |-> m]]
               \in Seq([status : {"queued", "running", "done", "failed"}, result : Nat])
<1>1. runs \in Seq([status : {"queued", "running", "done", "failed"}, result : Nat])
  BY DEF Typing, TypeOK, ExtractionOK
<1>2. n \in DOMAIN runs => runs[n] \in [status : {"queued", "running", "done", "failed"}, result : Nat]
  BY <1>1, Element
<1>3. n \in DOMAIN runs =>
        [runs[n] EXCEPT !.status = s] \in [status : {"queued", "running", "done", "failed"}, result : Nat]
  BY <1>2
<1> QED BY <1>1, <1>3, Replaced

LEMMA DerivedType ==
  ASSUME Typing, NEW n
  PROVE  /\ [derived EXCEPT ![n].filled = TRUE] \in Seq([filled : BOOLEAN, due : SUBSET {"topology", "match"}])
         /\ \A d : [derived EXCEPT ![n].due = @ \ {d}]
                     \in Seq([filled : BOOLEAN, due : SUBSET {"topology", "match"}])
<1>1. derived \in Seq([filled : BOOLEAN, due : SUBSET {"topology", "match"}])
  BY DEF Typing, TypeOK, ExtractionOK
<1>2. n \in DOMAIN derived => derived[n] \in [filled : BOOLEAN, due : SUBSET {"topology", "match"}]
  BY <1>1, Element
<1>3. n \in DOMAIN derived =>
        /\ [derived[n] EXCEPT !.filled = TRUE] \in [filled : BOOLEAN, due : SUBSET {"topology", "match"}]
        /\ \A d : [derived[n] EXCEPT !.due = @ \ {d}] \in [filled : BOOLEAN, due : SUBSET {"topology", "match"}]
  BY <1>2
<1> QED BY <1>1, <1>3, Replaced

(* An exception, whether the file is unreadable or not. *)
LEMMA Failing ==
  ASSUME NEW w, Raise(w) \/ Unreadable(w)
  PROVE  /\ Fails(w)
         /\ pc[w] \notin {"idle", "return"}
         /\ failures \in Nat => failures' \in Nat
BY DEF Raise, Unreadable

(* Every step keeps the types. *)
LEMMA TypingStep ==
  ASSUME Typing, [Next]_vars
  PROVE  Typing'
<1>1. CASE Register
  <2>1. SourceOK'
    BY <1>1 DEF Register, TypeOK, Typing, SourceOK, Status, File
  <2>2. ExtractionOK' /\ QueueOK' /\ HandsOK' /\ BoundsOK' /\ Holding'
    BY <1>1 DEF Register, TypeOK, Typing, ExtractionOK, QueueOK, HandsOK, BoundsOK, Holding
  <2> QED BY <2>1, <2>2 DEF Typing, TypeOK
<1>2. CASE Complete
  <2>1. SourceOK'
    BY <1>2 DEF Complete, Enqueue, TypeOK, Typing, SourceOK, Status, File
  <2>2. QueueOK'
    BY EnqueueType, HalfType, <1>2 DEF Complete, TypeOK, Typing, QueueOK, JobType, File,
       SourceOK, HandsOK
  <2>3. BoundsOK'
    BY AskType, <1>2 DEF Complete, TypeOK, Typing, BoundsOK
  <2>4. ExtractionOK' /\ HandsOK' /\ Holding'
    BY <1>2 DEF Complete, Ask, Enqueue, TypeOK, Typing, ExtractionOK, HandsOK, Holding
  <2> QED BY <2>1, <2>2, <2>3, <2>4 DEF Typing, TypeOK
<1>3. CASE Apply
  <2>1. SourceOK'
    BY <1>3 DEF Apply, TypeOK, Typing, SourceOK, Status, File
  <2>2. QueueOK'
    <3>1. Half("apply", 0) \in [request : {"apply", "digitize", "extract"}, run : Nat]
      BY HalfType
    <3> QED BY <3>1, <1>3 DEF Apply, Typing, TypeOK, QueueOK
  <2>3. BoundsOK'
    BY AskType, <1>3 DEF Apply, TypeOK, Typing, BoundsOK
  <2>4. ExtractionOK' /\ HandsOK' /\ Holding'
    BY <1>3 DEF Apply, Ask, TypeOK, Typing, ExtractionOK, HandsOK, Holding
  <2> QED BY <2>1, <2>2, <2>3, <2>4 DEF Typing, TypeOK
<1>4. CASE ApplyEnqueue
  <2>1. QueueOK'
    BY EnqueueType, HalfType, <1>4 DEF ApplyEnqueue, TypeOK, Typing, QueueOK, JobType, File,
       SourceOK, HandsOK
  <2>2. SourceOK' /\ ExtractionOK' /\ HandsOK' /\ BoundsOK' /\ Holding'
    BY <1>4 DEF ApplyEnqueue, Enqueue, TypeOK, Typing, SourceOK, ExtractionOK, HandsOK, BoundsOK,
       Holding
  <2> QED BY <2>1, <2>2 DEF Typing, TypeOK
<1>5. CASE Digitize
  <2>1. QueueOK'
    <3>1. halfway' \in SUBSET [request : {"apply", "digitize", "extract"}, run : Nat]
      BY HalfType, <1>5 DEF Digitize, Typing, TypeOK, QueueOK
    <3>2. made' \in Nat /\ jobs' \in SUBSET Job
      BY EnqueueType, <1>5 DEF Digitize, JobType, File
    <3> QED BY <3>1, <3>2 DEF QueueOK
  <2>2. BoundsOK'
    BY AskType, <1>5 DEF Digitize, TypeOK, Typing, BoundsOK
  <2>3. SourceOK' /\ ExtractionOK' /\ HandsOK' /\ Holding'
    BY <1>5 DEF Digitize, Ask, Enqueue, TypeOK, Typing, SourceOK, ExtractionOK, HandsOK, Holding
  <2> QED BY <2>1, <2>2, <2>3 DEF Typing, TypeOK
<1>6. CASE DigitizeStatus
  <2>1. SourceOK'
    BY <1>6 DEF DigitizeStatus, TypeOK, Typing, SourceOK, Status, File
  <2>2. QueueOK'
    BY EnqueueType, HalfType, <1>6 DEF DigitizeStatus, TypeOK, Typing, QueueOK
  <2>3. BoundsOK'
    BY <1>6 DEF DigitizeStatus, TypeOK, Typing, BoundsOK
  <2>4. ExtractionOK' /\ HandsOK' /\ Holding'
    BY <1>6 DEF DigitizeStatus, TypeOK, Typing, ExtractionOK, HandsOK, Holding
  <2> QED BY <2>1, <2>2, <2>3, <2>4 DEF Typing, TypeOK
<1>7. CASE Extract
  <2>1. ExtractionOK'
    BY <1>7 DEF Extract, NewRun, TypeOK, Typing, ExtractionOK
  <2>2. QueueOK'
    <3>1. Half("extract", Len(runs) + 1) \in [request : {"apply", "digitize", "extract"}, run : Nat]
      BY LengthType, HalfType
    <3> QED BY <3>1, <1>7 DEF Extract, Typing, TypeOK, QueueOK
  <2>3. BoundsOK'
    BY AskType, <1>7 DEF Extract, NewRun, TypeOK, Typing, BoundsOK
  <2>4. SourceOK' /\ HandsOK' /\ Holding'
    BY <1>7 DEF Extract, Ask, TypeOK, Typing, SourceOK, HandsOK, Holding
  <2> QED BY <2>1, <2>2, <2>3, <2>4 DEF Typing, TypeOK
<1>8. ASSUME NEW n \in DOMAIN runs, ExtractEnqueue(n)
      PROVE  Typing'
  <2>1. QueueOK'
    <3>1. n \in Nat
      BY LengthType
    <3>2. halfway' \in SUBSET [request : {"apply", "digitize", "extract"}, run : Nat]
      BY <1>8 DEF ExtractEnqueue, Typing, TypeOK, QueueOK
    <3>3. made' \in Nat /\ jobs' \in SUBSET Job
      BY <3>1, EnqueueType, <1>8 DEF ExtractEnqueue, JobType, File
    <3> QED BY <3>2, <3>3 DEF QueueOK
  <2>2. SourceOK' /\ ExtractionOK' /\ HandsOK' /\ BoundsOK' /\ Holding'
    BY <1>8 DEF ExtractEnqueue, Enqueue, TypeOK, Typing, SourceOK, ExtractionOK, HandsOK,
       BoundsOK, Holding
  <2> QED BY <2>1, <2>2 DEF Typing, TypeOK
<1>9. ASSUME NEW r \in halfway, Abandon(r)
      PROVE  Typing'
  <2>1. QueueOK'
    BY EnqueueType, HalfType, <1>9 DEF Abandon, TypeOK, Typing, QueueOK
  <2>2. BoundsOK'
    <3>1. r.run \in Nat /\ crashes + 1 \in Nat
      BY DEF Typing, TypeOK, QueueOK, BoundsOK
    <3> QED BY <3>1, <1>9 DEF Abandon, Typing, TypeOK, BoundsOK
  <2>3. SourceOK' /\ ExtractionOK' /\ HandsOK' /\ Holding'
    BY <1>9 DEF Abandon, TypeOK, Typing, SourceOK, ExtractionOK, HandsOK, Holding
  <2> QED BY <2>1, <2>2, <2>3 DEF Typing, TypeOK
<1>10. ASSUME NEW w \in Worker, NEW j \in jobs, Take(w, j)
      PROVE  Typing'
  <2>1. QueueOK'
    BY <1>10 DEF Take, TypeOK, Typing, QueueOK
  <2>2. HandsOK'
    <3>1. j \in Job
      BY DEF Typing, TypeOK, QueueOK
    <3> QED BY <3>1, <1>10 DEF Take, Typing, TypeOK, HandsOK, Uncaught
  <2>3. Holding'
    <3>1. j \in Job /\ pc \in [Worker -> {"idle", "return"} \cup Normalizing \cup Georeferencing \cup Extracting \cup Uncaught]
      BY DEF Typing, TypeOK, QueueOK, HandsOK
    <3>2. job' = [job EXCEPT ![w] = j] /\ job \in [Worker -> Job \cup {NoJob}]
      BY <1>10 DEF Take, Typing, TypeOK, HandsOK
    <3>3. pc' = [pc EXCEPT ![w] = IF j.type = "EXTRACT_FEATURES" THEN "run" ELSE "fetch"]
      BY <1>10 DEF Take
    <3> QED BY <3>1, <3>2, <3>3 DEF Typing, Holding, Normalizing, Georeferencing, Extracting,
       Uncaught
  <2>4. SourceOK' /\ ExtractionOK' /\ BoundsOK'
    BY <1>10 DEF Take, TypeOK, Typing, SourceOK, ExtractionOK, BoundsOK
  <2> QED BY <2>1, <2>2, <2>3, <2>4 DEF Typing, TypeOK
<1>11. ASSUME NEW w \in Worker, Fetch(w)
      PROVE  Typing'
  <2>1. HandsOK'
    <3>1. job[w].type \in JobType
      BY HeldType, <1>11 DEF Fetch, At, Job
    <3> QED BY <3>1, <1>11 DEF Fetch, At, Typing, TypeOK, HandsOK, JobType, Normalizing,
       Georeferencing, Extracting, Uncaught
  <2>2. Holding'
    <3>1. job[w].type \in JobType /\ pc[w] = "fetch"
      BY HeldType, <1>11 DEF Fetch, At, Job
    <3> QED BY <3>1, <1>11 DEF Fetch, At, Typing, TypeOK, HandsOK, Holding, JobType, Normalizing,
       Georeferencing, Extracting, Uncaught
  <2>3. SourceOK' /\ ExtractionOK' /\ QueueOK' /\ BoundsOK'
    BY <1>11 DEF Fetch, At, TypeOK, Typing, SourceOK, ExtractionOK, QueueOK, BoundsOK
  <2> QED BY <2>1, <2>2, <2>3 DEF Typing, TypeOK
<1>12. ASSUME NEW w \in Worker, Insert(w)
      PROVE  Typing'
  <2>1. ExtractionOK'
    BY <1>12 DEF Insert, At, Successors, TypeOK, Typing, ExtractionOK
  <2>2. HandsOK'
    BY <1>12 DEF Insert, At, Successors, TypeOK, Typing, HandsOK, Normalizing, Georeferencing,
       Extracting, Uncaught
  <2>3. Holding'
    BY <1>12 DEF Insert, At, Successors, TypeOK, Typing, Holding, HandsOK, Normalizing,
       Georeferencing, Extracting, Uncaught
  <2>4. SourceOK' /\ QueueOK' /\ BoundsOK'
    BY <1>12 DEF Insert, At, TypeOK, Typing, SourceOK, QueueOK, BoundsOK
  <2> QED BY <2>1, <2>2, <2>3, <2>4 DEF Typing, TypeOK
<1>13. ASSUME NEW w \in Worker, Publish(w)
      PROVE  Typing'
  <2>1. SourceOK'
    BY <1>13 DEF Publish, FirstLink, At, TypeOK, Typing, SourceOK, Status, File
  <2>2. HandsOK'
    BY <1>13 DEF Publish, FirstLink, At, TypeOK, Typing, HandsOK, Normalizing, Georeferencing, Extracting,
       Uncaught
  <2>3. Holding'
    BY <1>13 DEF Publish, FirstLink, At, TypeOK, Typing, Holding, HandsOK, Normalizing, Georeferencing,
       Extracting, Uncaught
  <2>4. ExtractionOK' /\ QueueOK' /\ BoundsOK'
    BY <1>13 DEF Publish, FirstLink, At, TypeOK, Typing, ExtractionOK, QueueOK, BoundsOK
  <2> QED BY <2>1, <2>2, <2>3, <2>4 DEF Typing, TypeOK
<1>14. ASSUME NEW w \in Worker, ChainTopology(w)
      PROVE  Typing'
  <2>1. ExtractionOK'
    BY <1>14 DEF ChainTopology, At, TypeOK, Typing, ExtractionOK
  <2>2. HandsOK'
    BY <1>14 DEF ChainTopology, At, TypeOK, Typing, HandsOK, Normalizing, Georeferencing,
       Extracting, Uncaught
  <2>3. Holding'
    BY <1>14 DEF ChainTopology, At, TypeOK, Typing, Holding, HandsOK, Normalizing,
       Georeferencing, Extracting, Uncaught
  <2>4. SourceOK' /\ QueueOK' /\ BoundsOK'
    BY <1>14 DEF ChainTopology, At, TypeOK, Typing, SourceOK, QueueOK, BoundsOK
  <2> QED BY <2>1, <2>2, <2>3, <2>4 DEF Typing, TypeOK
<1>15. ASSUME NEW w \in Worker, ChainMatch(w)
      PROVE  Typing'
  <2>1. ExtractionOK'
    BY <1>15 DEF ChainMatch, At, TypeOK, Typing, ExtractionOK
  <2>2. HandsOK'
    BY <1>15 DEF ChainMatch, At, TypeOK, Typing, HandsOK, Normalizing, Georeferencing,
       Extracting, Uncaught
  <2>3. Holding'
    BY <1>15 DEF ChainMatch, At, TypeOK, Typing, Holding, HandsOK, Normalizing, Georeferencing,
       Extracting, Uncaught
  <2>4. SourceOK' /\ QueueOK' /\ BoundsOK'
    BY <1>15 DEF ChainMatch, At, TypeOK, Typing, SourceOK, QueueOK, BoundsOK
  <2> QED BY <2>1, <2>2, <2>3, <2>4 DEF Typing, TypeOK
<1>16. ASSUME NEW w \in Worker, ChainRun(w)
      PROVE  Typing'
  <2>1. ExtractionOK'
    BY AppendProperties, <1>16 DEF ChainRun, NewRun, Typing, TypeOK, ExtractionOK
  <2>2. HandsOK'
    BY LengthType, <1>16 DEF ChainRun, At, Typing, TypeOK, HandsOK, Normalizing
  <2>3. Holding'
    BY <1>16 DEF ChainRun, At, NewRun, TypeOK, Typing, Holding, HandsOK, Normalizing,
       Georeferencing, Extracting, Uncaught
  <2>4. SourceOK' /\ QueueOK' /\ BoundsOK'
    BY <1>16 DEF ChainRun, At, TypeOK, Typing, SourceOK, QueueOK, BoundsOK
  <2> QED BY <2>1, <2>2, <2>3, <2>4 DEF Typing, TypeOK
<1>17. ASSUME NEW w \in Worker, ChainExtract(w)
      PROVE  Typing'
  <2>1. ExtractionOK'
    BY <1>17 DEF ChainExtract, At, Enqueue, TypeOK, Typing, ExtractionOK
  <2>2. QueueOK'
    BY EnqueueType, HalfType, <1>17 DEF ChainExtract, At, TypeOK, Typing, QueueOK, JobType, File,
       SourceOK, HandsOK
  <2>3. HandsOK'
    BY <1>17 DEF ChainExtract, At, TypeOK, Typing, HandsOK, Normalizing, Georeferencing,
       Extracting, Uncaught
  <2>4. Holding'
    BY <1>17 DEF ChainExtract, At, TypeOK, Typing, Holding, HandsOK, Normalizing, Georeferencing,
       Extracting, Uncaught
  <2>5. SourceOK' /\ BoundsOK'
    BY <1>17 DEF ChainExtract, At, Enqueue, TypeOK, Typing, SourceOK, BoundsOK
  <2> QED BY <2>1, <2>2, <2>3, <2>4, <2>5 DEF Typing, TypeOK
<1>18. ASSUME NEW w \in Worker, Preview(w)
      PROVE  Typing'
  <2>1. SourceOK'
    BY <1>18 DEF Preview, At, TypeOK, Typing, SourceOK, Status, File
  <2>2. HandsOK'
    BY <1>18 DEF Preview, At, TypeOK, Typing, HandsOK, Normalizing, Georeferencing, Extracting,
       Uncaught
  <2>3. Holding'
    BY <1>18 DEF Preview, At, TypeOK, Typing, Holding, HandsOK, Normalizing, Georeferencing,
       Extracting, Uncaught
  <2>4. ExtractionOK' /\ QueueOK' /\ BoundsOK'
    BY <1>18 DEF Preview, At, TypeOK, Typing, ExtractionOK, QueueOK, BoundsOK
  <2> QED BY <2>1, <2>2, <2>3, <2>4 DEF Typing, TypeOK
<1>19. ASSUME NEW w \in Worker, Park(w)
      PROVE  Typing'
  <2>1. SourceOK'
    BY <1>19 DEF Park, At, TypeOK, Typing, SourceOK, Status, File
  <2>2. HandsOK'
    BY <1>19 DEF Park, At, TypeOK, Typing, HandsOK, Normalizing, Georeferencing, Extracting,
       Uncaught
  <2>3. Holding'
    BY <1>19 DEF Park, At, TypeOK, Typing, Holding, HandsOK, Normalizing, Georeferencing,
       Extracting, Uncaught
  <2>4. ExtractionOK' /\ QueueOK' /\ BoundsOK'
    BY <1>19 DEF Park, At, TypeOK, Typing, ExtractionOK, QueueOK, BoundsOK
  <2> QED BY <2>1, <2>2, <2>3, <2>4 DEF Typing, TypeOK
<1>20. ASSUME NEW w \in Worker, Warp(w)
      PROVE  Typing'
  <2>1. HandsOK'
    BY <1>20 DEF Warp, At, TypeOK, Typing, HandsOK, Normalizing, Georeferencing, Extracting,
       Uncaught
  <2>2. Holding'
    BY <1>20 DEF Warp, At, TypeOK, Typing, Holding, HandsOK, Normalizing, Georeferencing,
       Extracting, Uncaught
  <2>3. SourceOK' /\ ExtractionOK' /\ QueueOK' /\ BoundsOK'
    BY <1>20 DEF Warp, At, TypeOK, Typing, SourceOK, ExtractionOK, QueueOK, BoundsOK
  <2> QED BY <2>1, <2>2, <2>3 DEF Typing, TypeOK
<1>21. ASSUME NEW w \in Worker, Locate(w)
      PROVE  Typing'
  <2>1. SourceOK'
    BY <1>21 DEF Locate, At, TypeOK, Typing, SourceOK, Status, File
  <2>2. HandsOK'
    BY <1>21 DEF Locate, At, TypeOK, Typing, HandsOK, Normalizing, Georeferencing, Extracting,
       Uncaught
  <2>3. Holding'
    BY <1>21 DEF Locate, At, TypeOK, Typing, Holding, HandsOK, Normalizing, Georeferencing,
       Extracting, Uncaught
  <2>4. ExtractionOK' /\ QueueOK' /\ BoundsOK'
    BY <1>21 DEF Locate, At, TypeOK, Typing, ExtractionOK, QueueOK, BoundsOK
  <2> QED BY <2>1, <2>2, <2>3, <2>4 DEF Typing, TypeOK
<1>22. ASSUME NEW w \in Worker, ChainNormalize(w)
      PROVE  Typing'
  <2>1. QueueOK'
    BY EnqueueType, HalfType, <1>22 DEF ChainNormalize, At, TypeOK, Typing, QueueOK, JobType,
       File, SourceOK, HandsOK
  <2>2. HandsOK'
    BY <1>22 DEF ChainNormalize, At, TypeOK, Typing, HandsOK, Normalizing, Georeferencing,
       Extracting, Uncaught
  <2>3. Holding'
    BY <1>22 DEF ChainNormalize, At, TypeOK, Typing, Holding, HandsOK, Normalizing,
       Georeferencing, Extracting, Uncaught
  <2>4. SourceOK' /\ ExtractionOK' /\ BoundsOK'
    BY <1>22 DEF ChainNormalize, At, Enqueue, TypeOK, Typing, SourceOK, ExtractionOK, BoundsOK
  <2> QED BY <2>1, <2>2, <2>3, <2>4 DEF Typing, TypeOK
<1>23. ASSUME NEW w \in Worker, ReadFields(w)
      PROVE  Typing'
  <2>1. HandsOK'
    BY <1>23 DEF ReadFields, At, TypeOK, Typing, HandsOK, Normalizing, Georeferencing,
       Extracting, Uncaught
  <2>2. Holding'
    BY <1>23 DEF ReadFields, At, TypeOK, Typing, Holding, HandsOK, Normalizing, Georeferencing,
       Extracting, Uncaught
  <2>3. SourceOK' /\ ExtractionOK' /\ QueueOK' /\ BoundsOK'
    BY <1>23 DEF ReadFields, At, TypeOK, Typing, SourceOK, ExtractionOK, QueueOK, BoundsOK
  <2> QED BY <2>1, <2>2, <2>3 DEF Typing, TypeOK
<1>24. ASSUME NEW w \in Worker, Digitized(w)
      PROVE  Typing'
  <2>1. SourceOK'
    BY <1>24 DEF Digitized, At, TypeOK, Typing, SourceOK, Status, File
  <2>2. HandsOK'
    BY <1>24 DEF Digitized, At, TypeOK, Typing, HandsOK, Normalizing, Georeferencing, Extracting,
       Uncaught
  <2>3. Holding'
    BY <1>24 DEF Digitized, At, TypeOK, Typing, Holding, HandsOK, Normalizing, Georeferencing,
       Extracting, Uncaught
  <2>4. ExtractionOK' /\ QueueOK' /\ BoundsOK'
    BY <1>24 DEF Digitized, At, TypeOK, Typing, ExtractionOK, QueueOK, BoundsOK
  <2> QED BY <2>1, <2>2, <2>3, <2>4 DEF Typing, TypeOK
<1>25. ASSUME NEW w \in Worker, ChainMapping(w)
      PROVE  Typing'
  <2>1. HandsOK'
    BY <1>25 DEF ChainMapping, At, TypeOK, Typing, HandsOK, Normalizing, Georeferencing,
       Extracting, Uncaught
  <2>2. Holding'
    BY <1>25 DEF ChainMapping, At, TypeOK, Typing, Holding, HandsOK, Normalizing, Georeferencing,
       Extracting, Uncaught
  <2>3. SourceOK' /\ ExtractionOK' /\ QueueOK' /\ BoundsOK'
    BY <1>25 DEF ChainMapping, At, TypeOK, Typing, SourceOK, ExtractionOK, QueueOK, BoundsOK
  <2> QED BY <2>1, <2>2, <2>3 DEF Typing, TypeOK
<1>26. ASSUME NEW w \in Worker, BeginRun(w)
      PROVE  Typing'
  <2>1. ExtractionOK'
    BY RunType, <1>26 DEF BeginRun, Typing, TypeOK, ExtractionOK
  <2>2. HandsOK'
    BY <1>26 DEF BeginRun, At, TypeOK, Typing, HandsOK, Normalizing, Georeferencing, Extracting,
       Uncaught
  <2>3. Holding'
    BY <1>26 DEF BeginRun, At, TypeOK, Typing, Holding, HandsOK, Normalizing, Georeferencing,
       Extracting, Uncaught
  <2>4. SourceOK' /\ QueueOK' /\ BoundsOK'
    BY <1>26 DEF BeginRun, At, TypeOK, Typing, SourceOK, QueueOK, BoundsOK
  <2> QED BY <2>1, <2>2, <2>3, <2>4 DEF Typing, TypeOK
<1>27. ASSUME NEW w \in Worker, Derive(w)
      PROVE  Typing'
  <2>1. ExtractionOK'
    BY <1>27 DEF Derive, At, TypeOK, Typing, ExtractionOK
  <2>2. HandsOK'
    BY LengthType, <1>27 DEF Derive, At, Typing, TypeOK, HandsOK, Extracting
  <2>3. Holding'
    BY <1>27 DEF Derive, At, TypeOK, Typing, Holding, HandsOK, Normalizing, Georeferencing,
       Extracting, Uncaught
  <2>4. SourceOK' /\ QueueOK' /\ BoundsOK'
    BY <1>27 DEF Derive, At, TypeOK, Typing, SourceOK, QueueOK, BoundsOK
  <2> QED BY <2>1, <2>2, <2>3, <2>4 DEF Typing, TypeOK
<1>28. ASSUME NEW w \in Worker, Fill(w)
      PROVE  Typing'
  <2>1. ExtractionOK'
    BY DerivedType, <1>28 DEF Fill, Typing, TypeOK, ExtractionOK
  <2>2. HandsOK'
    BY <1>28 DEF Fill, At, TypeOK, Typing, HandsOK, Normalizing, Georeferencing, Extracting,
       Uncaught
  <2>3. Holding'
    BY <1>28 DEF Fill, At, TypeOK, Typing, Holding, HandsOK, Normalizing, Georeferencing,
       Extracting, Uncaught
  <2>4. SourceOK' /\ QueueOK' /\ BoundsOK'
    BY <1>28 DEF Fill, At, TypeOK, Typing, SourceOK, QueueOK, BoundsOK
  <2> QED BY <2>1, <2>2, <2>3, <2>4 DEF Typing, TypeOK
<1>29. ASSUME NEW w \in Worker, Conclude(w)
      PROVE  Typing'
  <2>1. ExtractionOK'
    <3>1. mine[w] \in Nat
      BY DEF Typing, TypeOK, HandsOK
    <3> QED BY <3>1, RunType, <1>29 DEF Conclude, Typing, TypeOK, ExtractionOK
  <2>2. HandsOK'
    BY <1>29 DEF Conclude, At, TypeOK, Typing, HandsOK, Normalizing, Georeferencing, Extracting,
       Uncaught
  <2>3. Holding'
    BY <1>29 DEF Conclude, At, TypeOK, Typing, Holding, HandsOK, Normalizing, Georeferencing,
       Extracting, Uncaught
  <2>4. SourceOK' /\ QueueOK' /\ BoundsOK'
    BY <1>29 DEF Conclude, At, TypeOK, Typing, SourceOK, QueueOK, BoundsOK
  <2> QED BY <2>1, <2>2, <2>3, <2>4 DEF Typing, TypeOK
<1>30. ASSUME NEW w \in Worker, DerivedTopology(w)
      PROVE  Typing'
  <2>1. ExtractionOK'
    BY DerivedType, <1>30 DEF DerivedTopology, Typing, TypeOK, ExtractionOK
  <2>2. HandsOK'
    BY <1>30 DEF DerivedTopology, At, TypeOK, Typing, HandsOK, Normalizing, Georeferencing,
       Extracting, Uncaught
  <2>3. Holding'
    BY <1>30 DEF DerivedTopology, At, TypeOK, Typing, Holding, HandsOK, Normalizing,
       Georeferencing, Extracting, Uncaught
  <2>4. SourceOK' /\ QueueOK' /\ BoundsOK'
    BY <1>30 DEF DerivedTopology, At, TypeOK, Typing, SourceOK, QueueOK, BoundsOK
  <2> QED BY <2>1, <2>2, <2>3, <2>4 DEF Typing, TypeOK
<1>31. ASSUME NEW w \in Worker, DerivedMatch(w)
      PROVE  Typing'
  <2>1. ExtractionOK'
    BY DerivedType, <1>31 DEF DerivedMatch, Typing, TypeOK, ExtractionOK
  <2>2. HandsOK'
    BY <1>31 DEF DerivedMatch, At, TypeOK, Typing, HandsOK, Normalizing, Georeferencing,
       Extracting, Uncaught
  <2>3. Holding'
    BY <1>31 DEF DerivedMatch, At, TypeOK, Typing, Holding, HandsOK, Normalizing, Georeferencing,
       Extracting, Uncaught
  <2>4. SourceOK' /\ QueueOK' /\ BoundsOK'
    BY <1>31 DEF DerivedMatch, At, TypeOK, Typing, SourceOK, QueueOK, BoundsOK
  <2> QED BY <2>1, <2>2, <2>3, <2>4 DEF Typing, TypeOK
<1>32. ASSUME NEW w \in Worker, Return(w)
      PROVE  Typing'
  <2>1. HandsOK'
    BY <1>32 DEF Return, LetGo, TypeOK, Typing, HandsOK, Normalizing, Georeferencing, Extracting,
       Uncaught
  <2>2. Holding'
    BY <1>32 DEF Return, LetGo, TypeOK, Typing, Holding, HandsOK, Normalizing, Georeferencing,
       Extracting, Uncaught
  <2>3. SourceOK' /\ ExtractionOK' /\ QueueOK' /\ BoundsOK'
    BY <1>32 DEF Return, TypeOK, Typing, SourceOK, ExtractionOK, QueueOK, BoundsOK
  <2> QED BY <2>1, <2>2, <2>3 DEF Typing, TypeOK
<1>33. ASSUME NEW w \in Worker, Raise(w) \/ Unreadable(w)
      PROVE  Typing'
  <2>0. Fails(w) /\ pc[w] \notin {"idle", "return"} /\ (failures \in Nat => failures' \in Nat)
    BY Failing, <1>33
  <2>1. SourceOK'
    BY <2>0 DEF Fails, LetGo, Retry, LeftBehind, Unrecorded, TypeOK, Typing, SourceOK, Status,
       File
  <2>2. ExtractionOK'
    BY RunType, <2>0 DEF Fails, Typing, TypeOK, ExtractionOK
  <2>3. QueueOK'
    BY HeldType, <2>0 DEF Fails, LetGo, LeftBehind, Unrecorded, TypeOK, Typing, QueueOK
  <2>4. HandsOK'
    BY <2>0 DEF Fails, LetGo, Retry, LeftBehind, Unrecorded, TypeOK, Typing, HandsOK,
       Normalizing, Georeferencing, Extracting, Uncaught
  <2>5. BoundsOK'
    <3>1. LeftBehind(w) \cup Unrecorded(w) \in SUBSET Nat
      BY HeldType, <2>0 DEF Fails, LeftBehind, Unrecorded, Typing, TypeOK, HandsOK
    <3> QED BY <3>1, <2>0 DEF Fails, Typing, TypeOK, BoundsOK
  <2>6. Holding'
    BY <2>0 DEF Fails, LetGo, Retry, LeftBehind, Unrecorded, TypeOK, Typing, Holding, HandsOK,
       Normalizing, Georeferencing, Extracting, Uncaught
  <2> QED BY <2>1, <2>2, <2>3, <2>4, <2>5, <2>6 DEF Typing, TypeOK
<1>34. ASSUME NEW w \in Worker, Crash(w)
      PROVE  Typing'
  <2>1. QueueOK'
    BY HeldType, <1>34 DEF Crash, LetGo, LeftBehind, TypeOK, Typing, QueueOK
  <2>2. HandsOK'
    BY <1>34 DEF Crash, LetGo, LeftBehind, TypeOK, Typing, HandsOK, Normalizing, Georeferencing,
       Extracting, Uncaught
  <2>3. BoundsOK'
    <3>1. LeftBehind(w) \in SUBSET Nat
      BY DEF LeftBehind, Typing, TypeOK, HandsOK
    <3>2. crashes + 1 \in Nat
      BY DEF Typing, TypeOK, BoundsOK
    <3> QED BY <3>1, <3>2, <1>34 DEF Crash, Typing, TypeOK, BoundsOK
  <2>4. Holding'
    BY <1>34 DEF Crash, LetGo, LeftBehind, TypeOK, Typing, Holding, HandsOK, Normalizing,
       Georeferencing, Extracting, Uncaught
  <2>5. SourceOK' /\ ExtractionOK'
    BY <1>34 DEF Crash, TypeOK, Typing, SourceOK, ExtractionOK
  <2> QED BY <2>1, <2>2, <2>3, <2>4, <2>5 DEF Typing, TypeOK
<1>35. CASE UNCHANGED vars
  BY <1>35 DEF TypeOK, Typing, SourceOK, ExtractionOK, QueueOK, HandsOK, BoundsOK, Holding
<1> QED
  BY <1>1, <1>2, <1>3, <1>4, <1>5, <1>6, <1>7, <1>8, <1>9, <1>10, <1>11, <1>12, <1>13, <1>14,
     <1>15, <1>16, <1>17, <1>18, <1>19, <1>20, <1>21, <1>22, <1>23, <1>24, <1>25, <1>26,
     <1>27, <1>28, <1>29, <1>30, <1>31, <1>32, <1>33, <1>34, <1>35
  DEF Next, SecondStatement, Work, Normalize, Georeference, DigitizeSource, ExtractFeatures

-----------------------------------------------------------------------------
(* What jobs there are, and what they may rely on. *)

(* A new run does not take the place of another. *)
LEMMA NewRunType ==
  ASSUME Typing
  PROVE  /\ DOMAIN Append(runs, NewRun) = DOMAIN runs \cup {Len(runs) + 1}
         /\ Len(runs) + 1 \notin DOMAIN runs
         /\ \A n \in DOMAIN runs : Append(runs, NewRun)[n] = runs[n]
         /\ Append(runs, NewRun)[Len(runs) + 1] = NewRun
<1>1. runs \in Seq([status : {"queued", "running", "done", "failed"}, result : Nat])
  BY DEF Typing, TypeOK, ExtractionOK
<1> QED BY <1>1

(* What Enqueue adds is what it is told to add. *)
LEMMA Enqueued ==
  ASSUME NEW type, NEW file, NEW run, Enqueue(type, file, run)
  PROVE  /\ jobs \subseteq jobs'
         /\ \A j \in jobs' : j \in jobs \/ (j.type = type /\ j.run = run)
         /\ \E j \in jobs' : j.type = type /\ j.run = run
         /\ \A j, k \in jobs' \ jobs : j = k
<1> DEFINE new == [id |-> made + 1, type |-> type, key |-> file, run |-> run, attempts |-> 0]
<1>1. jobs' = jobs \cup {new}
  BY DEF Enqueue
<1>2. new.type = type /\ new.run = run
  OBVIOUS
<1>3. new \in jobs'
  BY <1>1
<1> HIDE DEF new
<1>4. jobs \subseteq jobs' /\ \A j \in jobs' : j \in jobs \/ j = new
  BY <1>1
<1> QED BY <1>2, <1>3, <1>4

(* The next attempt is made for the same run. *)
LEMMA RetryIsAlike ==
  ASSUME Typing, NEW w \in Worker, pc[w] # "idle", NEW j \in Retry(w)
  PROVE  j.type = job[w].type /\ j.run = job[w].run
<1>1. job[w] \in Job
  BY DEF Typing, Holding
<1> QED BY <1>1 DEF Retry, Job

(* What the jobs rely on stays. *)
LEMMA HandedStep ==
  ASSUME Typing, Handed, [Next]_vars
  PROVE  Handed'
<1>1. CASE Register
  BY <1>1 DEF Register, Typing, TypeOK, HandsOK, Handed, Jobs, Hands, Halves, Possible
<1>2. CASE Complete
  <2>1. Jobs'
    BY <1>2 DEF Complete, Ask, Enqueue, Handed, Jobs, Halves, Possible
  <2>2. Hands'
    BY <1>2 DEF Complete, Ask, Enqueue, Typing, TypeOK, HandsOK, Handed, Hands, Possible
  <2>3. Halves'
    BY <1>2 DEF Complete, Ask, Enqueue, Handed, Halves
  <2> QED BY <2>1, <2>2, <2>3, <1>2 DEF Complete, Handed
<1>3. CASE Apply
  <2>1. Jobs'
    BY <1>3 DEF Apply, Ask, Half, Handed, Jobs, Halves, Possible
  <2>2. Hands'
    BY <1>3 DEF Apply, Ask, Half, Typing, TypeOK, HandsOK, Handed, Hands, Possible
  <2>3. Halves'
    <3>1. preview' \/ blind'
      BY <1>3 DEF Apply
    <3>2. \A r \in halfway' : r \in halfway \/ r.request = "apply"
      BY <1>3 DEF Apply, Half
    <3>3. UNCHANGED runs
      BY <1>3 DEF Apply
    <3> QED BY <3>1, <3>2, <3>3 DEF Handed, Halves
  <2> QED BY <2>1, <2>2, <2>3, <1>3 DEF Apply, Handed
<1>4. CASE ApplyEnqueue
  <2>1. Jobs'
    BY <1>4 DEF ApplyEnqueue, Half, Enqueue, Handed, Jobs, Halves, Possible
  <2>2. Hands'
    BY <1>4 DEF ApplyEnqueue, Half, Enqueue, Typing, TypeOK, HandsOK, Handed, Hands, Possible
  <2>3. Halves'
    BY <1>4 DEF ApplyEnqueue, Half, Enqueue, Handed, Halves
  <2> QED BY <2>1, <2>2, <2>3, <1>4 DEF ApplyEnqueue, Handed
<1>5. CASE Digitize
  <2>1. Jobs'
    BY <1>5 DEF Digitize, Ask, Half, Enqueue, Handed, Jobs, Halves, Possible
  <2>2. Hands'
    BY <1>5 DEF Digitize, Ask, Half, Enqueue, Typing, TypeOK, HandsOK, Handed, Hands, Possible
  <2>3. Halves'
    BY <1>5 DEF Digitize, Ask, Half, Enqueue, Handed, Halves
  <2> QED BY <2>1, <2>2, <2>3, <1>5 DEF Digitize, Handed
<1>6. CASE DigitizeStatus
  BY <1>6 DEF DigitizeStatus, Half, Typing, TypeOK, HandsOK, Handed, Jobs, Hands, Halves, Possible
<1>7. CASE Extract
  <2>1. DOMAIN runs \subseteq DOMAIN runs'
    BY NewRunType, <1>7 DEF Extract
  <2>2. Jobs'
    BY <2>1, <1>7 DEF Extract, Ask, Half, NewRun, Handed, Jobs, Halves, Possible
  <2>3. Hands'
    BY <2>1, <1>7 DEF Extract, Ask, Half, NewRun, Typing, TypeOK, HandsOK, Handed, Hands, Possible
  <2>4. Halves'
    BY <2>1, <1>7 DEF Extract, Ask, Half, NewRun, Handed, Halves
  <2> QED BY <2>2, <2>3, <2>4, <1>7 DEF Extract, Handed
<1>8. ASSUME NEW n \in DOMAIN runs, ExtractEnqueue(n)
      PROVE  Handed'
  <2>1. Jobs'
    BY <1>8 DEF ExtractEnqueue, Half, Enqueue, Handed, Jobs, Halves, Possible
  <2>2. Hands'
    BY <1>8 DEF ExtractEnqueue, Half, Enqueue, Typing, TypeOK, HandsOK, Handed, Hands, Possible
  <2>3. Halves'
    BY <1>8 DEF ExtractEnqueue, Half, Enqueue, Handed, Halves
  <2> QED BY <2>1, <2>2, <2>3, <1>8 DEF ExtractEnqueue, Handed
<1>9. ASSUME NEW r \in halfway, Abandon(r)
      PROVE  Handed'
  BY <1>9 DEF Abandon, Half, Typing, TypeOK, HandsOK, Handed, Jobs, Hands, Halves, Possible
<1>10. ASSUME NEW w \in Worker, NEW j \in jobs, Take(w, j)
      PROVE  Handed'
  BY <1>10 DEF Take, Typing, TypeOK, HandsOK, Handed, Jobs, Hands, Halves, Possible
<1>11. ASSUME NEW w \in Worker, Fetch(w)
      PROVE  Handed'
  <2>1. job[w].type \in JobType
    BY HeldType, <1>11 DEF Fetch, At, Job
  <2>2. Jobs'
    BY <2>1, <1>11 DEF Fetch, Handed, Jobs, Halves, Possible
  <2>3. Hands'
    BY <2>1, <1>11 DEF Fetch, At, Typing, TypeOK, HandsOK, Handed, Hands, Possible, JobType
  <2>4. Halves'
    BY <2>1, <1>11 DEF Fetch, At, Handed, Halves
  <2> QED BY <2>2, <2>3, <2>4, <1>11 DEF Fetch, Handed
<1>12. ASSUME NEW w \in Worker, Insert(w)
      PROVE  Handed'
  BY <1>12 DEF Insert, At, Successors, Typing, TypeOK, HandsOK, Handed, Jobs, Hands, Halves,
     Possible
<1>13. ASSUME NEW w \in Worker, Publish(w)
      PROVE  Handed'
  BY <1>13 DEF Publish, FirstLink, At, Typing, TypeOK, HandsOK, Handed, Jobs, Hands, Halves, Possible
<1>14. ASSUME NEW w \in Worker, ChainTopology(w)
      PROVE  Handed'
  BY <1>14 DEF ChainTopology, At, Typing, TypeOK, HandsOK, Handed, Jobs, Hands, Halves, Possible
<1>15. ASSUME NEW w \in Worker, ChainMatch(w)
      PROVE  Handed'
  BY <1>15 DEF ChainMatch, At, Typing, TypeOK, HandsOK, Handed, Jobs, Hands, Halves, Possible
<1>16. ASSUME NEW w \in Worker, ChainRun(w)
      PROVE  Handed'
  <2>1. DOMAIN runs \subseteq DOMAIN runs' /\ Len(runs) + 1 \in DOMAIN runs'
    BY NewRunType, <1>16 DEF ChainRun
  <2> QED BY <2>1, <1>16 DEF ChainRun, At, Typing, TypeOK, HandsOK, Handed, Jobs, Hands, Halves,
     Possible
<1>17. ASSUME NEW w \in Worker, ChainExtract(w)
      PROVE  Handed'
  <2>1. mine[w] \in DOMAIN runs
    BY <1>17 DEF ChainExtract, At, Handed, Hands
  <2>2. Jobs'
    <3>1. UNCHANGED <<kind, preview, blind, runs>>
      BY <1>17 DEF ChainExtract
    <3>2. \A j \in jobs' : j \in jobs \/ (j.type = "EXTRACT_FEATURES" /\ j.run = mine[w])
      BY Enqueued, <1>17 DEF ChainExtract
    <3> QED BY <2>1, <3>1, <3>2 DEF Handed, Jobs, Possible
  <2>3. Hands'
    BY <2>1, <1>17 DEF ChainExtract, At, Enqueue, Typing, TypeOK, HandsOK, Handed, Hands, Possible
  <2>4. Halves'
    BY <2>1, <1>17 DEF ChainExtract, At, Enqueue, Handed, Halves
  <2> QED BY <2>2, <2>3, <2>4, <1>17 DEF ChainExtract, Handed
<1>18. ASSUME NEW w \in Worker, Preview(w)
      PROVE  Handed'
  BY <1>18 DEF Preview, At, Typing, TypeOK, HandsOK, Handed, Jobs, Hands, Halves, Possible
<1>19. ASSUME NEW w \in Worker, Park(w)
      PROVE  Handed'
  BY <1>19 DEF Park, At, Typing, TypeOK, HandsOK, Handed, Jobs, Hands, Halves, Possible
<1>20. ASSUME NEW w \in Worker, Warp(w)
      PROVE  Handed'
  BY <1>20 DEF Warp, At, Typing, TypeOK, HandsOK, Handed, Jobs, Hands, Halves, Possible
<1>21. ASSUME NEW w \in Worker, Locate(w)
      PROVE  Handed'
  BY <1>21 DEF Locate, At, Typing, TypeOK, HandsOK, Handed, Jobs, Hands, Halves, Possible
<1>22. ASSUME NEW w \in Worker, ChainNormalize(w)
      PROVE  Handed'
  <2>1. Jobs'
    <3>1. UNCHANGED <<kind, preview, blind, runs>>
      BY <1>22 DEF ChainNormalize
    <3>2. \A j \in jobs' : j \in jobs \/ (j.type = "NORMALIZE_SOURCE" /\ j.run = 0)
      BY Enqueued, <1>22 DEF ChainNormalize
    <3> QED BY <3>1, <3>2 DEF Handed, Jobs, Possible
  <2>2. Hands'
    BY <1>22 DEF ChainNormalize, At, Enqueue, Typing, TypeOK, HandsOK, Handed, Hands,
       Possible
  <2>3. Halves'
    BY <1>22 DEF ChainNormalize, At, Enqueue, Handed, Halves
  <2> QED BY <2>1, <2>2, <2>3, <1>22 DEF ChainNormalize, Handed
<1>23. ASSUME NEW w \in Worker, ReadFields(w)
      PROVE  Handed'
  BY <1>23 DEF ReadFields, At, Typing, TypeOK, HandsOK, Handed, Jobs, Hands, Halves, Possible
<1>24. ASSUME NEW w \in Worker, Digitized(w)
      PROVE  Handed'
  BY <1>24 DEF Digitized, At, Typing, TypeOK, HandsOK, Handed, Jobs, Hands, Halves, Possible
<1>25. ASSUME NEW w \in Worker, ChainMapping(w)
      PROVE  Handed'
  BY <1>25 DEF ChainMapping, At, Typing, TypeOK, HandsOK, Handed, Jobs, Hands, Halves, Possible
<1>26. ASSUME NEW w \in Worker, BeginRun(w)
      PROVE  Handed'
  BY <1>26 DEF BeginRun, At, Typing, TypeOK, HandsOK, Handed, Jobs, Hands, Halves, Possible
<1>27. ASSUME NEW w \in Worker, Derive(w)
      PROVE  Handed'
  BY <1>27 DEF Derive, At, Typing, TypeOK, HandsOK, Handed, Jobs, Hands, Halves, Possible
<1>28. ASSUME NEW w \in Worker, Fill(w)
      PROVE  Handed'
  BY <1>28 DEF Fill, At, Typing, TypeOK, HandsOK, Handed, Jobs, Hands, Halves, Possible
<1>29. ASSUME NEW w \in Worker, Conclude(w)
      PROVE  Handed'
  BY <1>29 DEF Conclude, At, Typing, TypeOK, HandsOK, Handed, Jobs, Hands, Halves, Possible
<1>30. ASSUME NEW w \in Worker, DerivedTopology(w)
      PROVE  Handed'
  BY <1>30 DEF DerivedTopology, At, Typing, TypeOK, HandsOK, Handed, Jobs, Hands, Halves, Possible
<1>31. ASSUME NEW w \in Worker, DerivedMatch(w)
      PROVE  Handed'
  BY <1>31 DEF DerivedMatch, At, Typing, TypeOK, HandsOK, Handed, Jobs, Hands, Halves, Possible
<1>32. ASSUME NEW w \in Worker, Return(w)
      PROVE  Handed'
  BY <1>32 DEF Return, LetGo, Typing, TypeOK, HandsOK, Handed, Jobs, Hands, Halves, Possible
<1>33. ASSUME NEW w \in Worker, Raise(w) \/ Unreadable(w)
      PROVE  Handed'
  <2>0. Fails(w) /\ pc[w] \notin {"idle", "return"} /\ (failures \in Nat => failures' \in Nat)
    BY Failing, <1>33
  <2>1. pc[w] # "idle" /\ Possible(job[w])
    BY <2>0 DEF Fails, Handed, Hands
  <2>2. DOMAIN runs' = DOMAIN runs
    BY <2>0 DEF Fails
  <2>3. \A j \in jobs' : Possible(j)'
    BY RetryIsAlike, <2>1, <2>2, <2>0 DEF Fails, Handed, Jobs, Hands, Halves, Possible
  <2>4. \A v \in Worker : pc'[v] # "idle" => pc[v] # "idle" /\ pc'[v] = pc[v] /\ job'[v] = job[v] /\ mine'[v] = mine[v]
    BY <2>0 DEF Fails, LetGo, Typing, TypeOK, HandsOK
  <2> QED BY <2>2, <2>3, <2>4, <2>0 DEF Fails, Handed, Jobs, Hands, Halves, Possible
<1>34. ASSUME NEW w \in Worker, Crash(w)
      PROVE  Handed'
  BY <1>34 DEF Crash, LetGo, LeftBehind, Typing, TypeOK, HandsOK, Handed, Jobs, Hands, Halves,
     Possible
<1>35. CASE UNCHANGED vars
  BY <1>35 DEF Typing, TypeOK, HandsOK, Handed, Jobs, Hands, Halves, Possible
<1> QED
  BY <1>1, <1>2, <1>3, <1>4, <1>5, <1>6, <1>7, <1>8, <1>9, <1>10, <1>11, <1>12, <1>13, <1>14,
     <1>15, <1>16, <1>17, <1>18, <1>19, <1>20, <1>21, <1>22, <1>23, <1>24, <1>25, <1>26,
     <1>27, <1>28, <1>29, <1>30, <1>31, <1>32, <1>33, <1>34, <1>35
  DEF Next, SecondStatement, Work, Normalize, Georeference, DigitizeSource, ExtractFeatures

(* Nothing is inserted or parked that is not placed. *)
LEMMA PlacedStep ==
  ASSUME Typing, Handed, Placed, [Next]_vars
  PROVE  Placed'
<1>1. CASE Register
  BY <1>1 DEF Register, Typing, TypeOK, HandsOK, Placed
<1>2. CASE Complete
  BY <1>2 DEF Complete, Ask, Enqueue, Typing, TypeOK, HandsOK, Placed
<1>3. CASE Apply
  BY <1>3 DEF Apply, Ask, Half, Typing, TypeOK, HandsOK, Placed
<1>4. CASE ApplyEnqueue
  BY <1>4 DEF ApplyEnqueue, Half, Enqueue, Typing, TypeOK, HandsOK, Placed
<1>5. CASE Digitize
  BY <1>5 DEF Digitize, Ask, Half, Enqueue, Typing, TypeOK, HandsOK, Placed
<1>6. CASE DigitizeStatus
  BY <1>6 DEF DigitizeStatus, Half, Typing, TypeOK, HandsOK, Placed
<1>7. CASE Extract
  BY <1>7 DEF Extract, Ask, Half, NewRun, Typing, TypeOK, HandsOK, Placed
<1>8. ASSUME NEW n \in DOMAIN runs, ExtractEnqueue(n)
      PROVE  Placed'
  BY <1>8 DEF ExtractEnqueue, Half, Enqueue, Typing, TypeOK, HandsOK, Placed
<1>9. ASSUME NEW r \in halfway, Abandon(r)
      PROVE  Placed'
  BY <1>9 DEF Abandon, Half, Typing, TypeOK, HandsOK, Placed
<1>10. ASSUME NEW w \in Worker, NEW j \in jobs, Take(w, j)
      PROVE  Placed'
  BY <1>10 DEF Take, Typing, TypeOK, HandsOK, Placed
<1>11. ASSUME NEW w \in Worker, Fetch(w)
      PROVE  Placed'
  <2>1. job[w].type \in JobType
    BY HeldType, <1>11 DEF Fetch, At, Job
  <2>2. pc'[w] \in {"insert", "publish"} => located
    BY <2>1, <1>11 DEF Fetch, At, Typing, TypeOK, HandsOK, JobType
  <2>3. pc'[w] # "park"
    BY <2>1, <1>11 DEF Fetch, At, Typing, TypeOK, HandsOK, JobType
  <2> QED BY <2>2, <2>3, <1>11 DEF Fetch, At, Typing, TypeOK, HandsOK, Placed
<1>12. ASSUME NEW w \in Worker, Insert(w)
      PROVE  Placed'
  BY <1>12 DEF Insert, At, Successors, Typing, TypeOK, HandsOK, Placed
<1>13. ASSUME NEW w \in Worker, Publish(w)
      PROVE  Placed'
  BY <1>13 DEF Publish, FirstLink, At, Typing, TypeOK, HandsOK, Placed
<1>14. ASSUME NEW w \in Worker, ChainTopology(w)
      PROVE  Placed'
  BY <1>14 DEF ChainTopology, At, Typing, TypeOK, HandsOK, Placed
<1>15. ASSUME NEW w \in Worker, ChainMatch(w)
      PROVE  Placed'
  BY <1>15 DEF ChainMatch, At, Typing, TypeOK, HandsOK, Placed
<1>16. ASSUME NEW w \in Worker, ChainRun(w)
      PROVE  Placed'
  BY <1>16 DEF ChainRun, At, NewRun, Typing, TypeOK, HandsOK, Placed
<1>17. ASSUME NEW w \in Worker, ChainExtract(w)
      PROVE  Placed'
  BY <1>17 DEF ChainExtract, At, Enqueue, Typing, TypeOK, HandsOK, Placed
<1>18. ASSUME NEW w \in Worker, Preview(w)
      PROVE  Placed'
  BY <1>18 DEF Preview, At, Typing, TypeOK, HandsOK, Placed
<1>19. ASSUME NEW w \in Worker, Park(w)
      PROVE  Placed'
  BY <1>19 DEF Park, At, Typing, TypeOK, HandsOK, Placed
<1>20. ASSUME NEW w \in Worker, Warp(w)
      PROVE  Placed'
  BY <1>20 DEF Warp, At, Typing, TypeOK, HandsOK, Placed
<1>21. ASSUME NEW w \in Worker, Locate(w)
      PROVE  Placed'
  BY <1>21 DEF Locate, At, Typing, TypeOK, HandsOK, Placed
<1>22. ASSUME NEW w \in Worker, ChainNormalize(w)
      PROVE  Placed'
  BY <1>22 DEF ChainNormalize, At, Enqueue, Typing, TypeOK, HandsOK, Placed
<1>23. ASSUME NEW w \in Worker, ReadFields(w)
      PROVE  Placed'
  BY <1>23 DEF ReadFields, At, Typing, TypeOK, HandsOK, Placed
<1>24. ASSUME NEW w \in Worker, Digitized(w)
      PROVE  Placed'
  BY <1>24 DEF Digitized, At, Typing, TypeOK, HandsOK, Placed
<1>25. ASSUME NEW w \in Worker, ChainMapping(w)
      PROVE  Placed'
  BY <1>25 DEF ChainMapping, At, Typing, TypeOK, HandsOK, Placed
<1>26. ASSUME NEW w \in Worker, BeginRun(w)
      PROVE  Placed'
  BY <1>26 DEF BeginRun, At, Typing, TypeOK, HandsOK, Placed
<1>27. ASSUME NEW w \in Worker, Derive(w)
      PROVE  Placed'
  BY <1>27 DEF Derive, At, Typing, TypeOK, HandsOK, Placed
<1>28. ASSUME NEW w \in Worker, Fill(w)
      PROVE  Placed'
  BY <1>28 DEF Fill, At, Typing, TypeOK, HandsOK, Placed
<1>29. ASSUME NEW w \in Worker, Conclude(w)
      PROVE  Placed'
  BY <1>29 DEF Conclude, At, Typing, TypeOK, HandsOK, Placed
<1>30. ASSUME NEW w \in Worker, DerivedTopology(w)
      PROVE  Placed'
  BY <1>30 DEF DerivedTopology, At, Typing, TypeOK, HandsOK, Placed
<1>31. ASSUME NEW w \in Worker, DerivedMatch(w)
      PROVE  Placed'
  BY <1>31 DEF DerivedMatch, At, Typing, TypeOK, HandsOK, Placed
<1>32. ASSUME NEW w \in Worker, Return(w)
      PROVE  Placed'
  BY <1>32 DEF Return, LetGo, Typing, TypeOK, HandsOK, Placed
<1>33. ASSUME NEW w \in Worker, Raise(w) \/ Unreadable(w)
      PROVE  Placed'
  <2>0. Fails(w) /\ pc[w] \notin {"idle", "return"} /\ (failures \in Nat => failures' \in Nat)
    BY Failing, <1>33
  <2> QED BY <2>0 DEF Fails, LetGo, Retry, LeftBehind, Unrecorded, Typing, TypeOK, HandsOK, Placed
<1>34. ASSUME NEW w \in Worker, Crash(w)
      PROVE  Placed'
  BY <1>34 DEF Crash, LetGo, LeftBehind, Typing, TypeOK, HandsOK, Placed
<1>35. CASE UNCHANGED vars
  BY <1>35 DEF Typing, TypeOK, HandsOK, Placed
<1> QED
  BY <1>1, <1>2, <1>3, <1>4, <1>5, <1>6, <1>7, <1>8, <1>9, <1>10, <1>11, <1>12, <1>13, <1>14,
     <1>15, <1>16, <1>17, <1>18, <1>19, <1>20, <1>21, <1>22, <1>23, <1>24, <1>25, <1>26,
     <1>27, <1>28, <1>29, <1>30, <1>31, <1>32, <1>33, <1>34, <1>35
  DEF Next, SecondStatement, Work, Normalize, Georeference, DigitizeSource, ExtractFeatures

-----------------------------------------------------------------------------
(* Sheets. *)

(* Every step keeps SheetsAreLocated. *)
LEMMA SheetsStep ==
  ASSUME Typing, Handed, Placed, SheetsAreLocated, [Next]_vars
  PROVE  SheetsAreLocated'
<1>1. CASE Register
  BY <1>1 DEF Register, Placed, SheetsAreLocated
<1>2. CASE Complete
  BY <1>2 DEF Complete, Ask, Enqueue, Placed, SheetsAreLocated
<1>3. CASE Apply
  BY <1>3 DEF Apply, Ask, Half, Placed, SheetsAreLocated
<1>4. CASE ApplyEnqueue
  BY <1>4 DEF ApplyEnqueue, Half, Enqueue, Placed, SheetsAreLocated
<1>5. CASE Digitize
  BY <1>5 DEF Digitize, Ask, Half, Enqueue, Placed, SheetsAreLocated
<1>6. CASE DigitizeStatus
  BY <1>6 DEF DigitizeStatus, Half, Placed, SheetsAreLocated
<1>7. CASE Extract
  BY <1>7 DEF Extract, Ask, Half, NewRun, Placed, SheetsAreLocated
<1>8. ASSUME NEW n \in DOMAIN runs, ExtractEnqueue(n)
      PROVE  SheetsAreLocated'
  BY <1>8 DEF ExtractEnqueue, Half, Enqueue, Placed, SheetsAreLocated
<1>9. ASSUME NEW r \in halfway, Abandon(r)
      PROVE  SheetsAreLocated'
  BY <1>9 DEF Abandon, Half, Placed, SheetsAreLocated
<1>10. ASSUME NEW w \in Worker, NEW j \in jobs, Take(w, j)
      PROVE  SheetsAreLocated'
  BY <1>10 DEF Take, Placed, SheetsAreLocated
<1>11. ASSUME NEW w \in Worker, Fetch(w)
      PROVE  SheetsAreLocated'
  BY <1>11 DEF Fetch, At, Placed, SheetsAreLocated
<1>12. ASSUME NEW w \in Worker, Insert(w)
      PROVE  SheetsAreLocated'
  BY <1>12 DEF Insert, At, Successors, Placed, SheetsAreLocated
<1>13. ASSUME NEW w \in Worker, Publish(w)
      PROVE  SheetsAreLocated'
  <2>1. located
    BY <1>13 DEF Publish, FirstLink, At, Placed
  <2> QED BY <2>1, <1>13 DEF Publish, FirstLink, SheetsAreLocated
<1>14. ASSUME NEW w \in Worker, ChainTopology(w)
      PROVE  SheetsAreLocated'
  BY <1>14 DEF ChainTopology, At, Placed, SheetsAreLocated
<1>15. ASSUME NEW w \in Worker, ChainMatch(w)
      PROVE  SheetsAreLocated'
  BY <1>15 DEF ChainMatch, At, Placed, SheetsAreLocated
<1>16. ASSUME NEW w \in Worker, ChainRun(w)
      PROVE  SheetsAreLocated'
  BY <1>16 DEF ChainRun, At, NewRun, Placed, SheetsAreLocated
<1>17. ASSUME NEW w \in Worker, ChainExtract(w)
      PROVE  SheetsAreLocated'
  BY <1>17 DEF ChainExtract, At, Enqueue, Placed, SheetsAreLocated
<1>18. ASSUME NEW w \in Worker, Preview(w)
      PROVE  SheetsAreLocated'
  BY <1>18 DEF Preview, At, Placed, SheetsAreLocated
<1>19. ASSUME NEW w \in Worker, Park(w)
      PROVE  SheetsAreLocated'
  BY <1>19 DEF Park, At, Placed, SheetsAreLocated
<1>20. ASSUME NEW w \in Worker, Warp(w)
      PROVE  SheetsAreLocated'
  BY <1>20 DEF Warp, At, Placed, SheetsAreLocated
<1>21. ASSUME NEW w \in Worker, Locate(w)
      PROVE  SheetsAreLocated'
  BY <1>21 DEF Locate, At, Placed, SheetsAreLocated
<1>22. ASSUME NEW w \in Worker, ChainNormalize(w)
      PROVE  SheetsAreLocated'
  BY <1>22 DEF ChainNormalize, At, Enqueue, Placed, SheetsAreLocated
<1>23. ASSUME NEW w \in Worker, ReadFields(w)
      PROVE  SheetsAreLocated'
  BY <1>23 DEF ReadFields, At, Placed, SheetsAreLocated
<1>24. ASSUME NEW w \in Worker, Digitized(w)
      PROVE  SheetsAreLocated'
  BY <1>24 DEF Digitized, SheetsAreLocated
<1>25. ASSUME NEW w \in Worker, ChainMapping(w)
      PROVE  SheetsAreLocated'
  BY <1>25 DEF ChainMapping, At, Placed, SheetsAreLocated
<1>26. ASSUME NEW w \in Worker, BeginRun(w)
      PROVE  SheetsAreLocated'
  BY <1>26 DEF BeginRun, At, Placed, SheetsAreLocated
<1>27. ASSUME NEW w \in Worker, Derive(w)
      PROVE  SheetsAreLocated'
  BY <1>27 DEF Derive, At, Placed, SheetsAreLocated
<1>28. ASSUME NEW w \in Worker, Fill(w)
      PROVE  SheetsAreLocated'
  BY <1>28 DEF Fill, At, Placed, SheetsAreLocated
<1>29. ASSUME NEW w \in Worker, Conclude(w)
      PROVE  SheetsAreLocated'
  BY <1>29 DEF Conclude, At, Placed, SheetsAreLocated
<1>30. ASSUME NEW w \in Worker, DerivedTopology(w)
      PROVE  SheetsAreLocated'
  BY <1>30 DEF DerivedTopology, At, Placed, SheetsAreLocated
<1>31. ASSUME NEW w \in Worker, DerivedMatch(w)
      PROVE  SheetsAreLocated'
  BY <1>31 DEF DerivedMatch, At, Placed, SheetsAreLocated
<1>32. ASSUME NEW w \in Worker, Return(w)
      PROVE  SheetsAreLocated'
  BY <1>32 DEF Return, LetGo, Placed, SheetsAreLocated
<1>33. ASSUME NEW w \in Worker, Raise(w) \/ Unreadable(w)
      PROVE  SheetsAreLocated'
  <2>0. Fails(w) /\ pc[w] \notin {"idle", "return"} /\ (failures \in Nat => failures' \in Nat)
    BY Failing, <1>33
  <2>1. pc[w] \in Georeferencing => preview \/ blind
    BY HeldType, <2>0 DEF Fails, Typing, Holding, Georeferencing, Handed, Hands, Possible
  <2>2. status' \in {"failed", "needs_georef", status} /\ (status' = "needs_georef" => status = status' \/ pc[w] \in Georeferencing)
    BY <2>0 DEF Fails
  <2> QED BY <2>1, <2>2, <2>0 DEF Fails, SheetsAreLocated
<1>34. ASSUME NEW w \in Worker, Crash(w)
      PROVE  SheetsAreLocated'
  BY <1>34 DEF Crash, LetGo, LeftBehind, Placed, SheetsAreLocated
<1>35. CASE UNCHANGED vars
  BY <1>35 DEF Placed, SheetsAreLocated
<1> QED
  BY <1>1, <1>2, <1>3, <1>4, <1>5, <1>6, <1>7, <1>8, <1>9, <1>10, <1>11, <1>12, <1>13, <1>14,
     <1>15, <1>16, <1>17, <1>18, <1>19, <1>20, <1>21, <1>22, <1>23, <1>24, <1>25, <1>26,
     <1>27, <1>28, <1>29, <1>30, <1>31, <1>32, <1>33, <1>34, <1>35
  DEF Next, SecondStatement, Work, Normalize, Georeference, DigitizeSource, ExtractFeatures


-----------------------------------------------------------------------------
(* What follows the insertion. *)

(* A step that inserts nothing and makes nothing ready keeps what is ahead, *)
(* or leaves the source stranded or not ready.                              *)
LEMMA AheadKept ==
  ASSUME Chained, UNCHANGED kind, due' \subseteq due,
         status' = "ready" /\ readied' = "normalize" /\ 0 \notin stranded' =>
           status = "ready" /\ readied = "normalize" /\ 0 \notin stranded /\ \A d \in due' : Ahead(d) => Ahead(d)'
  PROVE  Chained'
BY DEF Chained, Successors

(* Nothing is ahead that was not, while jobs are added and workers rest. *)
LEMMA AheadStays ==
  ASSUME jobs \subseteq jobs', UNCHANGED <<pc, job>>, NEW d, Ahead(d)
  PROVE  Ahead(d)'
BY DEF Ahead, Queues

(* Every step keeps what is ahead of a source that is ready. *)
LEMMA ChainedStep ==
  ASSUME Typing, Handed, Placed, SheetsAreLocated, Chained, [Next]_vars
  PROVE  Chained'
<1>1. CASE Register
  BY <1>1 DEF Register, Typing, TypeOK, HandsOK, Chained, Successors, Ahead, Queues
<1>2. CASE Complete
  <2>1. jobs \subseteq jobs'
    BY Enqueued, <1>2 DEF Complete
  <2> QED BY <2>1, AheadKept, AheadStays, <1>2 DEF Complete
<1>3. CASE Apply
  BY <1>3 DEF Apply, Ask, Half, Typing, TypeOK, HandsOK, Chained, Successors, Ahead, Queues
<1>4. CASE ApplyEnqueue
  <2>1. jobs \subseteq jobs'
    BY Enqueued, <1>4 DEF ApplyEnqueue
  <2> QED BY <2>1, AheadKept, AheadStays, <1>4 DEF ApplyEnqueue
<1>5. CASE Digitize
  BY <1>5 DEF Digitize, Ask, Half, Enqueue, Typing, TypeOK, HandsOK, Chained, Successors, Ahead,
     Queues
<1>6. CASE DigitizeStatus
  BY <1>6 DEF DigitizeStatus, Half, Typing, TypeOK, HandsOK, Chained, Successors, Ahead, Queues
<1>7. CASE Extract
  BY <1>7 DEF Extract, Ask, Half, NewRun, Typing, TypeOK, HandsOK, Chained, Successors, Ahead,
     Queues
<1>8. ASSUME NEW n \in DOMAIN runs, ExtractEnqueue(n)
      PROVE  Chained'
  <2>1. jobs \subseteq jobs'
    BY Enqueued, <1>8 DEF ExtractEnqueue
  <2> QED BY <2>1, AheadKept, AheadStays, <1>8 DEF ExtractEnqueue
<1>9. ASSUME NEW r \in halfway, Abandon(r)
      PROVE  Chained'
  BY AheadKept, AheadStays, <1>9 DEF Abandon
<1>10. ASSUME NEW w \in Worker, NEW j \in jobs, Take(w, j)
      PROVE  Chained'
  BY <1>10 DEF Take, Typing, TypeOK, HandsOK, Chained, Successors, Ahead, Queues
<1>11. ASSUME NEW w \in Worker, Fetch(w)
      PROVE  Chained'
  <2>1. status = "ready" /\ readied = "normalize" => located
    BY DEF Placed, SheetsAreLocated
  <2>2. \A v \in Worker, d \in due' :
          status = "ready" /\ readied = "normalize" /\ Queues(v, d) => Queues(v, d)'
    BY <2>1, <1>11 DEF Fetch, At, Typing, TypeOK, HandsOK, Queues
  <2>3. \A d \in due' : status = "ready" /\ readied = "normalize" /\ Ahead(d) => Ahead(d)'
    BY <2>2, <1>11 DEF Fetch, Ahead
  <2> QED BY <2>3, AheadKept, <1>11 DEF Fetch
<1>12. ASSUME NEW w \in Worker, Insert(w)
      PROVE  Chained'
  <2>1. \A d \in due' : Ahead(d)'
    BY <1>12 DEF Insert, At, Typing, TypeOK, HandsOK, Ahead, Queues
  <2> QED BY <2>1, <1>12 DEF Insert, Chained, Successors
<1>13. ASSUME NEW w \in Worker, Publish(w)
      PROVE  Chained'
  BY <1>13 DEF Publish, FirstLink, At, Typing, TypeOK, HandsOK, Chained, Successors, Ahead, Queues
<1>14. ASSUME NEW w \in Worker, ChainTopology(w)
      PROVE  Chained'
  BY <1>14 DEF ChainTopology, At, Typing, TypeOK, HandsOK, Chained, Successors, Ahead, Queues
<1>15. ASSUME NEW w \in Worker, ChainMatch(w)
      PROVE  Chained'
  BY <1>15 DEF ChainMatch, At, Typing, TypeOK, HandsOK, Chained, Successors, Ahead, Queues
<1>16. ASSUME NEW w \in Worker, ChainRun(w)
      PROVE  Chained'
  BY <1>16 DEF ChainRun, At, NewRun, Typing, TypeOK, HandsOK, Chained, Successors, Ahead, Queues
<1>17. ASSUME NEW w \in Worker, ChainExtract(w)
      PROVE  Chained'
  <2>1. jobs \subseteq jobs'
    BY Enqueued, <1>17 DEF ChainExtract
  <2>2. \A v \in Worker, d \in due' : Queues(v, d) => Queues(v, d)'
    BY <1>17 DEF ChainExtract, At, Typing, TypeOK, HandsOK, Queues
  <2>3. \A d \in due' : Ahead(d) => Ahead(d)'
    BY <2>1, <2>2 DEF Ahead
  <2> QED BY <2>3, AheadKept, <1>17 DEF ChainExtract
<1>18. ASSUME NEW w \in Worker, Preview(w)
      PROVE  Chained'
  BY <1>18 DEF Preview, At, Typing, TypeOK, HandsOK, Chained, Successors, Ahead, Queues
<1>19. ASSUME NEW w \in Worker, Park(w)
      PROVE  Chained'
  BY <1>19 DEF Park, At, Typing, TypeOK, HandsOK, Chained, Successors, Ahead, Queues
<1>20. ASSUME NEW w \in Worker, Warp(w)
      PROVE  Chained'
  BY <1>20 DEF Warp, At, Typing, TypeOK, HandsOK, Chained, Successors, Ahead, Queues
<1>21. ASSUME NEW w \in Worker, Locate(w)
      PROVE  Chained'
  BY <1>21 DEF Locate, At, Typing, TypeOK, HandsOK, Chained, Successors, Ahead, Queues
<1>22. ASSUME NEW w \in Worker, ChainNormalize(w)
      PROVE  Chained'
  BY <1>22 DEF ChainNormalize, At, Enqueue, Typing, TypeOK, HandsOK, Chained, Successors, Ahead,
     Queues
<1>23. ASSUME NEW w \in Worker, ReadFields(w)
      PROVE  Chained'
  BY <1>23 DEF ReadFields, At, Typing, TypeOK, HandsOK, Chained, Successors, Ahead, Queues
<1>24. ASSUME NEW w \in Worker, Digitized(w)
      PROVE  Chained'
  BY <1>24 DEF Digitized, Chained, Successors
<1>25. ASSUME NEW w \in Worker, ChainMapping(w)
      PROVE  Chained'
  BY <1>25 DEF ChainMapping, At, Typing, TypeOK, HandsOK, Chained, Successors, Ahead, Queues
<1>26. ASSUME NEW w \in Worker, BeginRun(w)
      PROVE  Chained'
  BY <1>26 DEF BeginRun, At, Typing, TypeOK, HandsOK, Chained, Successors, Ahead, Queues
<1>27. ASSUME NEW w \in Worker, Derive(w)
      PROVE  Chained'
  BY <1>27 DEF Derive, At, Typing, TypeOK, HandsOK, Chained, Successors, Ahead, Queues
<1>28. ASSUME NEW w \in Worker, Fill(w)
      PROVE  Chained'
  BY <1>28 DEF Fill, At, Typing, TypeOK, HandsOK, Chained, Successors, Ahead, Queues
<1>29. ASSUME NEW w \in Worker, Conclude(w)
      PROVE  Chained'
  BY <1>29 DEF Conclude, At, Typing, TypeOK, HandsOK, Chained, Successors, Ahead, Queues
<1>30. ASSUME NEW w \in Worker, DerivedTopology(w)
      PROVE  Chained'
  BY <1>30 DEF DerivedTopology, At, Typing, TypeOK, HandsOK, Chained, Successors, Ahead, Queues
<1>31. ASSUME NEW w \in Worker, DerivedMatch(w)
      PROVE  Chained'
  BY <1>31 DEF DerivedMatch, At, Typing, TypeOK, HandsOK, Chained, Successors, Ahead, Queues
<1>32. ASSUME NEW w \in Worker, Return(w)
      PROVE  Chained'
  BY <1>32 DEF Return, LetGo, Typing, TypeOK, HandsOK, Chained, Successors, Ahead, Queues
<1>33. ASSUME NEW w \in Worker, Raise(w) \/ Unreadable(w)
      PROVE  Chained'
  <2>0. Fails(w) /\ pc[w] \notin {"idle", "return"} /\ (failures \in Nat => failures' \in Nat)
    BY Failing, <1>33
  <2>1. CASE pc[w] \in Normalizing \cup Georeferencing
    BY <2>1, AheadKept, <2>0 DEF Fails, Normalizing, Georeferencing
  <2>2. CASE pc[w] \notin Normalizing \cup Georeferencing
    <3>1. UNCHANGED status /\ stranded \subseteq stranded' /\ jobs \subseteq jobs'
      BY <2>2, <2>0 DEF Fails, Normalizing, Georeferencing
    <3>2. \A v \in Worker \ {w} : UNCHANGED <<pc[v], job[v]>>
      BY <2>0 DEF Fails, LetGo, Typing, TypeOK, HandsOK
    <3>3. \A d : Queues(w, d) => pc[w] = "fetch" /\ job[w].type = "NORMALIZE_SOURCE"
      BY <2>2 DEF Queues, Normalizing
    <3>4. ASSUME pc[w] = "fetch", job[w].type = "NORMALIZE_SOURCE"
          PROVE  0 \in stranded' \/ \E j \in jobs' : j.type = "NORMALIZE_SOURCE"
      <4>1. job[w] \in Job /\ job[w].run = 0
        BY HeldType, <3>4 DEF Handed, Hands, Possible
      <4>2. CASE job[w].attempts + 1 < MaxAttempts
        <5>1. [job[w] EXCEPT !.attempts = @ + 1] \in jobs'
          BY <4>2, <2>0 DEF Fails, Retry
        <5>2. [job[w] EXCEPT !.attempts = @ + 1].type = "NORMALIZE_SOURCE"
          BY <4>1, <3>4 DEF Job
        <5> QED BY <5>1, <5>2
      <4>3. CASE ~ (job[w].attempts + 1 < MaxAttempts)
        <5>1. job[w].attempts + 1 = MaxAttempts
          BY <4>1, <4>3 DEF Job
        <5> QED BY <5>1, <4>1, <3>4, <2>0 DEF Fails, Unrecorded, Uncaught
      <4> QED BY <4>2, <4>3
    <3>5. \A d : 0 \notin stranded' /\ Ahead(d) => Ahead(d)'
      BY <3>1, <3>2, <3>3, <3>4 DEF Ahead, Queues
    <3> QED BY <3>1, <3>5, AheadKept, <2>0 DEF Fails
  <2> QED BY <2>1, <2>2
<1>34. ASSUME NEW w \in Worker, Crash(w)
      PROVE  Chained'
  <2>1. job[w] \in jobs' /\ jobs \subseteq jobs'
    BY <1>34 DEF Crash
  <2>2. \A v \in Worker \ {w} : UNCHANGED <<pc[v], job[v]>>
    BY <1>34 DEF Crash, LetGo, Typing, TypeOK, HandsOK
  <2>3. pc[w] \in {"fetch", "insert", "publish", "chain topology", "chain match", "chain run", "chain extract"}
        /\ (pc[w] = "fetch" => job[w].type = "NORMALIZE_SOURCE") => job[w].type = "NORMALIZE_SOURCE"
    BY DEF Typing, Holding, Normalizing
  <2>4. \A d : Ahead(d) => Ahead(d)'
    BY <2>1, <2>2, <2>3 DEF Ahead, Queues
  <2> QED BY <2>4, AheadKept, <1>34 DEF Crash
<1>35. CASE UNCHANGED vars
  BY <1>35, AheadKept, AheadStays
<1> QED
  BY <1>1, <1>2, <1>3, <1>4, <1>5, <1>6, <1>7, <1>8, <1>9, <1>10, <1>11, <1>12, <1>13, <1>14,
     <1>15, <1>16, <1>17, <1>18, <1>19, <1>20, <1>21, <1>22, <1>23, <1>24, <1>25, <1>26,
     <1>27, <1>28, <1>29, <1>30, <1>31, <1>32, <1>33, <1>34, <1>35
  DEF Next, SecondStatement, Work, Normalize, Georeference, DigitizeSource, ExtractFeatures


-----------------------------------------------------------------------------
(* Extraction runs. *)

(* A step that takes up no run leaves it with its job. *)
LEMMA UniqueKept ==
  ASSUME OneJobPerRun,
         \A j \in jobs' : j \in jobs \/ j.type # "EXTRACT_FEATURES",
         \A r \in halfway' : r \in halfway \/ r.request # "extract",
         \A v \in Worker, n \in Nat : Holds(v, n)' => Holds(v, n)
  PROVE  OneJobPerRun'
<1> SUFFICES ASSUME NEW n \in Nat PROVE OneJob(n)'
  BY DEF OneJobPerRun
<1>1. \A j \in jobs' : Carries(j, n) => j \in jobs
  BY DEF Carries
<1>2. Promised(n)' => Promised(n)
  BY DEF Promised, Half
<1> QED BY <1>1, <1>2 DEF OneJobPerRun, OneJob

(* A run that is new has none. *)
LEMMA NewRunIsFree ==
  ASSUME Typing, Handed
  PROVE  /\ \A j \in jobs : ~ Carries(j, Len(runs) + 1)
         /\ \A w \in Worker : ~ Holds(w, Len(runs) + 1)
         /\ ~ Promised(Len(runs) + 1)
<1>1. Len(runs) + 1 \notin DOMAIN runs
  BY NewRunType
<1> QED BY <1>1 DEF Handed, Jobs, Hands, Halves, Possible, Carries, Holds, Runs, Chains,
   Promised, Half

(* No step gives a run a second job. *)
LEMMA UniqueStep ==
  ASSUME Typing, Handed, OneJobPerRun, [Next]_vars
  PROVE  OneJobPerRun'
<1>1. CASE Register
  BY UniqueKept, <1>1 DEF Register, Half, Holds, Runs, Chains
<1>2. CASE Complete
  <2>1. \A j \in jobs' : j \in jobs \/ j.type # "EXTRACT_FEATURES"
    BY Enqueued, <1>2 DEF Complete
  <2>2. \A r \in halfway' : r \in halfway \/ r.request # "extract"
    BY <1>2 DEF Complete, Half
  <2> QED BY <2>1, <2>2, UniqueKept, <1>2 DEF Complete, Holds, Runs, Chains
<1>3. CASE Apply
  <2>1. \A r \in halfway' : r \in halfway \/ r.request # "extract"
    BY <1>3 DEF Apply, Half
  <2> QED BY <2>1, UniqueKept, <1>3 DEF Apply, Holds, Runs, Chains
<1>4. CASE ApplyEnqueue
  <2>1. \A j \in jobs' : j \in jobs \/ j.type # "EXTRACT_FEATURES"
    BY Enqueued, <1>4 DEF ApplyEnqueue
  <2>2. \A r \in halfway' : r \in halfway \/ r.request # "extract"
    BY <1>4 DEF ApplyEnqueue, Half
  <2> QED BY <2>1, <2>2, UniqueKept, <1>4 DEF ApplyEnqueue, Holds, Runs, Chains
<1>5. CASE Digitize
  <2>1. \A j \in jobs' : j \in jobs \/ j.type # "EXTRACT_FEATURES"
    BY Enqueued, <1>5 DEF Digitize
  <2>2. \A r \in halfway' : r \in halfway \/ r.request # "extract"
    BY <1>5 DEF Digitize, Half
  <2> QED BY <2>1, <2>2, UniqueKept, <1>5 DEF Digitize, Holds, Runs, Chains
<1>6. CASE DigitizeStatus
  BY UniqueKept, <1>6 DEF DigitizeStatus, Half, Holds, Runs, Chains
<1>7. CASE Extract
  <2>1. \A n \in Nat : Promised(n)' => Promised(n) \/ n = Len(runs) + 1
    BY <1>7 DEF Extract, Promised, Half
  <2>2. \A v \in Worker, n \in Nat : Holds(v, n)' = Holds(v, n)
    BY <1>7 DEF Extract, Holds, Runs, Chains
  <2>3. jobs' = jobs
    BY <1>7 DEF Extract
  <2> QED BY <2>1, <2>2, <2>3, NewRunIsFree DEF OneJobPerRun, OneJob
<1>8. ASSUME NEW n \in DOMAIN runs, ExtractEnqueue(n)
      PROVE  OneJobPerRun'
  <2>1. \A m \in Nat : Promised(m)' => Promised(m) /\ m # n
    BY <1>8 DEF ExtractEnqueue, Promised, Half
  <2>2. \A v \in Worker, m \in Nat : Holds(v, m)' = Holds(v, m)
    BY <1>8 DEF ExtractEnqueue, Holds, Runs, Chains
  <2>3. /\ \A j \in jobs', m \in Nat : Carries(j, m) => j \in jobs \/ m = n
        /\ \A j, k \in jobs' \ jobs : j = k
    BY Enqueued, <1>8 DEF ExtractEnqueue, Carries
  <2>4. Promised(n)
    BY <1>8 DEF ExtractEnqueue, Promised
  <2>5. n \in Nat
    BY LengthType
  <2> QED BY <2>1, <2>2, <2>3, <2>4, <2>5 DEF OneJobPerRun, OneJob
<1>9. ASSUME NEW r \in halfway, Abandon(r)
      PROVE  OneJobPerRun'
  BY UniqueKept, <1>9 DEF Abandon, Half, Holds, Runs, Chains
<1>10. ASSUME NEW w \in Worker, NEW j \in jobs, Take(w, j)
      PROVE  OneJobPerRun'
  <2>1. \A v \in Worker, n \in Nat : Holds(v, n)' => Holds(v, n) \/ (v = w /\ Carries(j, n))
    BY <1>10 DEF Take, Typing, TypeOK, HandsOK, Holds, Runs, Chains
  <2>2. jobs' = jobs \ {j} /\ halfway' = halfway
    BY <1>10 DEF Take
  <2> QED BY <2>1, <2>2 DEF OneJobPerRun, OneJob, Promised
<1>11. ASSUME NEW w \in Worker, Fetch(w)
      PROVE  OneJobPerRun'
  <2>1. job[w].type \in JobType
    BY HeldType, <1>11 DEF Fetch, At, Job
  <2>2. \A v \in Worker, n \in Nat : Holds(v, n)' => Holds(v, n)
    BY <2>1, <1>11 DEF Fetch, At, JobType, Typing, TypeOK, HandsOK, Holds, Runs, Chains
  <2> QED BY <2>2, UniqueKept, <1>11 DEF Fetch
<1>12. ASSUME NEW w \in Worker, Insert(w)
      PROVE  OneJobPerRun'
  <2>1. \A v \in Worker, n \in Nat : Holds(v, n)' => Holds(v, n)
    BY <1>12 DEF Insert, At, Typing, TypeOK, HandsOK, Holds, Runs, Chains
  <2> QED BY <2>1, UniqueKept, <1>12 DEF Insert
<1>13. ASSUME NEW w \in Worker, Publish(w)
      PROVE  OneJobPerRun'
  <2>1. \A v \in Worker, n \in Nat : Holds(v, n)' => Holds(v, n)
    BY <1>13 DEF Publish, FirstLink, At, Typing, TypeOK, HandsOK, Holds, Runs, Chains
  <2> QED BY <2>1, UniqueKept, <1>13 DEF Publish
<1>14. ASSUME NEW w \in Worker, ChainTopology(w)
      PROVE  OneJobPerRun'
  <2>1. \A v \in Worker, n \in Nat : Holds(v, n)' => Holds(v, n)
    BY <1>14 DEF ChainTopology, At, Typing, TypeOK, HandsOK, Holds, Runs, Chains
  <2> QED BY <2>1, UniqueKept, <1>14 DEF ChainTopology
<1>15. ASSUME NEW w \in Worker, ChainMatch(w)
      PROVE  OneJobPerRun'
  <2>1. \A v \in Worker, n \in Nat : Holds(v, n)' => Holds(v, n)
    BY <1>15 DEF ChainMatch, At, Typing, TypeOK, HandsOK, Holds, Runs, Chains
  <2> QED BY <2>1, UniqueKept, <1>15 DEF ChainMatch
<1>16. ASSUME NEW w \in Worker, ChainRun(w)
      PROVE  OneJobPerRun'
  <2>1. \A v \in Worker, n \in Nat : Holds(v, n)' => Holds(v, n) \/ (v = w /\ n = Len(runs) + 1)
    BY <1>16 DEF ChainRun, At, Typing, TypeOK, HandsOK, Holds, Runs, Chains
  <2>2. jobs' = jobs /\ halfway' = halfway
    BY <1>16 DEF ChainRun
  <2> QED BY <2>1, <2>2, NewRunIsFree DEF OneJobPerRun, OneJob, Promised
<1>17. ASSUME NEW w \in Worker, ChainExtract(w)
      PROVE  OneJobPerRun'
  <2>1. \A v \in Worker, n \in Nat : Holds(v, n)' => Holds(v, n) /\ ~ (v = w /\ n = mine[w])
    <3>1. job[w].type # "EXTRACT_FEATURES"
      BY <1>17 DEF ChainExtract, At, Typing, Holding, Normalizing
    <3> QED BY <3>1, <1>17 DEF ChainExtract, At, Typing, TypeOK, HandsOK, Holds, Runs, Chains,
       Carries
  <2>2. Holds(w, mine[w]) /\ mine[w] \in Nat
    BY <1>17 DEF ChainExtract, At, Holds, Chains, Typing, TypeOK, HandsOK
  <2>3. /\ \A j \in jobs', n \in Nat : Carries(j, n) => j \in jobs \/ n = mine[w]
        /\ \A j, k \in jobs' \ jobs : j = k
    BY Enqueued, <1>17 DEF ChainExtract, Carries
  <2>4. halfway' = halfway
    BY <1>17 DEF ChainExtract
  <2> QED BY <2>1, <2>2, <2>3, <2>4 DEF OneJobPerRun, OneJob, Promised
<1>18. ASSUME NEW w \in Worker, Preview(w)
      PROVE  OneJobPerRun'
  <2>1. \A v \in Worker, n \in Nat : Holds(v, n)' => Holds(v, n)
    BY <1>18 DEF Preview, At, Typing, TypeOK, HandsOK, Holds, Runs, Chains
  <2> QED BY <2>1, UniqueKept, <1>18 DEF Preview
<1>19. ASSUME NEW w \in Worker, Park(w)
      PROVE  OneJobPerRun'
  <2>1. \A v \in Worker, n \in Nat : Holds(v, n)' => Holds(v, n)
    BY <1>19 DEF Park, At, Typing, TypeOK, HandsOK, Holds, Runs, Chains
  <2> QED BY <2>1, UniqueKept, <1>19 DEF Park
<1>20. ASSUME NEW w \in Worker, Warp(w)
      PROVE  OneJobPerRun'
  <2>1. \A v \in Worker, n \in Nat : Holds(v, n)' => Holds(v, n)
    BY <1>20 DEF Warp, At, Typing, TypeOK, HandsOK, Holds, Runs, Chains
  <2> QED BY <2>1, UniqueKept, <1>20 DEF Warp
<1>21. ASSUME NEW w \in Worker, Locate(w)
      PROVE  OneJobPerRun'
  <2>1. \A v \in Worker, n \in Nat : Holds(v, n)' => Holds(v, n)
    BY <1>21 DEF Locate, At, Typing, TypeOK, HandsOK, Holds, Runs, Chains
  <2> QED BY <2>1, UniqueKept, <1>21 DEF Locate
<1>22. ASSUME NEW w \in Worker, ChainNormalize(w)
      PROVE  OneJobPerRun'
  <2>1. \A v \in Worker, n \in Nat : Holds(v, n)' => Holds(v, n)
    BY <1>22 DEF ChainNormalize, At, Typing, TypeOK, HandsOK, Holds, Runs, Chains
  <2>2. \A j \in jobs' : j \in jobs \/ j.type # "EXTRACT_FEATURES"
    <3>1. \A j \in jobs' : j \in jobs \/ (j.type = "NORMALIZE_SOURCE" /\ j.run = 0)
      BY Enqueued, <1>22 DEF ChainNormalize
    <3> QED BY <3>1
  <2>3. UNCHANGED halfway
    BY <1>22 DEF ChainNormalize
  <2> QED BY <2>1, <2>2, <2>3, UniqueKept
<1>23. ASSUME NEW w \in Worker, ReadFields(w)
      PROVE  OneJobPerRun'
  <2>1. \A v \in Worker, n \in Nat : Holds(v, n)' => Holds(v, n)
    BY <1>23 DEF ReadFields, At, Typing, TypeOK, HandsOK, Holds, Runs, Chains
  <2> QED BY <2>1, UniqueKept, <1>23 DEF ReadFields
<1>24. ASSUME NEW w \in Worker, Digitized(w)
      PROVE  OneJobPerRun'
  <2>1. \A v \in Worker, n \in Nat : Holds(v, n)' => Holds(v, n)
    BY <1>24 DEF Digitized, At, Typing, TypeOK, HandsOK, Holds, Runs, Chains
  <2> QED BY <2>1, UniqueKept, <1>24 DEF Digitized
<1>25. ASSUME NEW w \in Worker, ChainMapping(w)
      PROVE  OneJobPerRun'
  <2>1. \A v \in Worker, n \in Nat : Holds(v, n)' => Holds(v, n)
    BY <1>25 DEF ChainMapping, At, Typing, TypeOK, HandsOK, Holds, Runs, Chains
  <2> QED BY <2>1, UniqueKept, <1>25 DEF ChainMapping
<1>26. ASSUME NEW w \in Worker, BeginRun(w)
      PROVE  OneJobPerRun'
  <2>1. \A v \in Worker, n \in Nat : Holds(v, n)' => Holds(v, n)
    BY <1>26 DEF BeginRun, At, Typing, TypeOK, HandsOK, Holds, Runs, Chains
  <2> QED BY <2>1, UniqueKept, <1>26 DEF BeginRun
<1>27. ASSUME NEW w \in Worker, Derive(w)
      PROVE  OneJobPerRun'
  <2>1. \A v \in Worker, n \in Nat : Holds(v, n)' => Holds(v, n)
    BY <1>27 DEF Derive, At, Typing, TypeOK, HandsOK, Holds, Runs, Chains
  <2> QED BY <2>1, UniqueKept, <1>27 DEF Derive
<1>28. ASSUME NEW w \in Worker, Fill(w)
      PROVE  OneJobPerRun'
  <2>1. \A v \in Worker, n \in Nat : Holds(v, n)' => Holds(v, n)
    BY <1>28 DEF Fill, At, Typing, TypeOK, HandsOK, Holds, Runs, Chains
  <2> QED BY <2>1, UniqueKept, <1>28 DEF Fill
<1>29. ASSUME NEW w \in Worker, Conclude(w)
      PROVE  OneJobPerRun'
  <2>1. \A v \in Worker, n \in Nat : Holds(v, n)' => Holds(v, n)
    BY <1>29 DEF Conclude, At, Typing, TypeOK, HandsOK, Holds, Runs, Chains
  <2> QED BY <2>1, UniqueKept, <1>29 DEF Conclude
<1>30. ASSUME NEW w \in Worker, DerivedTopology(w)
      PROVE  OneJobPerRun'
  <2>1. \A v \in Worker, n \in Nat : Holds(v, n)' => Holds(v, n)
    BY <1>30 DEF DerivedTopology, At, Typing, TypeOK, HandsOK, Holds, Runs, Chains
  <2> QED BY <2>1, UniqueKept, <1>30 DEF DerivedTopology
<1>31. ASSUME NEW w \in Worker, DerivedMatch(w)
      PROVE  OneJobPerRun'
  <2>1. \A v \in Worker, n \in Nat : Holds(v, n)' => Holds(v, n)
    BY <1>31 DEF DerivedMatch, At, Typing, TypeOK, HandsOK, Holds, Runs, Chains
  <2> QED BY <2>1, UniqueKept, <1>31 DEF DerivedMatch
<1>32. ASSUME NEW w \in Worker, Return(w)
      PROVE  OneJobPerRun'
  <2>1. \A v \in Worker, n \in Nat : Holds(v, n)' => Holds(v, n)
    BY <1>32 DEF Return, LetGo, Typing, TypeOK, HandsOK, Holds, Runs, Chains
  <2> QED BY <2>1, UniqueKept, <1>32 DEF Return
<1>33. ASSUME NEW w \in Worker, Raise(w) \/ Unreadable(w)
      PROVE  OneJobPerRun'
  <2>0. Fails(w) /\ pc[w] \notin {"idle", "return"} /\ (failures \in Nat => failures' \in Nat)
    BY Failing, <1>33
  <2>1. \A v \in Worker, n \in Nat : Holds(v, n)' => Holds(v, n) /\ v # w
    BY <2>0 DEF Fails, LetGo, Typing, TypeOK, HandsOK, Holds, Runs, Chains
  <2>2. /\ \A j \in jobs', n \in Nat : Carries(j, n) => j \in jobs \/ Holds(w, n)
        /\ \A j, k \in jobs' \ jobs : j = k
        /\ halfway' = halfway
    BY RetryIsAlike, <2>0 DEF Fails, Retry, Holds, Runs, Carries
  <2> QED BY <2>1, <2>2 DEF OneJobPerRun, OneJob, Promised
<1>34. ASSUME NEW w \in Worker, Crash(w)
      PROVE  OneJobPerRun'
  <2>1. \A v \in Worker, n \in Nat : Holds(v, n)' => Holds(v, n) /\ v # w
    BY <1>34 DEF Crash, LetGo, Typing, TypeOK, HandsOK, Holds, Runs, Chains
  <2>2. /\ \A j \in jobs', n \in Nat : Carries(j, n) => j \in jobs \/ Holds(w, n)
        /\ \A j, k \in jobs' \ jobs : j = k
        /\ halfway' = halfway
    BY <1>34 DEF Crash, Holds, Runs
  <2> QED BY <2>1, <2>2 DEF OneJobPerRun, OneJob, Promised
<1>35. CASE UNCHANGED vars
  BY <1>35, UniqueKept DEF Holds, Runs, Chains
<1> QED
  BY <1>1, <1>2, <1>3, <1>4, <1>5, <1>6, <1>7, <1>8, <1>9, <1>10, <1>11, <1>12, <1>13, <1>14,
     <1>15, <1>16, <1>17, <1>18, <1>19, <1>20, <1>21, <1>22, <1>23, <1>24, <1>25, <1>26,
     <1>27, <1>28, <1>29, <1>30, <1>31, <1>32, <1>33, <1>34, <1>35
  DEF Next, SecondStatement, Work, Normalize, Georeference, DigitizeSource, ExtractFeatures


(* Derived sources are never lost, emptied, or given more to wait for. *)
Grows ==
  /\ DOMAIN derived \subseteq DOMAIN derived'
  /\ \A m \in DOMAIN derived :
       (derived[m].filled => derived'[m].filled) /\ derived'[m].due \subseteq derived[m].due

LEMMA NewDerived ==
  ASSUME Typing, NEW e
  PROVE  /\ DOMAIN Append(derived, e) = DOMAIN derived \cup {Len(derived) + 1}
         /\ \A m \in DOMAIN derived : Append(derived, e)[m] = derived[m]
<1>1. derived \in Seq([filled : BOOLEAN, due : SUBSET {"topology", "match"}])
  BY DEF Typing, TypeOK, ExtractionOK
<1> QED BY <1>1

LEMMA DerivedChanges ==
  ASSUME Typing, NEW n \in DOMAIN derived
  PROVE  /\ DOMAIN [derived EXCEPT ![n].filled = TRUE] = DOMAIN derived
         /\ \A m \in DOMAIN derived :
              /\ [derived EXCEPT ![n].filled = TRUE][m].due = derived[m].due
              /\ [derived EXCEPT ![n].filled = TRUE][m].filled = (derived[m].filled \/ m = n)
<1>1. derived \in Seq([filled : BOOLEAN, due : SUBSET {"topology", "match"}])
  BY DEF Typing, TypeOK, ExtractionOK
<1>2. \A m \in DOMAIN derived : derived[m] \in [filled : BOOLEAN, due : SUBSET {"topology", "match"}]
  BY <1>1, Element
<1> QED BY <1>2

LEMMA DerivedIsRecord ==
  ASSUME Typing, NEW m \in DOMAIN derived
  PROVE  derived[m] \in [filled : BOOLEAN, due : SUBSET {"topology", "match"}]
BY Element DEF Typing, TypeOK, ExtractionOK

(* The handlers change the status of a run, or conclude it. *)
LEMMA RunChanges ==
  ASSUME Typing, NEW n, NEW s, NEW e
  PROVE  /\ DOMAIN [runs EXCEPT ![n].status = s] = DOMAIN runs
         /\ \A m \in DOMAIN runs :
              /\ [runs EXCEPT ![n].status = s][m].result = runs[m].result
              /\ [runs EXCEPT ![n].status = s][m].status = IF m = n THEN s ELSE runs[m].status
         /\ DOMAIN [runs EXCEPT ![n] = e] = DOMAIN runs
         /\ \A m \in DOMAIN runs : [runs EXCEPT ![n] = e][m] = IF m = n THEN e ELSE runs[m]
<1>1. runs \in Seq([status : {"queued", "running", "done", "failed"}, result : Nat])
  BY DEF Typing, TypeOK, ExtractionOK
<1>2. \A m \in DOMAIN runs : runs[m] \in [status : {"queued", "running", "done", "failed"}, result : Nat]
  BY <1>1, Element
<1> QED BY <1>2

(* The run of an extraction job is there. *)
LEMMA RunIsThere ==
  ASSUME Typing, Handed, NEW w \in Worker, pc[w] \in Extracting \cup {"run"}
  PROVE  job[w].run \in DOMAIN runs /\ job[w].run \in Nat /\ Carries(job[w], job[w].run)
<1>1. pc[w] # "idle" /\ job[w].type = "EXTRACT_FEATURES"
  BY DEF Typing, Holding, Extracting
<1> QED BY <1>1, HeldType DEF Handed, Hands, Possible, Carries

(* Queueing the successors of a derived source. *)
LEMMA DerivedTopologyGrows ==
  ASSUME Typing, Deriving, NEW w \in Worker, DerivedTopology(w)
  PROVE  Grows /\ mine[w] \in DOMAIN derived /\ derived'[mine[w]].due = derived[mine[w]].due \ {"topology"}
<1>1. mine[w] \in DOMAIN derived
  BY DEF DerivedTopology, At, Deriving, DerivingAt, Late
<1>2. /\ DOMAIN derived' = DOMAIN derived
      /\ \A m \in DOMAIN derived :
           derived'[m] = IF m = mine[w] THEN [derived[m] EXCEPT !.due = @ \ {"topology"}] ELSE derived[m]
  BY DerivedIsRecord DEF DerivedTopology
<1>3. \A m \in DOMAIN derived : derived'[m].filled = derived[m].filled
  BY DerivedIsRecord, <1>2
<1>4. \A m \in DOMAIN derived :
        derived'[m].due = IF m = mine[w] THEN derived[m].due \ {"topology"} ELSE derived[m].due
  BY DerivedIsRecord, <1>2
<1> QED BY <1>1, <1>2, <1>3, <1>4 DEF Grows

LEMMA DerivedMatchGrows ==
  ASSUME Typing, Deriving, NEW w \in Worker, DerivedMatch(w)
  PROVE  Grows /\ mine[w] \in DOMAIN derived /\ derived'[mine[w]].due = derived[mine[w]].due \ {"match"}
<1>1. mine[w] \in DOMAIN derived
  BY DEF DerivedMatch, At, Deriving, DerivingAt, Late
<1>2. /\ DOMAIN derived' = DOMAIN derived
      /\ \A m \in DOMAIN derived :
           derived'[m] = IF m = mine[w] THEN [derived[m] EXCEPT !.due = @ \ {"match"}] ELSE derived[m]
  BY DerivedIsRecord DEF DerivedMatch
<1>3. \A m \in DOMAIN derived : derived'[m].filled = derived[m].filled
  BY DerivedIsRecord, <1>2
<1>4. \A m \in DOMAIN derived :
        derived'[m].due = IF m = mine[w] THEN derived[m].due \ {"match"} ELSE derived[m].due
  BY DerivedIsRecord, <1>2
<1> QED BY <1>1, <1>2, <1>3, <1>4 DEF Grows

LEMMA FillGrows ==
  ASSUME Typing, Deriving, NEW w \in Worker, Fill(w)
  PROVE  Grows /\ mine[w] \in DOMAIN derived' /\ derived'[mine[w]].filled
<1>1. mine[w] \in DOMAIN derived
  BY DEF Fill, At, Deriving, DerivingAt, Late
<1> QED BY <1>1, DerivedChanges DEF Fill, Grows

LEMMA DeriveGrows ==
  ASSUME Typing, NEW w \in Worker, Derive(w)
  PROVE  Grows /\ Len(derived) + 1 \in DOMAIN derived'
BY NewDerived DEF Derive, Grows

(* A handler that does not move, and whose run keeps its result. *)
LEMMA DerivingStays ==
  ASSUME Grows, NEW v \in Worker, DerivingAt(v), UNCHANGED <<pc[v], job[v], mine[v]>>,
         pc[v] \in Late => runs'[job[v].run].result = runs[job[v].run].result
  PROVE  DerivingAt(v)'
BY DEF DerivingAt, Grows, Late

(* A step that takes no handler to a late step and concludes no run. *)
LEMMA DerivingKept ==
  ASSUME Typing, Handed, Deriving, Grows,
         \A v \in Worker : pc'[v] \in Late => UNCHANGED <<pc[v], job[v], mine[v]>>,
         \A n \in DOMAIN runs : runs'[n].result = runs[n].result
  PROVE  Deriving'
<1> SUFFICES ASSUME NEW v \in Worker PROVE DerivingAt(v)'
  BY DEF Deriving
<1>1. pc[v] \in Late => job[v].run \in DOMAIN runs
  BY RunIsThere DEF Late, Extracting
<1>2. CASE pc'[v] \in Late
  BY <1>1, <1>2, DerivingStays DEF Deriving
<1>3. CASE pc'[v] \notin Late
  BY <1>3 DEF DerivingAt, Late
<1> QED BY <1>2, <1>3

(* Every step keeps the handlers and what they derive in step. *)
LEMMA DerivingStep ==
  ASSUME Typing, Handed, OneJobPerRun, Deriving, [Next]_vars
  PROVE  Deriving'
<1>1. CASE Register
  BY DerivingKept, <1>1 DEF Register, Grows
<1>2. CASE Complete
  BY DerivingKept, <1>2 DEF Complete, Grows
<1>3. CASE Apply
  BY DerivingKept, <1>3 DEF Apply, Grows
<1>4. CASE ApplyEnqueue
  BY DerivingKept, <1>4 DEF ApplyEnqueue, Grows
<1>5. CASE Digitize
  BY DerivingKept, <1>5 DEF Digitize, Grows
<1>6. CASE DigitizeStatus
  BY DerivingKept, <1>6 DEF DigitizeStatus, Grows
<1>7. CASE Extract
  <2>1. \A n \in DOMAIN runs : runs'[n] = runs[n]
    BY NewRunType, <1>7 DEF Extract
  <2> QED BY <2>1, DerivingKept, <1>7 DEF Extract, Grows
<1>8. ASSUME NEW n \in DOMAIN runs, ExtractEnqueue(n)
      PROVE  Deriving'
  BY DerivingKept, <1>8 DEF ExtractEnqueue, Grows
<1>9. ASSUME NEW r \in halfway, Abandon(r)
      PROVE  Deriving'
  BY DerivingKept, <1>9 DEF Abandon, Grows
<1>10. ASSUME NEW w \in Worker, NEW j \in jobs, Take(w, j)
      PROVE  Deriving'
  <2>1. \A v \in Worker : pc'[v] \in Late => UNCHANGED <<pc[v], job[v], mine[v]>>
    BY <1>10 DEF Take, Late, Typing, TypeOK, HandsOK
  <2> QED BY <2>1, DerivingKept, <1>10 DEF Take, Grows
<1>11. ASSUME NEW w \in Worker, Fetch(w)
      PROVE  Deriving'
  <2>1. job[w].type \in JobType
    BY HeldType, <1>11 DEF Fetch, At, Job
  <2>2. \A v \in Worker : pc'[v] \in Late => UNCHANGED <<pc[v], job[v], mine[v]>>
    BY <2>1, <1>11 DEF Fetch, At, Late, JobType, Typing, TypeOK, HandsOK
  <2> QED BY <2>2, DerivingKept, <1>11 DEF Fetch, Grows
<1>12. ASSUME NEW w \in Worker, Insert(w)
      PROVE  Deriving'
  <2>1. \A v \in Worker : pc'[v] \in Late => UNCHANGED <<pc[v], job[v], mine[v]>>
    BY <1>12 DEF Insert, At, Late, Typing, TypeOK, HandsOK
  <2> QED BY <2>1, DerivingKept, <1>12 DEF Insert, Grows
<1>13. ASSUME NEW w \in Worker, Publish(w)
      PROVE  Deriving'
  <2>1. \A v \in Worker : pc'[v] \in Late => UNCHANGED <<pc[v], job[v], mine[v]>>
    BY <1>13 DEF Publish, FirstLink, At, Late, Typing, TypeOK, HandsOK
  <2> QED BY <2>1, DerivingKept, <1>13 DEF Publish, FirstLink, Grows
<1>14. ASSUME NEW w \in Worker, ChainTopology(w)
      PROVE  Deriving'
  <2>1. \A v \in Worker : pc'[v] \in Late => UNCHANGED <<pc[v], job[v], mine[v]>>
    BY <1>14 DEF ChainTopology, At, Late, Typing, TypeOK, HandsOK
  <2> QED BY <2>1, DerivingKept, <1>14 DEF ChainTopology, Grows
<1>15. ASSUME NEW w \in Worker, ChainMatch(w)
      PROVE  Deriving'
  <2>1. \A v \in Worker : pc'[v] \in Late => UNCHANGED <<pc[v], job[v], mine[v]>>
    BY <1>15 DEF ChainMatch, At, Late, Typing, TypeOK, HandsOK
  <2> QED BY <2>1, DerivingKept, <1>15 DEF ChainMatch, Grows
<1>16. ASSUME NEW w \in Worker, ChainRun(w)
      PROVE  Deriving'
  <2>1. \A v \in Worker : pc'[v] \in Late => UNCHANGED <<pc[v], job[v], mine[v]>>
    BY <1>16 DEF ChainRun, At, Late, Typing, TypeOK, HandsOK
  <2>2. \A n \in DOMAIN runs : runs'[n].result = runs[n].result
    BY NewRunType, <1>16 DEF ChainRun
  <2> QED BY <2>1, <2>2, DerivingKept, <1>16 DEF ChainRun, Grows
<1>17. ASSUME NEW w \in Worker, ChainExtract(w)
      PROVE  Deriving'
  <2>1. \A v \in Worker : pc'[v] \in Late => UNCHANGED <<pc[v], job[v], mine[v]>>
    BY <1>17 DEF ChainExtract, At, Late, Typing, TypeOK, HandsOK
  <2> QED BY <2>1, DerivingKept, <1>17 DEF ChainExtract, Grows
<1>18. ASSUME NEW w \in Worker, Preview(w)
      PROVE  Deriving'
  <2>1. \A v \in Worker : pc'[v] \in Late => UNCHANGED <<pc[v], job[v], mine[v]>>
    BY <1>18 DEF Preview, At, Late, Typing, TypeOK, HandsOK
  <2> QED BY <2>1, DerivingKept, <1>18 DEF Preview, Grows
<1>19. ASSUME NEW w \in Worker, Park(w)
      PROVE  Deriving'
  <2>1. \A v \in Worker : pc'[v] \in Late => UNCHANGED <<pc[v], job[v], mine[v]>>
    BY <1>19 DEF Park, At, Late, Typing, TypeOK, HandsOK
  <2> QED BY <2>1, DerivingKept, <1>19 DEF Park, Grows
<1>20. ASSUME NEW w \in Worker, Warp(w)
      PROVE  Deriving'
  <2>1. \A v \in Worker : pc'[v] \in Late => UNCHANGED <<pc[v], job[v], mine[v]>>
    BY <1>20 DEF Warp, At, Late, Typing, TypeOK, HandsOK
  <2> QED BY <2>1, DerivingKept, <1>20 DEF Warp, Grows
<1>21. ASSUME NEW w \in Worker, Locate(w)
      PROVE  Deriving'
  <2>1. \A v \in Worker : pc'[v] \in Late => UNCHANGED <<pc[v], job[v], mine[v]>>
    BY <1>21 DEF Locate, At, Late, Typing, TypeOK, HandsOK
  <2> QED BY <2>1, DerivingKept, <1>21 DEF Locate, Grows
<1>22. ASSUME NEW w \in Worker, ChainNormalize(w)
      PROVE  Deriving'
  <2>1. \A v \in Worker : pc'[v] \in Late => UNCHANGED <<pc[v], job[v], mine[v]>>
    BY <1>22 DEF ChainNormalize, At, Late, Typing, TypeOK, HandsOK
  <2> QED BY <2>1, DerivingKept, <1>22 DEF ChainNormalize, Grows
<1>23. ASSUME NEW w \in Worker, ReadFields(w)
      PROVE  Deriving'
  <2>1. \A v \in Worker : pc'[v] \in Late => UNCHANGED <<pc[v], job[v], mine[v]>>
    BY <1>23 DEF ReadFields, At, Late, Typing, TypeOK, HandsOK
  <2> QED BY <2>1, DerivingKept, <1>23 DEF ReadFields, Grows
<1>24. ASSUME NEW w \in Worker, Digitized(w)
      PROVE  Deriving'
  <2>1. \A v \in Worker : pc'[v] \in Late => UNCHANGED <<pc[v], job[v], mine[v]>>
    BY <1>24 DEF Digitized, At, Late, Typing, TypeOK, HandsOK
  <2> QED BY <2>1, DerivingKept, <1>24 DEF Digitized, Grows
<1>25. ASSUME NEW w \in Worker, ChainMapping(w)
      PROVE  Deriving'
  <2>1. \A v \in Worker : pc'[v] \in Late => UNCHANGED <<pc[v], job[v], mine[v]>>
    BY <1>25 DEF ChainMapping, At, Late, Typing, TypeOK, HandsOK
  <2> QED BY <2>1, DerivingKept, <1>25 DEF ChainMapping, Grows
<1>26. ASSUME NEW w \in Worker, BeginRun(w)
      PROVE  Deriving'
  <2>1. \A v \in Worker : pc'[v] \in Late => UNCHANGED <<pc[v], job[v], mine[v]>>
    BY <1>26 DEF BeginRun, At, Late, Typing, TypeOK, HandsOK
  <2>2. \A n \in DOMAIN runs : runs'[n].result = runs[n].result
    BY RunChanges, <1>26 DEF BeginRun
  <2> QED BY <2>1, <2>2, DerivingKept, <1>26 DEF BeginRun, Grows
<1>27. ASSUME NEW w \in Worker, Derive(w)
      PROVE  Deriving'
  <2>1. \A v \in Worker \ {w} : UNCHANGED <<pc[v], job[v], mine[v]>>
    BY <1>27 DEF Derive, At, Typing, TypeOK, HandsOK
  <2>2. UNCHANGED job[w] /\ job[w].run \in DOMAIN runs
    BY RunIsThere, <1>27 DEF Derive, At, Extracting
  <2>3. \A v \in Worker : pc[v] \in Late => job[v].run \in DOMAIN runs
    BY RunIsThere DEF Late, Extracting
  <2>5. Grows /\ Len(derived) + 1 \in DOMAIN derived'
    BY DeriveGrows, <1>27
  <2>6. pc'[w] = "fill" /\ mine'[w] = Len(derived) + 1 /\ UNCHANGED runs
    BY <1>27 DEF Derive, At, Typing, TypeOK, HandsOK
  <2>7. DerivingAt(w)'
    BY <2>5, <2>6 DEF DerivingAt, Late
  <2>8. \A v \in Worker \ {w} : DerivingAt(v)'
    BY <2>1, <2>5, <2>6, DerivingStays DEF Deriving
  <2> QED BY <2>7, <2>8 DEF Deriving
<1>28. ASSUME NEW w \in Worker, Fill(w)
      PROVE  Deriving'
  <2>1. \A v \in Worker \ {w} : UNCHANGED <<pc[v], job[v], mine[v]>>
    BY <1>28 DEF Fill, At, Typing, TypeOK, HandsOK
  <2>2. UNCHANGED job[w] /\ job[w].run \in DOMAIN runs
    BY RunIsThere, <1>28 DEF Fill, At, Extracting
  <2>3. \A v \in Worker : pc[v] \in Late => job[v].run \in DOMAIN runs
    BY RunIsThere DEF Late, Extracting
  <2>5. Grows /\ derived'[mine[w]].filled /\ mine[w] \in DOMAIN derived'
    BY FillGrows, <1>28
  <2>6. pc'[w] = "conclude" /\ UNCHANGED <<mine, runs>>
    BY <1>28 DEF Fill, At, Typing, TypeOK, HandsOK
  <2>7. DerivingAt(w)'
    BY <2>5, <2>6 DEF DerivingAt, Late
  <2>8. \A v \in Worker \ {w} : DerivingAt(v)'
    BY <2>1, <2>5, <2>6, DerivingStays DEF Deriving
  <2> QED BY <2>7, <2>8 DEF Deriving
<1>29. ASSUME NEW w \in Worker, Conclude(w)
      PROVE  Deriving'
  <2>1. \A v \in Worker \ {w} : UNCHANGED <<pc[v], job[v], mine[v]>>
    BY <1>29 DEF Conclude, At, Typing, TypeOK, HandsOK
  <2>2. UNCHANGED job[w] /\ job[w].run \in DOMAIN runs
    BY RunIsThere, <1>29 DEF Conclude, At, Extracting
  <2>3. \A v \in Worker : pc[v] \in Late => job[v].run \in DOMAIN runs
    BY RunIsThere DEF Late, Extracting
  <2>4. mine[w] \in DOMAIN derived /\ derived[mine[w]].filled
    BY <1>29 DEF Conclude, At, Deriving, DerivingAt, Late
  <2>5. \A v \in Worker \ {w} : pc[v] \in Late => job[v].run # job[w].run
    <3>1. Holds(w, job[w].run) /\ job[w].run \in Nat
      BY RunIsThere, <1>29 DEF Conclude, At, Extracting, Holds, Runs
    <3>2. \A v \in Worker : pc[v] \in Late => Holds(v, job[v].run)
      BY RunIsThere DEF Late, Extracting, Holds, Runs
    <3> QED BY <3>1, <3>2 DEF OneJobPerRun, OneJob
  <2>6. \A n \in DOMAIN runs :
          runs'[n] = IF n = job[w].run THEN [status |-> "done", result |-> mine[w]] ELSE runs[n]
    BY RunChanges, <1>29 DEF Conclude
  <2>7. pc'[w] = "derived topology" /\ UNCHANGED <<mine, derived>>
    BY <1>29 DEF Conclude, At, Typing, TypeOK, HandsOK
  <2>8. runs'[job[w].run].result = mine[w]
    BY <2>2, <2>6
  <2>9. DerivingAt(w)'
    BY <2>2, <2>4, <2>7, <2>8 DEF DerivingAt, Late
  <2>10. \A v \in Worker \ {w} : pc[v] \in Late => runs'[job[v].run] = runs[job[v].run]
    BY <2>3, <2>5, <2>6
  <2>11. \A v \in Worker \ {w} : DerivingAt(v)'
    BY <2>1, <2>7, <2>10, DerivingStays DEF Deriving, Grows
  <2> QED BY <2>9, <2>11 DEF Deriving
<1>30. ASSUME NEW w \in Worker, DerivedTopology(w)
      PROVE  Deriving'
  <2>1. \A v \in Worker \ {w} : UNCHANGED <<pc[v], job[v], mine[v]>>
    BY <1>30 DEF DerivedTopology, At, Typing, TypeOK, HandsOK
  <2>2. UNCHANGED job[w] /\ job[w].run \in DOMAIN runs
    BY RunIsThere, <1>30 DEF DerivedTopology, At, Extracting
  <2>3. \A v \in Worker : pc[v] \in Late => job[v].run \in DOMAIN runs
    BY RunIsThere DEF Late, Extracting
  <2>4. mine[w] \in DOMAIN derived /\ derived[mine[w]].filled /\ runs[job[w].run].result = mine[w]
    BY <1>30 DEF DerivedTopology, At, Deriving, DerivingAt, Late
  <2>5. Grows /\ "topology" \notin derived'[mine[w]].due
    BY DerivedTopologyGrows, <1>30
  <2>6. pc'[w] = "derived match" /\ UNCHANGED <<mine, runs>>
    BY <1>30 DEF DerivedTopology, At, Typing, TypeOK, HandsOK
  <2>7. DerivingAt(w)'
    BY <2>2, <2>4, <2>5, <2>6 DEF DerivingAt, Late, Grows
  <2>8. \A v \in Worker \ {w} : DerivingAt(v)'
    BY <2>1, <2>5, <2>6, DerivingStays DEF Deriving
  <2> QED BY <2>7, <2>8 DEF Deriving
<1>31. ASSUME NEW w \in Worker, DerivedMatch(w)
      PROVE  Deriving'
  <2>1. \A v \in Worker \ {w} : UNCHANGED <<pc[v], job[v], mine[v]>>
    BY <1>31 DEF DerivedMatch, At, Typing, TypeOK, HandsOK
  <2>2. UNCHANGED job[w] /\ job[w].run \in DOMAIN runs
    BY RunIsThere, <1>31 DEF DerivedMatch, At, Extracting
  <2>3. \A v \in Worker : pc[v] \in Late => job[v].run \in DOMAIN runs
    BY RunIsThere DEF Late, Extracting
  <2>5. Grows
    BY DerivedMatchGrows, <1>31
  <2>6. pc'[w] = "return" /\ UNCHANGED <<mine, runs>>
    BY <1>31 DEF DerivedMatch, At, Typing, TypeOK, HandsOK
  <2>7. DerivingAt(w)'
    BY <2>6 DEF DerivingAt, Late
  <2>8. \A v \in Worker \ {w} : DerivingAt(v)'
    BY <2>1, <2>5, <2>6, DerivingStays DEF Deriving
  <2> QED BY <2>7, <2>8 DEF Deriving
<1>32. ASSUME NEW w \in Worker, Return(w)
      PROVE  Deriving'
  <2>1. \A v \in Worker : pc'[v] \in Late => UNCHANGED <<pc[v], job[v], mine[v]>>
    BY <1>32 DEF Return, LetGo, Late, Typing, TypeOK, HandsOK
  <2> QED BY <2>1, DerivingKept, <1>32 DEF Return, Grows
<1>33. ASSUME NEW w \in Worker, Raise(w) \/ Unreadable(w)
      PROVE  Deriving'
  <2>0. Fails(w) /\ pc[w] \notin {"idle", "return"} /\ (failures \in Nat => failures' \in Nat)
    BY Failing, <1>33
  <2>1. \A v \in Worker : pc'[v] \in Late => UNCHANGED <<pc[v], job[v], mine[v]>>
    BY <2>0 DEF Fails, LetGo, Late, Typing, TypeOK, HandsOK
  <2>2. \A n \in DOMAIN runs : runs'[n].result = runs[n].result
    BY RunChanges, <2>0 DEF Fails
  <2> QED BY <2>1, <2>2, DerivingKept, <2>0 DEF Fails, Grows
<1>34. ASSUME NEW w \in Worker, Crash(w)
      PROVE  Deriving'
  <2>1. \A v \in Worker : pc'[v] \in Late => UNCHANGED <<pc[v], job[v], mine[v]>>
    BY <1>34 DEF Crash, LetGo, Late, Typing, TypeOK, HandsOK
  <2> QED BY <2>1, DerivingKept, <1>34 DEF Crash, Grows
<1>35. CASE UNCHANGED vars
  BY <1>35, DerivingKept DEF Grows
<1> QED
  BY <1>1, <1>2, <1>3, <1>4, <1>5, <1>6, <1>7, <1>8, <1>9, <1>10, <1>11, <1>12, <1>13, <1>14,
     <1>15, <1>16, <1>17, <1>18, <1>19, <1>20, <1>21, <1>22, <1>23, <1>24, <1>25, <1>26,
     <1>27, <1>28, <1>29, <1>30, <1>31, <1>32, <1>33, <1>34, <1>35
  DEF Next, SecondStatement, Work, Normalize, Georeference, DigitizeSource, ExtractFeatures


(* A step that concludes no run keeps what has been said of those that are *)
(* done, while somebody still attends to them.                             *)
LEMMA ConcludedKept ==
  ASSUME Concluded, Grows, stranded \subseteq stranded',
         \A n \in DOMAIN runs' : runs'[n].status = "done" => n \in DOMAIN runs /\ runs'[n] = runs[n],
         \A n \in DOMAIN runs' : runs'[n].status = "done" /\ Attended(n) => Attended(n)' \/ n \in stranded'
  PROVE  Concluded'
<1> SUFFICES ASSUME NEW n \in DOMAIN runs', runs'[n].status = "done"
             PROVE  /\ runs'[n].result \in DOMAIN derived'
                    /\ derived'[runs'[n].result].filled
                    /\ derived'[runs'[n].result].due = {} \/ n \in stranded' \/ Attended(n)'
  BY DEF Concluded
<1>1. n \in DOMAIN runs /\ runs'[n] = runs[n]
  OBVIOUS
<1>2. /\ runs[n].result \in DOMAIN derived
      /\ derived[runs[n].result].filled
      /\ derived[runs[n].result].due = {} \/ n \in stranded \/ Attended(n)
  BY <1>1 DEF Concluded
<1> QED BY <1>1, <1>2 DEF Grows

LEMMA AttendedStays ==
  ASSUME jobs \subseteq jobs', UNCHANGED <<pc, job>>, NEW n, Attended(n)
  PROVE  Attended(n)'
BY DEF Attended, Runs

(* A worker attends to its run until its handler returns. *)
LEMMA AttendedByWorkers ==
  ASSUME jobs \subseteq jobs', NEW w \in Worker,
         \A v \in Worker \ {w} : UNCHANGED <<pc[v], job[v]>>, UNCHANGED job[w],
         pc'[w] \notin {"idle", "return"} \/ job[w].type # "EXTRACT_FEATURES" \/ pc[w] = "return",
         NEW n, Attended(n)
  PROVE  Attended(n)'
BY DEF Attended, Runs, Carries

(* Every step keeps what has been said of the runs that are done. *)
LEMMA ConcludedStep ==
  ASSUME Typing, Handed, Deriving, Concluded, [Next]_vars
  PROVE  Concluded'
<1>1. CASE Register
  BY ConcludedKept, AttendedStays, <1>1 DEF Register, Grows
<1>2. CASE Complete
  <2>1. jobs \subseteq jobs'
    BY Enqueued, <1>2 DEF Complete
  <2> QED BY <2>1, ConcludedKept, AttendedStays, <1>2 DEF Complete, Grows
<1>3. CASE Apply
  BY ConcludedKept, AttendedStays, <1>3 DEF Apply, Grows
<1>4. CASE ApplyEnqueue
  <2>1. jobs \subseteq jobs'
    BY Enqueued, <1>4 DEF ApplyEnqueue
  <2> QED BY <2>1, ConcludedKept, AttendedStays, <1>4 DEF ApplyEnqueue, Grows
<1>5. CASE Digitize
  <2>1. jobs \subseteq jobs'
    BY Enqueued, <1>5 DEF Digitize
  <2> QED BY <2>1, ConcludedKept, AttendedStays, <1>5 DEF Digitize, Grows
<1>6. CASE DigitizeStatus
  BY ConcludedKept, AttendedStays, <1>6 DEF DigitizeStatus, Grows
<1>7. CASE Extract
  <2>1. \A n \in DOMAIN runs' : runs'[n].status = "done" => n \in DOMAIN runs /\ runs'[n] = runs[n]
    BY NewRunType, <1>7 DEF Extract, NewRun
  <2> QED BY <2>1, ConcludedKept, AttendedStays, <1>7 DEF Extract, Grows
<1>8. ASSUME NEW n \in DOMAIN runs, ExtractEnqueue(n)
      PROVE  Concluded'
  <2>1. jobs \subseteq jobs'
    BY Enqueued, <1>8 DEF ExtractEnqueue
  <2> QED BY <2>1, ConcludedKept, AttendedStays, <1>8 DEF ExtractEnqueue, Grows
<1>9. ASSUME NEW r \in halfway, Abandon(r)
      PROVE  Concluded'
  BY ConcludedKept, AttendedStays, <1>9 DEF Abandon, Grows
<1>10. ASSUME NEW w \in Worker, NEW j \in jobs, Take(w, j)
      PROVE  Concluded'
  <2>1. \A v \in Worker \ {w} : UNCHANGED <<pc[v], job[v]>>
    BY <1>10 DEF Take, Typing, TypeOK, HandsOK
  <2>2. job'[w] = j /\ pc'[w] \in {"run", "fetch"} /\ pc[w] = "idle" /\ jobs' = jobs \ {j}
    BY <1>10 DEF Take, Typing, TypeOK, HandsOK
  <2>3. \A n : Attended(n) => Attended(n)'
    BY <2>1, <2>2 DEF Attended, Runs
  <2> QED BY <2>3, ConcludedKept, <1>10 DEF Take, Grows
<1>11. ASSUME NEW w \in Worker, Fetch(w)
      PROVE  Concluded'
  <2>1. UNCHANGED job /\ \A v \in Worker \ {w} : UNCHANGED <<pc[v], job[v]>>
    BY <1>11 DEF Fetch, At, Typing, TypeOK, HandsOK
  <2>3. job[w].type \in JobType
    BY HeldType, <1>11 DEF Fetch, At, Job
  <2>2. pc'[w] \notin {"idle", "return"}
    BY <2>3, <1>11 DEF Fetch, At, JobType, Typing, TypeOK, HandsOK
  <2> QED BY <2>1, <2>2, ConcludedKept, AttendedByWorkers, <1>11 DEF Fetch, Grows
<1>12. ASSUME NEW w \in Worker, Insert(w)
      PROVE  Concluded'
  <2>1. UNCHANGED job /\ \A v \in Worker \ {w} : UNCHANGED <<pc[v], job[v]>>
    BY <1>12 DEF Insert, At, Typing, TypeOK, HandsOK
  <2>2. pc'[w] \notin {"idle", "return"}
    BY <1>12 DEF Insert, At, Typing, TypeOK, HandsOK
  <2> QED BY <2>1, <2>2, ConcludedKept, AttendedByWorkers, <1>12 DEF Insert, Grows
<1>13. ASSUME NEW w \in Worker, Publish(w)
      PROVE  Concluded'
  <2>1. UNCHANGED job /\ \A v \in Worker \ {w} : UNCHANGED <<pc[v], job[v]>>
    BY <1>13 DEF Publish, FirstLink, At, Typing, TypeOK, HandsOK
  <2>2. pc'[w] \notin {"idle", "return"}
    BY <1>13 DEF Publish, FirstLink, At, Typing, TypeOK, HandsOK
  <2> QED BY <2>1, <2>2, ConcludedKept, AttendedByWorkers, <1>13 DEF Publish, FirstLink, Grows
<1>14. ASSUME NEW w \in Worker, ChainTopology(w)
      PROVE  Concluded'
  <2>1. UNCHANGED job /\ \A v \in Worker \ {w} : UNCHANGED <<pc[v], job[v]>>
    BY <1>14 DEF ChainTopology, At, Typing, TypeOK, HandsOK
  <2>2. pc'[w] \notin {"idle", "return"}
    BY <1>14 DEF ChainTopology, At, Typing, TypeOK, HandsOK
  <2> QED BY <2>1, <2>2, ConcludedKept, AttendedByWorkers, <1>14 DEF ChainTopology, Grows
<1>15. ASSUME NEW w \in Worker, ChainMatch(w)
      PROVE  Concluded'
  <2>1. UNCHANGED job /\ \A v \in Worker \ {w} : UNCHANGED <<pc[v], job[v]>>
    BY <1>15 DEF ChainMatch, At, Typing, TypeOK, HandsOK
  <2>2. job[w].type # "EXTRACT_FEATURES"
    BY <1>15 DEF ChainMatch, At, Typing, Holding, Normalizing, Georeferencing
  <2> QED BY <2>1, <2>2, ConcludedKept, AttendedByWorkers, <1>15 DEF ChainMatch, Grows
<1>16. ASSUME NEW w \in Worker, ChainRun(w)
      PROVE  Concluded'
  <2>1. UNCHANGED job /\ \A v \in Worker \ {w} : UNCHANGED <<pc[v], job[v]>>
    BY <1>16 DEF ChainRun, At, Typing, TypeOK, HandsOK
  <2>2. pc'[w] \notin {"idle", "return"}
    BY <1>16 DEF ChainRun, At, Typing, TypeOK, HandsOK
  <2>3. \A n \in DOMAIN runs' : runs'[n].status = "done" => n \in DOMAIN runs /\ runs'[n] = runs[n]
    <3>1. runs' = Append(runs, NewRun)
      BY <1>16 DEF ChainRun
    <3>2. NewRun.status # "done"
      BY DEF NewRun
    <3> QED BY <3>1, <3>2, NewRunType
  <2> QED BY <2>1, <2>2, <2>3, ConcludedKept, AttendedByWorkers, <1>16 DEF ChainRun, Grows
<1>17. ASSUME NEW w \in Worker, ChainExtract(w)
      PROVE  Concluded'
  <2>1. UNCHANGED job /\ \A v \in Worker \ {w} : UNCHANGED <<pc[v], job[v]>>
    BY <1>17 DEF ChainExtract, At, Typing, TypeOK, HandsOK
  <2>2. job[w].type # "EXTRACT_FEATURES"
    BY <1>17 DEF ChainExtract, At, Typing, Holding, Normalizing, Georeferencing
  <2>3. jobs \subseteq jobs'
    BY Enqueued, <1>17 DEF ChainExtract
  <2> QED BY <2>1, <2>2, <2>3, ConcludedKept, AttendedByWorkers, <1>17 DEF ChainExtract, Grows
<1>18. ASSUME NEW w \in Worker, Preview(w)
      PROVE  Concluded'
  <2>1. UNCHANGED job /\ \A v \in Worker \ {w} : UNCHANGED <<pc[v], job[v]>>
    BY <1>18 DEF Preview, At, Typing, TypeOK, HandsOK
  <2>2. pc'[w] \notin {"idle", "return"}
    BY <1>18 DEF Preview, At, Typing, TypeOK, HandsOK
  <2> QED BY <2>1, <2>2, ConcludedKept, AttendedByWorkers, <1>18 DEF Preview, Grows
<1>19. ASSUME NEW w \in Worker, Park(w)
      PROVE  Concluded'
  <2>1. UNCHANGED job /\ \A v \in Worker \ {w} : UNCHANGED <<pc[v], job[v]>>
    BY <1>19 DEF Park, At, Typing, TypeOK, HandsOK
  <2>2. job[w].type # "EXTRACT_FEATURES"
    BY <1>19 DEF Park, At, Typing, Holding, Normalizing, Georeferencing
  <2> QED BY <2>1, <2>2, ConcludedKept, AttendedByWorkers, <1>19 DEF Park, Grows
<1>20. ASSUME NEW w \in Worker, Warp(w)
      PROVE  Concluded'
  <2>1. UNCHANGED job /\ \A v \in Worker \ {w} : UNCHANGED <<pc[v], job[v]>>
    BY <1>20 DEF Warp, At, Typing, TypeOK, HandsOK
  <2>2. pc'[w] \notin {"idle", "return"}
    BY <1>20 DEF Warp, At, Typing, TypeOK, HandsOK
  <2> QED BY <2>1, <2>2, ConcludedKept, AttendedByWorkers, <1>20 DEF Warp, Grows
<1>21. ASSUME NEW w \in Worker, Locate(w)
      PROVE  Concluded'
  <2>1. UNCHANGED job /\ \A v \in Worker \ {w} : UNCHANGED <<pc[v], job[v]>>
    BY <1>21 DEF Locate, At, Typing, TypeOK, HandsOK
  <2>2. pc'[w] \notin {"idle", "return"}
    BY <1>21 DEF Locate, At, Typing, TypeOK, HandsOK
  <2> QED BY <2>1, <2>2, ConcludedKept, AttendedByWorkers, <1>21 DEF Locate, Grows
<1>22. ASSUME NEW w \in Worker, ChainNormalize(w)
      PROVE  Concluded'
  <2>1. UNCHANGED job /\ \A v \in Worker \ {w} : UNCHANGED <<pc[v], job[v]>>
    BY <1>22 DEF ChainNormalize, At, Typing, TypeOK, HandsOK
  <2>2. job[w].type # "EXTRACT_FEATURES"
    BY <1>22 DEF ChainNormalize, At, Typing, Holding, Normalizing, Georeferencing
  <2>3. jobs \subseteq jobs'
    BY Enqueued, <1>22 DEF ChainNormalize
  <2> QED BY <2>1, <2>2, <2>3, ConcludedKept, AttendedByWorkers, <1>22 DEF ChainNormalize, Grows
<1>23. ASSUME NEW w \in Worker, ReadFields(w)
      PROVE  Concluded'
  <2>1. UNCHANGED job /\ \A v \in Worker \ {w} : UNCHANGED <<pc[v], job[v]>>
    BY <1>23 DEF ReadFields, At, Typing, TypeOK, HandsOK
  <2>2. pc'[w] \notin {"idle", "return"}
    BY <1>23 DEF ReadFields, At, Typing, TypeOK, HandsOK
  <2> QED BY <2>1, <2>2, ConcludedKept, AttendedByWorkers, <1>23 DEF ReadFields, Grows
<1>24. ASSUME NEW w \in Worker, Digitized(w)
      PROVE  Concluded'
  <2>1. UNCHANGED job /\ \A v \in Worker \ {w} : UNCHANGED <<pc[v], job[v]>>
    BY <1>24 DEF Digitized, At, Typing, TypeOK, HandsOK
  <2>2. pc'[w] \notin {"idle", "return"}
    BY <1>24 DEF Digitized, At, Typing, TypeOK, HandsOK
  <2> QED BY <2>1, <2>2, ConcludedKept, AttendedByWorkers, <1>24 DEF Digitized, Grows
<1>25. ASSUME NEW w \in Worker, ChainMapping(w)
      PROVE  Concluded'
  <2>1. UNCHANGED job /\ \A v \in Worker \ {w} : UNCHANGED <<pc[v], job[v]>>
    BY <1>25 DEF ChainMapping, At, Typing, TypeOK, HandsOK
  <2>2. job[w].type # "EXTRACT_FEATURES"
    BY <1>25 DEF ChainMapping, At, Typing, Holding, Normalizing, Georeferencing
  <2> QED BY <2>1, <2>2, ConcludedKept, AttendedByWorkers, <1>25 DEF ChainMapping, Grows
<1>26. ASSUME NEW w \in Worker, BeginRun(w)
      PROVE  Concluded'
  <2>1. UNCHANGED job /\ \A v \in Worker \ {w} : UNCHANGED <<pc[v], job[v]>>
    BY <1>26 DEF BeginRun, At, Typing, TypeOK, HandsOK
  <2>2. pc'[w] \notin {"idle", "return"}
    BY <1>26 DEF BeginRun, At, Typing, TypeOK, HandsOK
  <2>3. \A n \in DOMAIN runs' : runs'[n].status = "done" => n \in DOMAIN runs /\ runs'[n] = runs[n]
    BY RunChanges, <1>26 DEF BeginRun
  <2> QED BY <2>1, <2>2, <2>3, ConcludedKept, AttendedByWorkers, <1>26 DEF BeginRun, Grows
<1>27. ASSUME NEW w \in Worker, Derive(w)
      PROVE  Concluded'
  <2>1. UNCHANGED job /\ \A v \in Worker \ {w} : UNCHANGED <<pc[v], job[v]>>
    BY <1>27 DEF Derive, At, Typing, TypeOK, HandsOK
  <2>2. pc'[w] \notin {"idle", "return"}
    BY <1>27 DEF Derive, At, Typing, TypeOK, HandsOK
  <2>3. Grows
    BY DeriveGrows, <1>27
  <2> QED BY <2>1, <2>2, <2>3, ConcludedKept, AttendedByWorkers, <1>27 DEF Derive
<1>28. ASSUME NEW w \in Worker, Fill(w)
      PROVE  Concluded'
  <2>1. UNCHANGED job /\ \A v \in Worker \ {w} : UNCHANGED <<pc[v], job[v]>>
    BY <1>28 DEF Fill, At, Typing, TypeOK, HandsOK
  <2>2. pc'[w] \notin {"idle", "return"}
    BY <1>28 DEF Fill, At, Typing, TypeOK, HandsOK
  <2>3. Grows
    BY FillGrows, <1>28
  <2> QED BY <2>1, <2>2, <2>3, ConcludedKept, AttendedByWorkers, <1>28 DEF Fill
<1>29. ASSUME NEW w \in Worker, Conclude(w)
      PROVE  Concluded'
  <2>1. UNCHANGED <<job, mine, jobs, stranded, derived>> /\ \A v \in Worker \ {w} : UNCHANGED <<pc[v], job[v]>>
    BY <1>29 DEF Conclude, At, Typing, TypeOK, HandsOK
  <2>2. pc'[w] = "derived topology" /\ pc[w] = "conclude"
    BY <1>29 DEF Conclude, At, Typing, TypeOK, HandsOK
  <2>3. job[w].run \in DOMAIN runs /\ Carries(job[w], job[w].run)
    BY <2>2, RunIsThere DEF Extracting
  <2>4. /\ DOMAIN runs' = DOMAIN runs
        /\ \A n \in DOMAIN runs :
             runs'[n] = IF n = job[w].run THEN [status |-> "done", result |-> mine[w]] ELSE runs[n]
    BY RunChanges, <1>29 DEF Conclude
  <2>5. mine[w] \in DOMAIN derived /\ derived[mine[w]].filled
    BY <2>2 DEF Deriving, DerivingAt, Late
  <2>6. Attended(job[w].run)'
    BY <2>1, <2>2, <2>3 DEF Attended, Runs
  <2>7. \A n : Attended(n) => Attended(n)'
    BY <2>1, <2>2, AttendedByWorkers
  <2> SUFFICES ASSUME NEW n \in DOMAIN runs', runs'[n].status = "done"
               PROVE  /\ runs'[n].result \in DOMAIN derived'
                      /\ derived'[runs'[n].result].filled
                      /\ derived'[runs'[n].result].due = {} \/ n \in stranded' \/ Attended(n)'
    BY DEF Concluded
  <2>8. CASE n = job[w].run
    BY <2>1, <2>3, <2>4, <2>5, <2>6, <2>8
  <2>9. CASE n # job[w].run
    BY <2>1, <2>4, <2>7, <2>9 DEF Concluded
  <2> QED BY <2>8, <2>9
<1>30. ASSUME NEW w \in Worker, DerivedTopology(w)
      PROVE  Concluded'
  <2>1. UNCHANGED job /\ \A v \in Worker \ {w} : UNCHANGED <<pc[v], job[v]>>
    BY <1>30 DEF DerivedTopology, At, Typing, TypeOK, HandsOK
  <2>2. pc'[w] \notin {"idle", "return"}
    BY <1>30 DEF DerivedTopology, At, Typing, TypeOK, HandsOK
  <2>3. Grows
    BY DerivedTopologyGrows, <1>30
  <2> QED BY <2>1, <2>2, <2>3, ConcludedKept, AttendedByWorkers, <1>30 DEF DerivedTopology
<1>31. ASSUME NEW w \in Worker, DerivedMatch(w)
      PROVE  Concluded'
  <2>1. UNCHANGED <<job, mine, jobs, stranded, runs>> /\ \A v \in Worker \ {w} : UNCHANGED <<pc[v], job[v]>>
    BY <1>31 DEF DerivedMatch, At, Typing, TypeOK, HandsOK
  <2>2. pc'[w] = "return" /\ pc[w] = "derived match"
    BY <1>31 DEF DerivedMatch, At, Typing, TypeOK, HandsOK
  <2>3. Grows /\ derived'[mine[w]].due = derived[mine[w]].due \ {"match"}
    BY DerivedMatchGrows, <1>31
  <2>4. /\ mine[w] \in DOMAIN derived
        /\ runs[job[w].run].result = mine[w]
        /\ "topology" \notin derived[mine[w]].due
    BY <2>2 DEF Deriving, DerivingAt, Late
  <2>5. derived'[mine[w]].due = {}
    BY <2>3, <2>4, DerivedIsRecord
  <2>6. \A n : Attended(n) => Attended(n)' \/ n = job[w].run
    BY <2>1, <2>2 DEF Attended, Runs, Carries
  <2> SUFFICES ASSUME NEW n \in DOMAIN runs, runs[n].status = "done"
               PROVE  /\ runs[n].result \in DOMAIN derived'
                      /\ derived'[runs[n].result].filled
                      /\ derived'[runs[n].result].due = {} \/ n \in stranded \/ Attended(n)'
    BY <2>1 DEF Concluded
  <2>7. /\ runs[n].result \in DOMAIN derived
        /\ derived[runs[n].result].filled
        /\ derived[runs[n].result].due = {} \/ n \in stranded \/ Attended(n)
    BY DEF Concluded
  <2> QED BY <2>3, <2>4, <2>5, <2>6, <2>7 DEF Grows
<1>32. ASSUME NEW w \in Worker, Return(w)
      PROVE  Concluded'
  <2>1. \A v \in Worker \ {w} : UNCHANGED <<pc[v], job[v]>>
    BY <1>32 DEF Return, LetGo, Typing, TypeOK, HandsOK
  <2>2. \A n : Attended(n) => Attended(n)'
    BY <2>1, <1>32 DEF Return, Attended, Runs
  <2> QED BY <2>2, ConcludedKept, <1>32 DEF Return, Grows
<1>33. ASSUME NEW w \in Worker, Raise(w) \/ Unreadable(w)
      PROVE  Concluded'
  <2>0. Fails(w) /\ pc[w] \notin {"idle", "return"} /\ (failures \in Nat => failures' \in Nat)
    BY Failing, <1>33
  <2>1. \A v \in Worker \ {w} : UNCHANGED <<pc[v], job[v]>>
    BY <2>0 DEF Fails, LetGo, Typing, TypeOK, HandsOK
  <2>2. jobs \subseteq jobs' /\ stranded \subseteq stranded' /\ UNCHANGED derived
    BY <2>0 DEF Fails
  <2>3. \A n \in DOMAIN runs' : runs'[n].status = "done" =>
          n \in DOMAIN runs /\ runs'[n] = runs[n] /\ ~ (pc[w] \in Extracting /\ n = job[w].run)
    BY RunChanges, <2>0 DEF Fails
  <2>4. ASSUME NEW n \in DOMAIN runs', runs'[n].status = "done", Runs(w, n)
        PROVE  n \in stranded' \/ \E j \in jobs' : Carries(j, n)
    <3>1. pc[w] \in {"run", "fetch"} /\ job[w] \in Job /\ job[w].run = n
      <4>1. job[w].type = "EXTRACT_FEATURES" /\ job[w].run = n /\ pc[w] \notin {"idle", "return"}
        BY <2>4, <2>0 DEF Fails, Runs, Carries
      <4>2. pc[w] \notin Extracting
        BY <2>3, <2>4, <4>1
      <4>3. pc[w] \in {"fetch", "run"}
        BY <4>1, <4>2 DEF Typing, TypeOK, HandsOK, Holding, Uncaught
      <4> QED BY <4>1, <4>3, HeldType
    <3>2. CASE job[w].attempts + 1 < MaxAttempts
      <4>1. [job[w] EXCEPT !.attempts = @ + 1] \in jobs'
        BY <3>2, <2>0 DEF Fails, Retry
      <4>2. Carries([job[w] EXCEPT !.attempts = @ + 1], n)
        BY <3>1, <2>4 DEF Job, Runs, Carries
      <4> QED BY <4>1, <4>2
    <3>3. CASE ~ (job[w].attempts + 1 < MaxAttempts)
      <4>1. job[w].attempts + 1 = MaxAttempts
        BY <3>1, <3>3 DEF Job
      <4> QED BY <4>1, <3>1, <2>0 DEF Fails, Unrecorded, Uncaught
    <3> QED BY <3>2, <3>3
  <2>5. \A n \in DOMAIN runs' : runs'[n].status = "done" /\ Attended(n) => Attended(n)' \/ n \in stranded'
    BY <2>1, <2>2, <2>4 DEF Attended, Runs
  <2> QED BY <2>2, <2>3, <2>5, ConcludedKept DEF Grows
<1>34. ASSUME NEW w \in Worker, Crash(w)
      PROVE  Concluded'
  <2>1. \A v \in Worker \ {w} : UNCHANGED <<pc[v], job[v]>>
    BY <1>34 DEF Crash, LetGo, Typing, TypeOK, HandsOK
  <2>2. \A n : Attended(n) => Attended(n)'
    BY <2>1, <1>34 DEF Crash, Attended, Runs
  <2> QED BY <2>2, ConcludedKept, <1>34 DEF Crash, Grows
<1>35. CASE UNCHANGED vars
  BY <1>35, ConcludedKept, AttendedStays DEF Grows
<1> QED
  BY <1>1, <1>2, <1>3, <1>4, <1>5, <1>6, <1>7, <1>8, <1>9, <1>10, <1>11, <1>12, <1>13, <1>14,
     <1>15, <1>16, <1>17, <1>18, <1>19, <1>20, <1>21, <1>22, <1>23, <1>24, <1>25, <1>26,
     <1>27, <1>28, <1>29, <1>30, <1>31, <1>32, <1>33, <1>34, <1>35
  DEF Next, SecondStatement, Work, Normalize, Georeference, DigitizeSource, ExtractFeatures

-----------------------------------------------------------------------------
(* The theorems. *)

LEMMA Initially == Init => IInv
<1> SUFFICES ASSUME Init PROVE IInv
  OBVIOUS
<1>1. SourceOK
  <2>1. located \in BOOLEAN
    BY DEF Init
  <2>2. /\ kind \in Kind /\ status \in Status \cup {"none"} /\ key \in File
        /\ handed \in BOOLEAN /\ preview \in BOOLEAN /\ blind \in BOOLEAN
        /\ readied \in {"nobody", "normalize", "digitize"}
    BY DEF Init, Status, File
  <2> QED BY <2>1, <2>2 DEF SourceOK
<1>8. QueueOK /\ BoundsOK
  BY DEF Init, QueueOK, BoundsOK
<1>2. ExtractionOK
  BY DEF Init, ExtractionOK
<1>3. HandsOK
  BY DEF Init, HandsOK
<1>4. \A w \in Worker : pc[w] = "idle"
  BY DEF Init
<1>5. Holding /\ Placed /\ Handed /\ Deriving
  BY <1>4 DEF Init, Holding, Normalizing, Georeferencing, Extracting, Placed, Handed, Jobs,
     Hands, Halves,
     Deriving, DerivingAt, Late
<1>6. Chained /\ SheetsAreLocated
  BY DEF Init, Chained, SheetsAreLocated
<1>7. OneJobPerRun /\ Concluded
  BY <1>4 DEF Init, OneJobPerRun, OneJob, Holds, Runs, Chains, Promised, Concluded
<1> QED BY <1>1, <1>2, <1>3, <1>5, <1>6, <1>7, <1>8 DEF IInv, Typing, TypeOK

LEMMA Inductive == IInv /\ [Next]_vars => IInv'
BY TypingStep, HandedStep, PlacedStep, SheetsStep, ChainedStep, UniqueStep, DerivingStep,
   ConcludedStep
DEF IInv

(* Every value is of its type, whatever fails. *)
THEOREM TypeCorrect == Spec => []TypeOK
<1>1. IInv => TypeOK
  BY DEF IInv, Typing
<1> QED BY <1>1, Initially, Inductive, PTL DEF Spec

(* normalize_source makes nothing ready that has no CRS, and a source is    *)
(* parked without a preview only if control points were applied before      *)
(* there was one, whatever the clients ask for and in whatever order.       *)
THEOREM SheetsLocated == Spec => []SheetsAreLocated
<1>1. IInv => SheetsAreLocated
  BY DEF IInv
<1> QED BY <1>1, Initially, Inductive, PTL DEF Spec

(* What normalize_source has made ready, and digitize has not since, has    *)
(* had its successors queued once everything is quiet.                      *)
THEOREM ReadyChained == Spec => []ReadyIsChained
<1>1. IInv => ReadyIsChained
  <2> SUFFICES ASSUME IInv, Quiet, status = "ready", readied = "normalize", 0 \notin stranded, NEW d \in due
               PROVE  FALSE
    BY DEF ReadyIsChained
  <2>1. Ahead(d)
    BY DEF IInv, Chained
  <2> QED BY <2>1 DEF Quiet, Ahead, Queues
<1> QED BY <1>1, Initially, Inductive, PTL DEF Spec

(* extract_features: a run that is done names a source that has its features, *)
(* and whose successors were queued once everything is quiet.                 *)
THEOREM RunsTruthful == Spec => []RunsAreTruthful
<1>1. IInv => RunsAreTruthful
  <2>1. Quiet => \A n : ~ Attended(n)
    BY DEF Quiet, Attended, Runs
  <2> QED BY <2>1 DEF IInv, Concluded, RunsAreTruthful
<1> QED BY <1>1, Initially, Inductive, PTL DEF Spec
=============================================================================
