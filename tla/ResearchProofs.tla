---------------------------- MODULE ResearchProofs ----------------------------
(***************************************************************************)
(* Theorems about ResearchFlow, for every matrix of parameters, number of  *)
(* workers and slots, plan of windows and size of the channels:            *)
(*                                                                         *)
(*   RunsAlwaysKept  no run is lost, run twice or beyond the slots         *)
(*   ScoresAlwaysCount  what was reported ranks the runs, best first       *)
(*   WindowsAlwaysValidated  windows fit the plan, one is at work, and     *)
(*                   what it validates is the best of its training         *)
(*   ReportsAlwaysTell  what is published of an experiment is stored and   *)
(*                   complete, and a simulation tells its window; given    *)
(*                   more than one simulated path                          *)
(***************************************************************************)
EXTENDS ResearchFlow, SequenceTheorems, FiniteSetTheorems, WellFoundedInduction, TLAPS

(***************************************************************************)
(* The runs of the experiment engine. A run is on its way to the queue, in *)
(* it, with the worker that has taken it, or past its execution; the       *)
(* queues repeat nothing, and a slot is taken by each worker that          *)
(* executes.                                                               *)
(***************************************************************************)
Statuses == {"QUEUED", "RUNNING", "COMPLETED", "FAILED"}
Places == {"idle", "taken", "executing", "executed", "gone"}
Phases == {"", "experiment", "training", "validation"}
Runs == [phase : Phases, window : Int, n : Int]
WorkerRecords == [at : Places, run : Runs, failed : BOOLEAN]

Distinct(q) == \A m, n \in DOMAIN q : q[m] = q[n] => m = n
Apart(p, q) == \A m \in DOMAIN p, n \in DOMAIN q : p[m] # q[n]
Fresh(q) == \A n \in DOMAIN q : q[n] \in DOMAIN expRuns /\ expRuns[q[n]] = "QUEUED" /\ q[n] \notin running
Holding == {w \in Workers : workers[w].at \in {"taken", "executing"}}
Executing == {w \in Workers : workers[w].at = "executing"}

RunsTyped ==
  /\ expRuns \in [DOMAIN expRuns -> Statuses]
  /\ \A r \in DOMAIN expRuns : r \in Runs /\ r.phase = "experiment"
  /\ workers \in [Workers -> WorkerRecords]
  /\ toQueue \in Seq(Runs) /\ runQueue \in Seq(Runs)
  /\ Len(runQueue) <= 4 * Cardinality(Workers)
  /\ slots = Cardinality(Executing) /\ slots <= MaxConcurrentRuns

QueuesSound ==
  /\ Distinct(toQueue) /\ Distinct(runQueue) /\ Apart(toQueue, runQueue)
  /\ Fresh(toQueue) /\ Fresh(runQueue)

WorkersSound ==
  /\ running = {workers[w].run : w \in Holding}
  /\ \A v, w \in Holding : workers[v].run = workers[w].run => v = w
  /\ \A w \in Workers : workers[w].at \in {"taken", "executing", "executed"}
                          => workers[w].run \in DOMAIN expRuns
  /\ \A w \in Workers : workers[w].at \in {"executing", "executed"}
                          => expRuns[workers[w].run] # "QUEUED"
  /\ \A r \in pending : r \in DOMAIN expRuns /\ expRuns[r] # "QUEUED"

RunsInv == RunsTyped /\ QueuesSound /\ WorkersSound

LEMMA Counts ==
  /\ Cardinality(Workers) \in Nat /\ MaxConcurrentRuns \in Nat \ {0}
  /\ \A S \in SUBSET Workers : IsFiniteSet(S) /\ Cardinality(S) \in Nat
BY ExperimentConfig, FS_Subset, FS_CardinalityType

(* A sequence of runs, its first run, and the others.                      *)
LEMMA HeadTail ==
  ASSUME NEW q \in Seq(Runs), q # <<>>
  PROVE  /\ Head(q) = q[1] /\ 1 \in DOMAIN q /\ Head(q) \in Runs
         /\ Tail(q) \in Seq(Runs) /\ Len(Tail(q)) = Len(q) - 1
         /\ \A n \in DOMAIN Tail(q) : n + 1 \in DOMAIN q /\ Tail(q)[n] = q[n + 1] /\ n + 1 # 1
OBVIOUS

LEMMA Appended ==
  ASSUME NEW q \in Seq(Runs), NEW r \in Runs
  PROVE  /\ Append(q, r) \in Seq(Runs) /\ Len(Append(q, r)) = Len(q) + 1
         /\ Append(q, r)[Len(q) + 1] = r
         /\ \A n \in DOMAIN Append(q, r) :
              \/ n \in DOMAIN q /\ Append(q, r)[n] = q[n]
              \/ n = Len(q) + 1 /\ n \notin DOMAIN q /\ Append(q, r)[n] = r
OBVIOUS

LEMMA IdleTyped ==
  /\ Idle \in WorkerRecords /\ Idle.at = "idle"
  /\ [Idle EXCEPT !.at = "gone"] \in WorkerRecords /\ [Idle EXCEPT !.at = "gone"].at = "gone"
<1> DEFINE r == RunId("", 0, 0)
<1>1. r \in Runs
  <2> DEFINE nothing == ""
  <2>1. nothing \in Phases
    BY Zenon DEF Phases
  <2> HIDE DEF nothing
  <2>2. RunId(nothing, 0, 0) \in Runs
    BY <2>1 DEF RunId, Runs
  <2> QED
    BY <2>2 DEF nothing
<1>2. Idle = [at |-> "idle", run |-> r, failed |-> FALSE]
  BY Zenon DEF Idle
<1> HIDE DEF r
<1> QED
  BY <1>1, <1>2 DEF WorkerRecords, Places

LEMMA EnqueueKeeps == ASSUME RunsInv, Enqueue PROVE RunsInv'
<1> USE DEF RunsInv
<1>1. /\ toQueue \in Seq(Runs) /\ runQueue \in Seq(Runs) /\ toQueue # <<>>
      /\ toQueue' = Tail(toQueue) /\ runQueue' = Append(runQueue, Head(toQueue))
      /\ UNCHANGED <<expRuns, pending, running, slots, workers>>
  BY DEF RunsTyped, Enqueue, cacheVars
<1> DEFINE r == Head(toQueue)
<1>2. /\ r = toQueue[1] /\ 1 \in DOMAIN toQueue /\ r \in Runs
      /\ toQueue' \in Seq(Runs)
      /\ \A n \in DOMAIN toQueue' : n + 1 \in DOMAIN toQueue /\ toQueue'[n] = toQueue[n + 1]
                                      /\ n + 1 # 1 /\ n \in Nat
  BY <1>1, HeadTail
<1>3. /\ runQueue' \in Seq(Runs) /\ Len(runQueue') = Len(runQueue) + 1
      /\ \A n \in DOMAIN runQueue' :
           \/ n \in DOMAIN runQueue /\ runQueue'[n] = runQueue[n]
           \/ n = Len(runQueue) + 1 /\ n \notin DOMAIN runQueue /\ runQueue'[n] = r
  BY <1>1, <1>2, Appended
<1>4. Len(runQueue') <= 4 * Cardinality(Workers)
  BY <1>1, <1>3, Counts DEF Enqueue
<1>5. RunsTyped' /\ WorkersSound'
  BY <1>1, <1>2, <1>3, <1>4 DEF RunsTyped, WorkersSound, Holding, Executing
<1> HIDE DEF r
<1>6. QueuesSound'
  <2>1. Distinct(toQueue')
    BY <1>2 DEF QueuesSound, Distinct
  <2>2. \A n \in DOMAIN runQueue : runQueue[n] # r
    BY <1>2 DEF QueuesSound, Apart
  <2>3. Distinct(runQueue')
    BY <1>3, <2>2 DEF QueuesSound, Distinct
  <2>4. Apart(toQueue', runQueue')
    BY <1>2, <1>3 DEF QueuesSound, Apart, Distinct
  <2>5. Fresh(toQueue)' /\ Fresh(runQueue)'
    BY <1>1, <1>2, <1>3 DEF QueuesSound, Fresh
  <2> QED
    BY <2>1, <2>3, <2>4, <2>5 DEF QueuesSound
<1> QED
  BY <1>5, <1>6

LEMMA TakeKeeps == ASSUME RunsInv, NEW w \in Workers, Take(w) PROVE RunsInv'
<1> USE DEF RunsInv
<1> DEFINE r == Head(runQueue)
<1>1. /\ runQueue \in Seq(Runs) /\ runQueue # <<>> /\ runQueue' = Tail(runQueue)
      /\ workers \in [Workers -> WorkerRecords] /\ workers[w].at = "idle"
      /\ UNCHANGED <<expRuns, pending, toQueue, slots>>
  BY DEF RunsTyped, Take, cacheVars
<1>2. /\ r = runQueue[1] /\ 1 \in DOMAIN runQueue /\ r \in Runs
      /\ runQueue' \in Seq(Runs) /\ Len(runQueue') = Len(runQueue) - 1
      /\ \A n \in DOMAIN runQueue' : n + 1 \in DOMAIN runQueue /\ runQueue'[n] = runQueue[n + 1]
                                      /\ n + 1 # 1 /\ n \in Nat
  BY <1>1, HeadTail
<1>3. r \in DOMAIN expRuns /\ expRuns[r] = "QUEUED" /\ r \notin running
  BY <1>2 DEF QueuesSound, Fresh
<1>4. /\ running' = running \union {r}
      /\ workers' = [workers EXCEPT ![w] = [@ EXCEPT !.at = "taken", !.run = r]]
  BY <1>3 DEF Take
<1> HIDE DEF r
<1>5. /\ workers' \in [Workers -> WorkerRecords]
      /\ workers'[w] = [workers[w] EXCEPT !.at = "taken", !.run = r]
      /\ workers'[w].at = "taken" /\ workers'[w].run = r
      /\ \A v \in Workers \ {w} : workers'[v] = workers[v]
  BY <1>1, <1>2, <1>4 DEF WorkerRecords, Places
<1>6. Executing' = Executing /\ Holding' = Holding \union {w} /\ w \notin Holding
  <2>1. \A v \in Workers : v \in Executing' <=> v \in Executing
    BY <1>1, <1>5 DEF Executing
  <2>2. \A v \in Workers : v \in Holding' <=> v \in Holding \/ v = w
    BY <1>1, <1>5 DEF Holding
  <2>3. w \notin Holding
    BY <1>1 DEF Holding
  <2> QED
    BY <2>1, <2>2, <2>3 DEF Executing, Holding
<1>7. RunsTyped'
  BY <1>1, <1>2, <1>5, <1>6, Counts DEF RunsTyped
<1>8. WorkersSound'
  <2>1. running' = {workers'[v].run : v \in Holding'}
    BY <1>4, <1>5, <1>6 DEF WorkersSound
  <2>2. \A v \in Holding : workers'[v].run = workers[v].run /\ workers'[v].run # r
    BY <1>3, <1>5, <1>6 DEF WorkersSound, Holding
  <2>3. \A u, v \in Holding' : workers'[u].run = workers'[v].run => u = v
    <3>1. \A u, v \in Holding : workers'[u].run = workers'[v].run => u = v
      BY <2>2 DEF WorkersSound
    <3>2. \A v \in Holding : workers'[v].run # workers'[w].run
      BY <1>5, <2>2
    <3> QED
      BY <1>6, <3>1, <3>2
  <2> QED
    BY <1>1, <1>3, <1>5, <2>1, <2>3 DEF WorkersSound
<1>9. QueuesSound'
  <2>1. \A m \in DOMAIN toQueue : toQueue[m] # r
    BY <1>2 DEF QueuesSound, Apart
  <2>2. \A n \in DOMAIN runQueue' : runQueue'[n] # r
    BY <1>2 DEF QueuesSound, Distinct
  <2>3. Fresh(toQueue)' /\ Fresh(runQueue)'
    BY <1>1, <1>2, <1>4, <2>1, <2>2 DEF QueuesSound, Fresh
  <2>4. Distinct(runQueue')
    BY <1>2 DEF QueuesSound, Distinct
  <2>5. Apart(toQueue', runQueue')
    BY <1>1, <1>2 DEF QueuesSound, Apart
  <2> QED
    BY <1>1, <2>3, <2>4, <2>5 DEF QueuesSound
<1> QED
  BY <1>7, <1>8, <1>9

(* The other steps leave the queues alone, and change one worker.          *)
LEMMA QueuesStay ==
  ASSUME RunsInv, UNCHANGED <<toQueue, runQueue>>, running' \subseteq running,
         DOMAIN expRuns' = DOMAIN expRuns,
         \A r \in DOMAIN expRuns : expRuns[r] = "QUEUED" /\ r \notin running => expRuns'[r] = "QUEUED"
  PROVE  QueuesSound'
BY DEF RunsInv, QueuesSound, Fresh

LEMMA AcquireKeeps == ASSUME RunsInv, NEW w \in Workers, Acquire(w) PROVE RunsInv'
<1> USE DEF RunsInv
<1> DEFINE r == workers[w].run
<1>1. /\ workers \in [Workers -> WorkerRecords] /\ workers[w].at = "taken"
      /\ slots \in Nat /\ slots < MaxConcurrentRuns /\ slots' = slots + 1
      /\ expRuns' = [expRuns EXCEPT ![r] = "RUNNING"] /\ pending' = pending \union {r}
      /\ workers' = [workers EXCEPT ![w].at = "executing"]
      /\ UNCHANGED <<toQueue, runQueue, running>>
  BY Counts DEF RunsTyped, Acquire, SlotFree, Executing
<1>2. w \in Holding /\ r \in running /\ r \in DOMAIN expRuns
  BY <1>1 DEF WorkersSound, Holding
<1>3. /\ workers' \in [Workers -> WorkerRecords]
      /\ workers'[w].at = "executing" /\ workers'[w].run = r
      /\ \A v \in Workers \ {w} : workers'[v] = workers[v]
  BY <1>1 DEF WorkerRecords, Places
<1>4. /\ expRuns' \in [DOMAIN expRuns -> Statuses] /\ expRuns'[r] = "RUNNING"
      /\ \A s \in DOMAIN expRuns \ {r} : expRuns'[s] = expRuns[s]
  BY <1>1, <1>2 DEF RunsTyped, Statuses
<1> HIDE DEF r
<1>5. Executing' = Executing \union {w} /\ Holding' = Holding /\ w \notin Executing
  BY <1>1, <1>3 DEF Executing, Holding
<1>6. Cardinality(Executing') = Cardinality(Executing) + 1
  <2>1. IsFiniteSet(Executing)
    BY Counts DEF Executing
  <2> QED
    BY <1>5, <2>1, FS_AddElement
<1>7. RunsTyped'
  BY <1>1, <1>3, <1>4, <1>6, Counts DEF RunsTyped
<1>8. WorkersSound'
  <2>1. \A v \in Workers : workers'[v].run = workers[v].run
    BY <1>3 DEF r
  <2>2. running' = {workers'[v].run : v \in Holding'}
    BY <1>1, <1>5, <2>1 DEF WorkersSound, Holding
  <2>3. \A u, v \in Holding' : workers'[u].run = workers'[v].run => u = v
    BY <1>5, <2>1 DEF WorkersSound, Holding
  <2> QED
    BY <1>1, <1>2, <1>3, <1>4, <2>1, <2>2, <2>3 DEF WorkersSound
<1>9. QueuesSound'
  BY <1>1, <1>2, <1>4, QueuesStay
<1> QED
  BY <1>7, <1>8, <1>9

(* A worker that gives up, and one whose execution returns: its run is     *)
(* released, and the run of no other worker.                               *)
LEMMA Released ==
  ASSUME RunsInv, NEW w \in Holding, running' = running \ {workers[w].run},
         Holding' = Holding \ {w}, \A v \in Workers \ {w} : workers'[v] = workers[v]
  PROVE  /\ running' = {workers'[v].run : v \in Holding'}
         /\ \A u, v \in Holding' : workers'[u].run = workers'[v].run => u = v
<1>1. \A v \in Holding' : workers'[v] = workers[v] /\ v \in Holding /\ v # w
  BY DEF Holding
<1>2. \A v \in Holding' : workers[v].run # workers[w].run
  BY <1>1 DEF RunsInv, WorkersSound
<1>3. running = {workers[v].run : v \in Holding}
  BY DEF RunsInv, WorkersSound
<1>4. \A r : r \in running' <=> \E v \in Holding' : r = workers'[v].run
  BY <1>1, <1>2, <1>3
<1> QED
  BY <1>1, <1>4 DEF RunsInv, WorkersSound

LEMMA GiveUpKeeps ==
  ASSUME RunsInv, NEW w \in Workers, NEW stopped, GiveUp(w, stopped) PROVE RunsInv'
<1> USE DEF RunsInv
<1>1. /\ workers \in [Workers -> WorkerRecords] /\ workers[w].at = "taken"
      /\ running' = running \ {workers[w].run}
      /\ workers' = [workers EXCEPT ![w] = [Idle EXCEPT !.at = "gone"]]
      /\ UNCHANGED <<expRuns, pending, toQueue, runQueue, slots>>
  BY DEF RunsTyped, GiveUp, cacheVars
<1>2. /\ workers' \in [Workers -> WorkerRecords] /\ workers'[w].at = "gone"
      /\ \A v \in Workers \ {w} : workers'[v] = workers[v]
  BY <1>1, IdleTyped
<1>3. /\ Executing' = Executing /\ Holding' = Holding \ {w} /\ w \in Holding
  BY <1>1, <1>2 DEF Executing, Holding
<1>4. RunsTyped'
  BY <1>1, <1>2, <1>3 DEF RunsTyped
<1>5. WorkersSound'
  BY <1>1, <1>2, <1>3, Released DEF WorkersSound
<1>6. QueuesSound'
  BY <1>1, QueuesStay
<1> QED
  BY <1>4, <1>5, <1>6

LEMMA ExecutedKeeps ==
  ASSUME RunsInv, NEW w \in Workers, NEW failed \in BOOLEAN, Executed(w, failed) PROVE RunsInv'
<1> USE DEF RunsInv
<1>1. /\ workers \in [Workers -> WorkerRecords] /\ workers[w].at = "executing"
      /\ running' = running \ {workers[w].run} /\ slots' = slots - 1
      /\ workers' = [workers EXCEPT ![w] = [@ EXCEPT !.at = "executed", !.failed = failed]]
      /\ UNCHANGED <<expRuns, pending, toQueue, runQueue>>
  BY DEF RunsTyped, Executed, cacheVars
<1>2. /\ workers' \in [Workers -> WorkerRecords]
      /\ workers'[w].at = "executed" /\ workers'[w].run = workers[w].run
      /\ \A v \in Workers \ {w} : workers'[v] = workers[v]
  BY <1>1 DEF WorkerRecords, Places
<1>3. /\ Executing' = Executing \ {w} /\ Holding' = Holding \ {w}
      /\ w \in Holding /\ w \in Executing
  BY <1>1, <1>2 DEF Executing, Holding
<1>4. Cardinality(Executing') = Cardinality(Executing) - 1 /\ Cardinality(Executing) \in Nat
  <2>1. IsFiniteSet(Executing) /\ Cardinality(Executing) \in Nat
    BY Counts DEF Executing
  <2> QED
    BY <1>3, <2>1, FS_RemoveElement
<1>5. RunsTyped'
  BY <1>1, <1>2, <1>4, Counts DEF RunsTyped
<1>6. WorkersSound'
  <2>1. /\ running' = {workers'[v].run : v \in Holding'}
        /\ \A u, v \in Holding' : workers'[u].run = workers'[v].run => u = v
    BY <1>1, <1>2, <1>3, Released
  <2> QED
    BY <1>1, <1>2, <2>1 DEF WorkersSound
<1>7. QueuesSound'
  BY <1>1, QueuesStay
<1> QED
  BY <1>5, <1>6, <1>7

LEMMA RunCompleteKeeps == ASSUME RunsInv, NEW w \in Workers, OnRunComplete(w) PROVE RunsInv'
<1> USE DEF RunsInv
<1> DEFINE r == workers[w].run
<1>1. /\ workers \in [Workers -> WorkerRecords] /\ workers[w].at = "executed"
      /\ workers' = [workers EXCEPT ![w] = Idle]
      /\ UNCHANGED <<toQueue, runQueue, running, slots>>
      /\ \/ expRuns' = [expRuns EXCEPT ![r] = "FAILED"] /\ pending' = pending \ {r}
         \/ UNCHANGED <<expRuns, pending>>
  BY DEF RunsTyped, OnRunComplete
<1>2. r \in DOMAIN expRuns /\ expRuns[r] # "QUEUED"
  BY <1>1 DEF WorkersSound
<1> HIDE DEF r
<1>3. /\ workers' \in [Workers -> WorkerRecords] /\ workers'[w].at = "idle"
      /\ \A v \in Workers \ {w} : workers'[v] = workers[v]
  BY <1>1, IdleTyped
<1>4. /\ expRuns' \in [DOMAIN expRuns -> Statuses] /\ pending' \subseteq pending
      /\ \A s \in DOMAIN expRuns : expRuns'[s] = "QUEUED" <=> expRuns[s] = "QUEUED"
  BY <1>1, <1>2 DEF RunsTyped, Statuses
<1>5. Executing' = Executing /\ Holding' = Holding
  BY <1>1, <1>3 DEF Executing, Holding
<1>6. RunsTyped'
  BY <1>1, <1>3, <1>4, <1>5 DEF RunsTyped
<1>7. WorkersSound'
  <2>1. \A v \in Holding : workers'[v] = workers[v]
    BY <1>1, <1>3 DEF Holding
  <2> QED
    BY <1>1, <1>3, <1>4, <1>5, <2>1 DEF WorkersSound
<1>8. QueuesSound'
  BY <1>1, <1>4, QueuesStay
<1> QED
  BY <1>6, <1>7, <1>8

LEMMA QuitKeeps ==
  ASSUME RunsInv, NEW w \in Workers, NEW stopped, Quit(w, stopped) PROVE RunsInv'
<1> USE DEF RunsInv
<1>1. /\ workers \in [Workers -> WorkerRecords] /\ workers[w].at = "idle"
      /\ workers' = [workers EXCEPT ![w].at = "gone"]
      /\ UNCHANGED <<expRuns, pending, toQueue, runQueue, running, slots>>
  BY DEF RunsTyped, Quit, cacheVars
<1>2. /\ workers' \in [Workers -> WorkerRecords] /\ workers'[w].at = "gone"
      /\ \A v \in Workers \ {w} : workers'[v] = workers[v]
  BY <1>1 DEF WorkerRecords, Places
<1>3. Executing' = Executing /\ Holding' = Holding
  BY <1>1, <1>2 DEF Executing, Holding
<1>4. \A v \in Holding : workers'[v] = workers[v]
  BY <1>1, <1>2 DEF Holding
<1> QED
  BY <1>1, <1>2, <1>3, <1>4, QueuesStay DEF RunsTyped, WorkersSound

(* A run that completes was pending: it is no longer in a queue.           *)
LEMMA OptimizationKeepsRuns ==
  ASSUME RunsInv, NEW e, HandleOptimization(e), UNCHANGED schedulerVars PROVE RunsInv'
<1> USE DEF RunsInv
<1>1. UNCHANGED <<toQueue, runQueue, running, slots, workers>>
  BY DEF schedulerVars
<1>2. /\ expRuns' \in [DOMAIN expRuns -> Statuses] /\ pending' \subseteq pending
      /\ \A s \in DOMAIN expRuns : expRuns'[s] = "QUEUED" <=> expRuns[s] = "QUEUED"
  <2>1. CASE Completes(e)
    <3>1. e.run \in DOMAIN expRuns /\ expRuns[e.run] # "QUEUED"
      BY <2>1 DEF Completes, WorkersSound
    <3>2. expRuns' = [expRuns EXCEPT ![e.run] = "COMPLETED"] /\ pending' = pending \ {e.run}
      BY <2>1 DEF HandleOptimization, NoLongerPending
    <3> QED
      BY <3>1, <3>2 DEF RunsTyped, Statuses
  <2>2. CASE ~Completes(e)
    BY <2>2 DEF HandleOptimization, cacheVars, RunsTyped
  <2> QED
    BY <2>1, <2>2
<1>3. Executing' = Executing /\ Holding' = Holding
  BY <1>1 DEF Executing, Holding
<1> QED
  BY <1>1, <1>2, <1>3, QueuesStay DEF RunsTyped, WorkersSound

LEMMA RunsStart == FlowInit => RunsInv
<1> SUFFICES ASSUME FlowInit PROVE RunsInv
  OBVIOUS
<1> DEFINE on == "experiments" \in enabled
           n == Cardinality(GenerateMatrix)
           runs == IF on THEN RunsOf("experiment", 0) ELSE <<>>
<1>1. n \in Nat
  BY ExperimentConfig, FS_CardinalityType
<1>2. /\ expRuns = [r \in ToSet(runs) |-> "QUEUED"] /\ toQueue = runs
      /\ pending = {} /\ runQueue = <<>> /\ running = {} /\ slots = 0
      /\ workers = [w \in Workers |-> IF on THEN Idle ELSE [Idle EXCEPT !.at = "gone"]]
  BY DEF FlowInit, ExperimentsInit
<1> HIDE DEF n
<1>3. /\ runs \in Seq(Runs) /\ Distinct(runs) /\ ToSet(runs) = {runs[k] : k \in DOMAIN runs}
      /\ \A k \in DOMAIN runs : runs[k] \in Runs /\ runs[k].phase = "experiment"
  <2>1. CASE on
    <3>1. runs = [k \in 1 .. n |-> RunId("experiment", 0, k)]
      BY <2>1 DEF RunsOf, n
    <3> HIDE DEF runs, on
    <3>2. \A k \in 1 .. n : RunId("experiment", 0, k) \in Runs
      BY <1>1 DEF RunId, Runs, Phases
    <3>3. runs \in Seq(Runs) /\ DOMAIN runs = 1 .. n
      BY <1>1, <3>1, <3>2
    <3>4. \A k \in 1 .. n : runs[k].n = k /\ runs[k].phase = "experiment"
      BY <3>1 DEF RunId
    <3>5. Distinct(runs)
      BY <3>3, <3>4 DEF Distinct
    <3> QED
      BY <3>1, <3>2, <3>3, <3>4, <3>5 DEF ToSet
  <2>2. CASE ~on
    BY <2>2 DEF Distinct, ToSet
  <2> QED
    BY <2>1, <2>2
<1> HIDE DEF runs
<1>4. /\ workers \in [Workers -> WorkerRecords]
      /\ \A w \in Workers : workers[w].at \in {"idle", "gone"}
  BY <1>2, IdleTyped
<1>5. Holding = {} /\ Executing = {}
  BY <1>4 DEF Holding, Executing
<1>6. RunsTyped
  BY <1>2, <1>3, <1>4, <1>5, Counts, FS_EmptySet DEF RunsTyped, Statuses
<1>7. QueuesSound
  BY <1>2, <1>3 DEF QueuesSound, Distinct, Apart, Fresh
<1>8. WorkersSound
  BY <1>2, <1>4, <1>5 DEF WorkersSound
<1> QED
  BY <1>6, <1>7, <1>8 DEF RunsInv

LEMMA RunsStep == RunsInv /\ [FlowNext]_flowVars => RunsInv'
<1> SUFFICES ASSUME RunsInv, [FlowNext]_flowVars PROVE RunsInv'
  OBVIOUS
<1>1. CASE UNCHANGED experimentVars
  BY <1>1 DEF experimentVars, cacheVars, schedulerVars, RunsInv, RunsTyped, QueuesSound, WorkersSound,
              Distinct, Apart, Fresh, Holding, Executing
<1>2. CASE ExperimentSteps
  <2>1. ASSUME NEW w \in Workers, WorkerSteps(w, "experiments" \in cancelled) PROVE RunsInv'
    BY <2>1, TakeKeeps, AcquireKeeps, GiveUpKeeps, RunCompleteKeeps, QuitKeeps DEF WorkerSteps
  <2> QED
    BY <1>2, <2>1, EnqueueKeeps, ExecutedKeeps DEF ExperimentSteps
<1>3. CASE ExperimentsHandle
  BY <1>3, OptimizationKeepsRuns DEF ExperimentsHandle
<1> QED
  BY <1>1, <1>2, <1>3 DEF FlowNext, EngineSteps, Score, CloseBus, WindowSteps, WalkForwardHandles,
     MonteCarloHandles, ResearchHandles, Cancel, ConsumerEnds, Close, flowVars, worldVars, lifeVars

(* What the invariant is for.                                              *)
LEMMA RunsThen == RunsInv => RunsAccounted /\ ConcurrencyLimit /\ ExperimentsTypeOK
<1> SUFFICES ASSUME RunsInv PROVE RunsAccounted /\ ConcurrencyLimit /\ ExperimentsTypeOK
  OBVIOUS
<1> USE DEF RunsInv
<1> DEFINE waiting == toQueue \o runQueue
<1>1. /\ toQueue \in Seq(Runs) /\ runQueue \in Seq(Runs) /\ waiting \in Seq(Runs)
      /\ ToSet(waiting) = {waiting[n] : n \in DOMAIN waiting}
  BY DEF RunsTyped, ToSet
<1>2. \A n \in DOMAIN waiting :
        \/ n \in DOMAIN toQueue /\ waiting[n] = toQueue[n]
        \/ /\ n - Len(toQueue) \in DOMAIN runQueue /\ waiting[n] = runQueue[n - Len(toQueue)]
           /\ n \notin DOMAIN toQueue /\ n \in Nat /\ Len(toQueue) \in Nat
  BY <1>1
<1> HIDE DEF waiting
<1>3. \A m, n \in DOMAIN waiting : m < n => waiting[m] # waiting[n]
  <2> SUFFICES ASSUME NEW m \in DOMAIN waiting, NEW n \in DOMAIN waiting, m < n,
                      waiting[m] = waiting[n]
               PROVE  FALSE
    OBVIOUS
  <2>1. m \in Nat /\ n \in Nat /\ Len(toQueue) \in Nat
    BY <1>1
  <2> QED
    BY <1>2, <2>1 DEF QueuesSound, Distinct, Apart
<1>4. \A r \in ToSet(waiting) : expRuns[r] = "QUEUED" /\ r \notin running
  BY <1>1, <1>2 DEF QueuesSound, Fresh
<1>5. RunsAccounted
  BY <1>3, <1>4 DEF RunsAccounted, waiting, WorkersSound, Holding
<1>6. ConcurrencyLimit
  BY DEF ConcurrencyLimit, RunsTyped, WorkersSound, Holding, Executing
<1>7. ExperimentsTypeOK
  BY DEF ExperimentsTypeOK, RunsTyped, Statuses, WorkerRecords, Places
<1> QED
  BY <1>5, <1>6, <1>7

-----------------------------------------------------------------------------
(* Sequences, of what may be anything, and the channels.                   *)
IsSequence(q) == q \in Seq({q[n] : n \in DOMAIN q})

LEMMA SequenceOver == ASSUME NEW S, NEW q \in Seq(S) PROVE IsSequence(q)
<1>1. Len(q) \in Nat /\ DOMAIN q = 1 .. Len(q) /\ q \in [1 .. Len(q) -> {q[n] : n \in DOMAIN q}]
  BY LenProperties
<1> QED
  BY <1>1, SeqDef DEF IsSequence

(* A channel takes what it has room for, in order, at its end.             *)
LEMMA Offered ==
  ASSUME NEW q, IsSequence(q), Len(q) <= Buffer, NEW w, IsSequence(w)
  PROVE  /\ IsSequence(Offer(q, w)) /\ Len(Offer(q, w)) <= Buffer
         /\ Len(q) \in Nat /\ Len(w) \in Nat /\ DOMAIN q = 1 .. Len(q) /\ DOMAIN w = 1 .. Len(w)
         /\ \A n \in DOMAIN Offer(q, w) :
              \/ n \in DOMAIN q /\ Offer(q, w)[n] = q[n]
              \/ n - Len(q) \in DOMAIN w /\ Offer(q, w)[n] = w[n - Len(q)]
         /\ DOMAIN q \subseteq DOMAIN Offer(q, w)
         /\ ~(Len(q) + Len(w) > Buffer) => Len(Offer(q, w)) = Len(q) + Len(w)
         /\ DOMAIN Offer(q, w) = 1 .. Len(Offer(q, w)) /\ Len(Offer(q, w)) \in Nat
         /\ w = <<>> => Offer(q, w) = q
<1> DEFINE S == {q[n] : n \in DOMAIN q} \union {w[n] : n \in DOMAIN w}
           k == IF Len(q) + Len(w) > Buffer THEN Buffer ELSE Len(q) + Len(w)
<1>1. q \in Seq(S) /\ w \in Seq(S)
  BY SeqMonotonic DEF IsSequence
<1> HIDE DEF S
<1>2. /\ Len(q) \in Nat /\ Len(w) \in Nat /\ DOMAIN q = 1 .. Len(q) /\ DOMAIN w = 1 .. Len(w)
      /\ q \o w \in Seq(S) /\ Len(q \o w) = Len(q) + Len(w)
      /\ \A n \in 1 .. Len(q) + Len(w) :
           (q \o w)[n] = IF n <= Len(q) THEN q[n] ELSE w[n - Len(q)]
  BY <1>1, LenProperties, ConcatProperties
<1>3. k \in Nat /\ Len(q) <= k /\ k <= Len(q) + Len(w) /\ k <= Buffer
  BY <1>2, BufferPositive
<1>4. Offer(q, w) = SubSeq(q \o w, 1, k)
  BY DEF Offer
<1>5. /\ Offer(q, w) \in Seq(S) /\ Len(Offer(q, w)) = k /\ DOMAIN Offer(q, w) = 1 .. k
      /\ \A n \in 1 .. k : Offer(q, w)[n] = (q \o w)[n]
  BY <1>2, <1>3, <1>4
<1>6. w = <<>> => Offer(q, w) = q
  <2> SUFFICES ASSUME w = <<>> PROVE Offer(q, w) = q
    OBVIOUS
  <2>1. Len(w) = 0 /\ k = Len(q)
    BY <1>2, <1>3
  <2> QED
    BY <1>1, <1>2, <1>5, <2>1
<1>7. ~(Len(q) + Len(w) > Buffer) => k = Len(q) + Len(w)
  OBVIOUS
<1> HIDE DEF k
<1> QED
  BY <1>2, <1>3, <1>5, <1>6, <1>7, SequenceOver

LEMMA Joined ==
  ASSUME NEW q, IsSequence(q), NEW w, IsSequence(w)
  PROVE  /\ IsSequence(q \o w) /\ Len(q \o w) = Len(q) + Len(w)
         /\ SubSeq(q \o w, Len(q) + 1, Len(q \o w)) = w
         /\ SubSeq(q, Len(q) + 1, Len(q)) = <<>>
<1> DEFINE S == {q[n] : n \in DOMAIN q} \union {w[n] : n \in DOMAIN w}
<1>1. q \in Seq(S) /\ w \in Seq(S)
  BY SeqMonotonic DEF IsSequence
<1> HIDE DEF S
<1>2. q \o w \in Seq(S) /\ Len(q \o w) = Len(q) + Len(w) /\ Len(q) \in Nat /\ Len(w) \in Nat
  BY <1>1, ConcatProperties, LenProperties
<1>3. SubSeq(q \o w, Len(q) + 1, Len(q \o w)) = w /\ SubSeq(q, Len(q) + 1, Len(q)) = <<>>
  BY <1>1, <1>2
<1> QED
  BY <1>2, <1>3, SequenceOver

LEMMA Tailed ==
  ASSUME NEW q, IsSequence(q), q # <<>>
  PROVE  /\ IsSequence(Tail(q)) /\ Len(Tail(q)) = Len(q) - 1 /\ Len(q) \in Nat
         /\ Head(q) = q[1] /\ 1 \in DOMAIN q /\ DOMAIN q = 1 .. Len(q)
         /\ DOMAIN Tail(q) = 1 .. Len(q) - 1
         /\ \A n \in DOMAIN Tail(q) : n + 1 \in DOMAIN q /\ Tail(q)[n] = q[n + 1] /\ n \in Nat
<1> DEFINE S == {q[n] : n \in DOMAIN q}
<1>1. q \in Seq(S)
  BY DEF IsSequence
<1> HIDE DEF S
<1>2. /\ Tail(q) \in Seq(S) /\ Len(Tail(q)) = Len(q) - 1 /\ Len(q) \in Nat
      /\ Head(q) = q[1] /\ 1 \in DOMAIN q /\ DOMAIN q = 1 .. Len(q)
      /\ DOMAIN Tail(q) = 1 .. Len(q) - 1
      /\ \A n \in DOMAIN Tail(q) : n + 1 \in DOMAIN q /\ Tail(q)[n] = q[n + 1] /\ n \in Nat
  BY <1>1
<1> QED
  BY <1>2, SequenceOver

-----------------------------------------------------------------------------
(***************************************************************************)
(* What is under way to the engines is what they want, and an optimization *)
(* update under way is one that was reported; the engines that are closed  *)
(* were cancelled, and only those that run are.                            *)
(***************************************************************************)
Told(e, scores) ==
  e.type = "optimization" => e.run \in DOMAIN scores /\ e.score \in ToSet(scores[e.run])

BoxesSound ==
  /\ DOMAIN inbox = Engines
  /\ \A e \in Engines :
       /\ IsSequence(inbox[e]) /\ Len(inbox[e]) <= Buffer
       /\ \A n \in DOMAIN inbox[e] : inbox[e][n].type \in Wants[e] /\ Told(inbox[e][n], reported)

ReportedSound ==
  \A r \in DOMAIN reported : reported[r] \in Seq(Int) /\ reported[r] # <<>>

LifeSound == closed \subseteq cancelled /\ cancelled \subseteq enabled

FlowInv == BoxesSound /\ ReportedSound /\ LifeSound /\ IsSequence(published) /\ lost \in BOOLEAN

(* What an engine publishes in a step is of one type.                      *)
OfType(out, type) == IsSequence(out) /\ \A n \in DOMAIN out : out[n].type = type
Takes(from) == from \in Engines => inbox[from] # <<>>

LEMMA EngineNames ==
  /\ Engines = {"experiments", "walkforward", "montecarlo", "research"}
  /\ "" \notin Engines
  /\ Wants["experiments"] = {"optimization"} /\ Wants["walkforward"] = {"optimization"}
  /\ Wants["montecarlo"] = {"walkforward"}
  /\ Wants["research"] = {"optimization", "walkforward", "montecarlo"}
<1>1. "" \notin Engines
  BY Zenon DEF Engines
<1> QED
  BY <1>1 DEF Engines, Wants

LEMMA One == ASSUME NEW v PROVE IsSequence(<<v>>) /\ <<v>> # <<>> /\ Len(<<v>>) = 1 /\ DOMAIN <<v>> = {1} /\ <<v>>[1] = v
<1>1. <<v>> \in Seq({v}) /\ <<v>> # <<>> /\ Len(<<v>>) = 1 /\ DOMAIN <<v>> = {1} /\ <<v>>[1] = v
  OBVIOUS
<1>2. IsSequence(<<v>>)
  BY <1>1, SequenceOver, Zenon
<1> QED
  BY <1>1, <1>2, Zenon

LEMMA None == IsSequence(<<>>) /\ Len(<<>>) = 0 /\ DOMAIN <<>> = {}
<1>1. <<>> \in Seq({}) /\ Len(<<>>) = 0 /\ DOMAIN <<>> = {}
  OBVIOUS
<1>2. IsSequence(<<>>)
  BY <1>1, SequenceOver, Zenon
<1> QED
  BY <1>1, <1>2, Zenon

LEMMA QueueIs ==
  ASSUME BoxesSound, NEW from, Takes(from), NEW e \in Engines
  PROVE  /\ IsSequence(Queue(e, from)) /\ Len(Queue(e, from)) <= Buffer
         /\ \A n \in DOMAIN Queue(e, from) : \E m \in DOMAIN inbox[e] : Queue(e, from)[n] = inbox[e][m]
<1>1. CASE e = from
  <2>1. inbox[e] # <<>> /\ IsSequence(inbox[e]) /\ Len(inbox[e]) <= Buffer
    BY <1>1 DEF BoxesSound, Takes
  <2> QED
    BY <1>1, <2>1, Tailed, BufferPositive DEF Queue
<1>2. CASE e # from
  BY <1>2 DEF BoxesSound, Queue
<1> QED
  BY <1>1, <1>2

(* A publication: the channels that want it take what they have room for.  *)
LEMMA Publishes ==
  ASSUME BoxesSound, NEW out, NEW type, OfType(out, type), NEW from, Takes(from),
         Publish(out, from), NEW e \in Engines
  PROVE  /\ DOMAIN inbox' = Engines
         /\ inbox'[e] = Offer(Queue(e, from), Wanted(out, Listening[e]))
         /\ lost \in BOOLEAN => lost' \in BOOLEAN
         /\ ~lost' => ~lost /\ ~(Len(Queue(e, from)) + Len(Wanted(out, Listening[e])) > Buffer)
         /\ IsSequence(Wanted(out, Listening[e]))
         /\ Wanted(out, Listening[e]) = IF type \in Listening[e] THEN out ELSE <<>>
<1>1. /\ inbox' = [d \in Engines |-> Offer(Queue(d, from), Wanted(out, Listening[d]))]
      /\ lost' = (lost \/ \E d \in Engines :
                     Len(Queue(d, from)) + Len(Wanted(out, Listening[d])) > Buffer)
  BY DEF Publish, PublishTo, BoxesSound
<1>2. Wanted(out, Listening[e]) = IF type \in Listening[e] THEN out ELSE <<>>
  <2>1. CASE DOMAIN out = {}
    <3>1. out = <<>>
      BY <2>1 DEF OfType, IsSequence
    <3> QED
      BY <2>1, <3>1 DEF Wanted
  <2>2. CASE DOMAIN out # {}
    BY <2>2, Zenon DEF Wanted, OfType
  <2> QED
    BY <2>1, <2>2
<1>3. IsSequence(Wanted(out, Listening[e]))
  BY <1>2, None DEF OfType
<1> QED
  BY <1>1, <1>2, <1>3, Zenon

LEMMA PublishesSound ==
  ASSUME BoxesSound, NEW out, NEW type, OfType(out, type), NEW from, Takes(from),
         Publish(out, from),
         \A r \in DOMAIN reported : r \in DOMAIN reported' /\ ToSet(reported[r]) \subseteq ToSet(reported'[r]),
         \A n \in DOMAIN out : Told(out[n], reported')
  PROVE  BoxesSound'
<1>1. DOMAIN inbox' = Engines
  BY Publishes, EngineNames
<1>2. ASSUME NEW e \in Engines
      PROVE  /\ IsSequence(inbox'[e]) /\ Len(inbox'[e]) <= Buffer
             /\ \A n \in DOMAIN inbox'[e] : inbox'[e][n].type \in Wants[e] /\ Told(inbox'[e][n], reported')
  <2> DEFINE q == Queue(e, from)
             w == Wanted(out, Listening[e])
  <2>1. /\ IsSequence(q) /\ Len(q) <= Buffer
        /\ \A n \in DOMAIN q : \E m \in DOMAIN inbox[e] : q[n] = inbox[e][m]
    BY QueueIs
  <2>2. \A m \in DOMAIN inbox[e] : inbox[e][m].type \in Wants[e] /\ Told(inbox[e][m], reported')
    BY DEF BoxesSound, Told
  <2>3. IsSequence(w) /\ inbox'[e] = Offer(q, w)
    BY Publishes
  <2>4. \A n \in DOMAIN w : w[n].type \in Wants[e] /\ Told(w[n], reported')
    <3>1. type \in Listening[e] => type \in Wants[e]
      BY DEF Listening
    <3>2. w = IF type \in Listening[e] THEN out ELSE <<>>
      BY Publishes
    <3> HIDE DEF w
    <3>3. CASE type \in Listening[e]
      BY <3>1, <3>2, <3>3 DEF OfType
    <3>4. CASE type \notin Listening[e]
      BY <3>2, <3>4, None
    <3> QED
      BY <3>3, <3>4
  <2> HIDE DEF q, w
  <2>5. /\ IsSequence(Offer(q, w)) /\ Len(Offer(q, w)) <= Buffer
        /\ \A n \in DOMAIN Offer(q, w) :
             \/ n \in DOMAIN q /\ Offer(q, w)[n] = q[n]
             \/ n - Len(q) \in DOMAIN w /\ Offer(q, w)[n] = w[n - Len(q)]
    BY <2>1, <2>3, Offered
  <2> DEFINE o == Offer(q, w)
  <2> HIDE DEF o
  <2>6. \A n \in DOMAIN o : o[n].type \in Wants[e] /\ Told(o[n], reported')
    BY <2>1, <2>2, <2>4, <2>5 DEF o
  <2> QED
    BY <2>3, <2>5, <2>6 DEF o
<1> QED
  BY <1>1, <1>2 DEF BoxesSound

-----------------------------------------------------------------------------
LEMMA NothingOfType == ASSUME NEW type PROVE OfType(<<>>, type)
BY None DEF OfType

LEMMA OneOfType == ASSUME NEW v, NEW type, v.type = type PROVE OfType(<<v>>, type)
BY One, Zenon DEF OfType

(* What an engine publishes that is no optimization update leaves the      *)
(* channels sound.                                                         *)
PublishesOther(from) ==
  /\ \E out, type : OfType(out, type) /\ type # "optimization" /\ Publish(out, from)
  /\ Takes(from) /\ UNCHANGED <<reported, lifeVars, enabled>>

LEMMA OthersSound ==
  ASSUME FlowInv, NEW from, PublishesOther(from), IsSequence(published')
  PROVE  FlowInv'
<1> PICK out, type : OfType(out, type) /\ type # "optimization" /\ Publish(out, from)
  BY DEF PublishesOther
<1> Takes(from) /\ UNCHANGED <<reported, lifeVars, enabled>>
  BY DEF PublishesOther
<1>1. BoxesSound'
  <2>1. \A n \in DOMAIN out : Told(out[n], reported')
    BY DEF OfType, Told
  <2>2. \A r \in DOMAIN reported : r \in DOMAIN reported' /\ ToSet(reported[r]) \subseteq ToSet(reported'[r])
    OBVIOUS
  <2> QED
    BY <2>1, <2>2, PublishesSound DEF FlowInv
<1>2. lost' \in BOOLEAN
  BY Publishes, EngineNames DEF FlowInv
<1> QED
  BY <1>1, <1>2 DEF FlowInv, ReportedSound, LifeSound, lifeVars

(* Another score of a run.                                                 *)
LEMMA ScoreAdded ==
  ASSUME FlowInv, NEW run, NEW s \in Int, reported' = Stored(reported, run, Append(ScoresOf(run), s))
  PROVE  /\ ReportedSound' /\ DOMAIN reported' = DOMAIN reported \union {run}
         /\ s \in ToSet(reported'[run])
         /\ \A r \in DOMAIN reported :
              /\ r \in DOMAIN reported' /\ ToSet(reported[r]) \subseteq ToSet(reported'[r])
              /\ reported'[r][1] = reported[r][1]
         /\ run \notin DOMAIN reported => reported'[run][1] = s
<1>1. /\ DOMAIN reported' = DOMAIN reported \union {run}
      /\ reported'[run] = Append(ScoresOf(run), s)
      /\ \A r \in DOMAIN reported \ {run} : reported'[r] = reported[r]
  BY DEF Stored
<1> DEFINE old == ScoresOf(run)
<1>2. /\ old \in Seq(Int) /\ (run \in DOMAIN reported => old = reported[run] /\ old # <<>>)
      /\ (run \notin DOMAIN reported => old = <<>>)
  BY DEF ScoresOf, FlowInv, ReportedSound
<1> HIDE DEF old
<1>3. /\ Append(old, s) \in Seq(Int) /\ Append(old, s) # <<>>
      /\ DOMAIN Append(old, s) = 1 .. Len(old) + 1 /\ Len(old) \in Nat /\ DOMAIN old = 1 .. Len(old)
      /\ \A n \in DOMAIN old : Append(old, s)[n] = old[n]
      /\ Append(old, s)[Len(old) + 1] = s
      /\ (old # <<>> => 1 \in DOMAIN old) /\ (old = <<>> => Len(old) = 0)
  BY <1>2
<1>4. s \in ToSet(Append(old, s)) /\ ToSet(old) \subseteq ToSet(Append(old, s))
  BY <1>3 DEF ToSet
<1>5. ReportedSound'
  BY <1>1, <1>3 DEF FlowInv, ReportedSound, old
<1>6. ASSUME NEW r \in DOMAIN reported
      PROVE  /\ r \in DOMAIN reported' /\ ToSet(reported[r]) \subseteq ToSet(reported'[r])
             /\ reported'[r][1] = reported[r][1]
  <2>1. CASE r = run
    BY <1>1, <1>2, <1>3, <1>4, <2>1 DEF old
  <2>2. CASE r # run
    BY <1>1, <2>2
  <2> QED
    BY <2>1, <2>2
<1>7. s \in ToSet(reported'[run])
  BY <1>1, <1>4 DEF old
<1>8. run \notin DOMAIN reported => reported'[run][1] = s
  <2> SUFFICES ASSUME run \notin DOMAIN reported PROVE reported'[run][1] = s
    OBVIOUS
  <2>1. Len(old) = 0 /\ Append(old, s)[1] = s
    BY <1>2, <1>3
  <2> QED
    BY <1>1, <2>1 DEF old
<1> QED
  BY <1>1, <1>5, <1>6, <1>7, <1>8

LEMMA ScoreSound == FlowInv /\ enabled \in Configurations /\ Score => FlowInv'
<1> SUFFICES ASSUME FlowInv, enabled \in Configurations, Score PROVE FlowInv'
  OBVIOUS
<1>1. PICK run \in Started, s \in Scored[enabled] :
        /\ reported' = Stored(reported, run, Append(ScoresOf(run), s.score))
        /\ Publish(<< [type |-> "optimization", run |-> run, strategy |-> "trend_following",
                       score |-> s.score, metrics |-> s.metrics] >>, "")
  BY DEF Score
<1> DEFINE v == [type |-> "optimization", run |-> run, strategy |-> "trend_following",
                 score |-> s.score, metrics |-> s.metrics]
<1>2. s.score \in Int
  BY ScoresAreNumbers
<1>3. /\ ReportedSound' /\ DOMAIN reported' = DOMAIN reported \union {run}
      /\ s.score \in ToSet(reported'[run])
      /\ \A r \in DOMAIN reported : r \in DOMAIN reported' /\ ToSet(reported[r]) \subseteq ToSet(reported'[r])
  BY <1>1, <1>2, ScoreAdded
<1>4. v.type = "optimization" /\ v.run = run /\ v.score = s.score
  OBVIOUS
<1>5. Publish(<<v>>, "")
  BY <1>1
<1> HIDE DEF v
<1>6. OfType(<<v>>, "optimization")
  BY <1>4, OneOfType
<1>7. \A n \in DOMAIN <<v>> : Told(<<v>>[n], reported')
  BY <1>3, <1>4, One DEF Told
<1>8. Takes("")
  BY EngineNames, Zenon DEF Takes
<1>9. BoxesSound'
  BY <1>3, <1>5, <1>6, <1>7, <1>8, PublishesSound DEF FlowInv
<1>10. lost' \in BOOLEAN
  BY <1>5, <1>6, <1>8, Publishes, EngineNames DEF FlowInv
<1> QED
  BY <1>3, <1>9, <1>10 DEF Score, FlowInv, LifeSound, lifeVars, researchVars

LEMMA ExperimentsHandleOther == ExperimentsHandle => PublishesOther("experiments") /\ UNCHANGED published
<1> SUFFICES ASSUME ExperimentsHandle PROVE PublishesOther("experiments") /\ UNCHANGED published
  OBVIOUS
<1> DEFINE e == Next1("experiments")
           out == ExperimentUpdates(e)
<1>1. Publish(out, "experiments") /\ Takes("experiments")
  BY DEF ExperimentsHandle, Takes, Waiting
<1>2. OfType(out, "experiment")
  BY NothingOfType, OneOfType DEF ExperimentUpdates
<1> HIDE DEF out, e
<1>3. UNCHANGED <<reported, lifeVars, enabled, published>>
  BY DEF ExperimentsHandle, worldVars, researchVars
<1>4. "experiment" # "optimization"
  OBVIOUS
<1> QED
  BY <1>1, <1>2, <1>3, <1>4, Zenon DEF PublishesOther

LEMMA WalkForwardHandlesOther == WalkForwardHandles => PublishesOther("walkforward") /\ UNCHANGED published
<1> SUFFICES ASSUME WalkForwardHandles PROVE PublishesOther("walkforward") /\ UNCHANGED published
  OBVIOUS
<1> DEFINE e == Next1("walkforward")
           out == WalkForwardUpdates(e)
<1>1. Publish(out, "walkforward") /\ Takes("walkforward")
  BY DEF WalkForwardHandles, Takes, Waiting
<1>2. OfType(out, "walkforward")
  <2> DEFINE v == Validated(e)
  <2>1. out = IF Accepts(e) /\ e.run.phase = "validation"
              THEN << [type |-> "walkforward", window |-> v.window, best |-> v.best, training |-> v.training,
                       validation |-> v.validation, metrics |-> v.metrics] >>
              ELSE <<>>
    BY DEF WalkForwardUpdates
  <2> HIDE DEF v, out
  <2> QED
    BY <2>1, NothingOfType, OneOfType
<1> HIDE DEF out, e
<1>3. UNCHANGED <<reported, lifeVars, enabled, published>>
  BY DEF WalkForwardHandles, worldVars, researchVars
<1>4. "walkforward" # "optimization"
  OBVIOUS
<1> QED
  BY <1>1, <1>2, <1>3, <1>4, Zenon DEF PublishesOther

LEMMA MonteCarloHandlesOther == MonteCarloHandles => PublishesOther("montecarlo") /\ UNCHANGED published
<1> SUFFICES ASSUME MonteCarloHandles PROVE PublishesOther("montecarlo") /\ UNCHANGED published
  OBVIOUS
<1> DEFINE e == Next1("montecarlo")
<1>1. PICK out \in MonteCarloUpdates(e) : Publish(out, "montecarlo")
  BY DEF MonteCarloHandles
<1>2. Takes("montecarlo")
  BY DEF MonteCarloHandles, Takes, Waiting
<1>3. OfType(out, "montecarlo")
  BY NothingOfType, OneOfType DEF MonteCarloUpdates
<1> HIDE DEF e
<1>4. UNCHANGED <<reported, lifeVars, enabled, published>>
  BY DEF MonteCarloHandles, worldVars, researchVars
<1>5. "montecarlo" # "optimization"
  OBVIOUS
<1> QED
  BY <1>1, <1>2, <1>3, <1>4, <1>5, Zenon DEF PublishesOther

LEMMA ResearchHandlesOther ==
  FlowInv /\ ResearchHandles => PublishesOther("research") /\ IsSequence(published')
<1> SUFFICES ASSUME FlowInv, ResearchHandles PROVE PublishesOther("research") /\ IsSequence(published')
  OBVIOUS
<1> DEFINE e == Next1("research")
           out == SubSeq(published', Len(published) + 1, Len(published'))
<1>1. PICK n \in Succeeds(e) : HandleResearch(e, n) /\ Publish(out, "research")
  BY DEF ResearchHandles
<1>2. Takes("research")
  BY DEF ResearchHandles, Takes, Waiting
<1>3. OfType(out, "research") /\ IsSequence(published')
  <2>1. \/ published' = published
        \/ published' = published \o Reported(<<"window", e.window>>)
    BY <1>1 DEF HandleResearch, HandleOptimizationResult, HandleWindowResult, HandleSimulation
  <2> DEFINE new == Reported(<<"window", e.window>>)
  <2>2. OfType(new, "research")
    BY OneOfType DEF Reported
  <2> HIDE DEF new
  <2>3. IsSequence(published) /\ IsSequence(new) /\ IsSequence(<<>>)
    BY <2>2, None DEF FlowInv, OfType
  <2>4. CASE published' = published
    BY <2>3, <2>4, Joined, NothingOfType
  <2>5. CASE published' = published \o new
    BY <2>2, <2>3, <2>5, Joined
  <2> QED
    BY <2>1, <2>4, <2>5 DEF new
<1> HIDE DEF out, e
<1>4. UNCHANGED <<reported, lifeVars, enabled>>
  BY DEF ResearchHandles
<1>5. "research" # "optimization"
  OBVIOUS
<1> QED
  BY <1>1, <1>2, <1>3, <1>4, <1>5, Zenon DEF PublishesOther

LEMMA HandlersSound ==
  FlowInv /\ (ExperimentsHandle \/ WalkForwardHandles \/ MonteCarloHandles \/ ResearchHandles) => FlowInv'
<1>1. FlowInv /\ UNCHANGED published => IsSequence(published')
  BY DEF FlowInv
<1> QED
  BY <1>1, OthersSound, ExperimentsHandleOther, WalkForwardHandlesOther, MonteCarloHandlesOther,
     ResearchHandlesOther

(* Closing: engines are closed that were cancelled, and only those that    *)
(* run are.                                                                *)
LEMMA CloseSound == ASSUME FlowInv, NEW e \in Engines, Close(e) PROVE FlowInv'
<1>1. /\ closed' = closed \union {e} /\ e \in cancelled
      /\ inbox' = [inbox EXCEPT ![e] = <<>>]
      /\ UNCHANGED <<lost, cancelled, enabled, reported, published>>
  BY DEF Close, worldVars, researchVars
<1>2. BoxesSound'
  <2>1. DOMAIN inbox' = Engines /\ inbox'[e] = <<>> /\ \A d \in Engines \ {e} : inbox'[d] = inbox[d]
    BY <1>1 DEF FlowInv, BoxesSound
  <2>2. \A d \in Engines \ {e} :
          /\ IsSequence(inbox'[d]) /\ Len(inbox'[d]) <= Buffer
          /\ \A n \in DOMAIN inbox'[d] : inbox'[d][n].type \in Wants[d] /\ Told(inbox'[d][n], reported')
    BY <1>1, <2>1 DEF FlowInv, BoxesSound
  <2>3. /\ IsSequence(inbox'[e]) /\ Len(inbox'[e]) <= Buffer
        /\ \A n \in DOMAIN inbox'[e] : inbox'[e][n].type \in Wants[e] /\ Told(inbox'[e][n], reported')
    BY <2>1, None, BufferPositive
  <2> QED
    BY <2>1, <2>2, <2>3, Zenon DEF BoxesSound
<1> QED
  BY <1>1, <1>2 DEF FlowInv, LifeSound, ReportedSound

LEMMA CancelSound == FlowInv /\ Cancel => FlowInv'
<1> SUFFICES ASSUME FlowInv, Cancel PROVE FlowInv'
  OBVIOUS
<1>1. PICK n \in DOMAIN CloseOrder :
        IsNext(n, enabled \ closed) /\ cancelled' = cancelled \union {CloseOrder[n]}
  BY DEF Cancel
<1>2. CloseOrder[n] \in enabled
  BY <1>1 DEF IsNext
<1>3. UNCHANGED <<inbox, lost, closed, enabled, reported, published>>
  BY DEF Cancel, busVars, worldVars, researchVars
<1> QED
  BY <1>1, <1>2, <1>3 DEF FlowInv, BoxesSound, LifeSound, ReportedSound

LEMMA FlowStart == FlowInit => FlowInv
<1> SUFFICES ASSUME FlowInit PROVE FlowInv
  OBVIOUS
<1>1. /\ inbox = [e \in Engines |-> <<>>] /\ lost = FALSE /\ cancelled = {} /\ closed = {}
      /\ reported = <<>> /\ published = <<>>
  BY DEF FlowInit, ResearchInit
<1>2. DOMAIN inbox = Engines /\ \A e \in Engines : inbox[e] = <<>>
  BY <1>1
<1>3. \A e \in Engines : IsSequence(inbox[e]) /\ Len(inbox[e]) <= Buffer /\ DOMAIN inbox[e] = {}
  <2>1. Len(<<>>) <= Buffer
    BY BufferPositive
  <2> QED
    BY <1>2, <2>1, None, Zenon
<1>4. BoxesSound
  BY <1>2, <1>3, Zenon DEF BoxesSound
<1> QED
  BY <1>1, <1>4, None DEF FlowInv, ReportedSound, LifeSound

LEMMA FlowStep == FlowInv /\ enabled \in Configurations /\ [FlowNext]_flowVars => FlowInv'
<1> SUFFICES ASSUME FlowInv, enabled \in Configurations, [FlowNext]_flowVars PROVE FlowInv'
  OBVIOUS
<1>1. CASE UNCHANGED <<inbox, lost, reported, cancelled, closed, enabled, published>>
  BY <1>1 DEF FlowInv, BoxesSound, ReportedSound, LifeSound
<1>2. ASSUME NEW e \in Engines, ConsumerEnds(e)
      PROVE  UNCHANGED <<inbox, lost, reported, cancelled, closed, enabled, published>>
  BY <1>2 DEF ConsumerEnds, busVars, worldVars, researchVars
<1>3. ExperimentSteps \/ WindowSteps \/ CloseBus \/ UNCHANGED flowVars
        => UNCHANGED <<inbox, lost, reported, cancelled, closed, enabled, published>>
  BY DEF ExperimentSteps, WindowSteps, CloseBus, flowVars, busVars, lifeVars, worldVars, researchVars
<1> QED
  BY <1>1, <1>2, <1>3, ScoreSound, HandlersSound, CloseSound, CancelSound DEF FlowNext, EngineSteps

-----------------------------------------------------------------------------
(***************************************************************************)
(* The first score of a run counts. As long as no event was lost, the      *)
(* first update of a run that an engine has yet to hear is the first that  *)
(* was reported, and one is under way when there was any; a run that has   *)
(* not begun is not reported at all.                                       *)
(***************************************************************************)
Opens(q, r, scores) ==
  \A n \in DOMAIN q : q[n].run = r /\ (\A m \in DOMAIN q : m < n => q[m].run # r)
                        => q[n].score = scores[r][1]
Among(q, r) == \E n \in DOMAIN q : q[n].run = r
HeardFirst(e, r) ==
  /\ Opens(inbox[e], r, reported)
  /\ r \in DOMAIN reported /\ Listening[e] # {} => Among(inbox[e], r)

LEMMA OpensTail ==
  ASSUME NEW q, IsSequence(q), q # <<>>, NEW r, Head(q).run # r, NEW scores, Opens(q, r, scores)
  PROVE  Opens(Tail(q), r, scores) /\ (Among(q, r) => Among(Tail(q), r))
<1>1. /\ Len(q) \in Nat /\ Head(q) = q[1] /\ DOMAIN q = 1 .. Len(q) /\ DOMAIN Tail(q) = 1 .. Len(q) - 1
      /\ \A n \in DOMAIN Tail(q) : n + 1 \in DOMAIN q /\ Tail(q)[n] = q[n + 1] /\ n \in Nat
  BY Tailed
<1> DEFINE t == Tail(q)
<1> HIDE DEF t
<1>2. Opens(t, r, scores)
  <2> SUFFICES ASSUME NEW n \in DOMAIN t, t[n].run = r, \A m \in DOMAIN t : m < n => t[m].run # r
               PROVE  t[n].score = scores[r][1]
    BY DEF Opens
  <2>1. n + 1 \in DOMAIN q /\ t[n] = q[n + 1] /\ n \in Nat
    BY <1>1 DEF t
  <2>2. ASSUME NEW m \in DOMAIN q, m < n + 1 PROVE q[m].run # r
    <3>1. CASE m = 1
      BY <1>1, <3>1
    <3>2. CASE m # 1
      <4>1. m - 1 \in DOMAIN t /\ m - 1 < n /\ m = (m - 1) + 1
        BY <1>1, <2>1, <2>2, <3>2 DEF t
      <4> QED
        BY <1>1, <4>1 DEF t
    <3> QED
      BY <3>1, <3>2
  <2> QED
    BY <2>1, <2>2 DEF Opens
<1>3. Among(q, r) => Among(t, r)
  <2> SUFFICES ASSUME NEW n \in DOMAIN q, q[n].run = r PROVE \E m \in DOMAIN t : t[m].run = r
    BY DEF Among
  <2>1. n # 1
    BY <1>1
  <2>2. n - 1 \in DOMAIN t /\ n = (n - 1) + 1
    BY <1>1, <2>1 DEF t
  <2>3. t[n - 1] = q[n]
    BY <1>1, <2>2 DEF t
  <2> QED
    BY <2>2, <2>3
<1> QED
  BY <1>2, <1>3 DEF t

LEMMA OpensOffered ==
  ASSUME NEW q, IsSequence(q), Len(q) <= Buffer, NEW v, ~(Len(q) + 1 > Buffer), NEW r,
         NEW scores, NEW later, Opens(q, r, scores),
         Among(q, r) => later[r][1] = scores[r][1],
         v.run = r /\ ~Among(q, r) => v.score = later[r][1]
  PROVE  /\ Opens(Offer(q, <<v>>), r, later)
         /\ Among(q, r) \/ v.run = r => Among(Offer(q, <<v>>), r)
<1> DEFINE o == Offer(q, <<v>>)
<1>1. /\ Len(q) \in Nat /\ DOMAIN q = 1 .. Len(q) /\ DOMAIN o = 1 .. Len(q) + 1
      /\ DOMAIN q \subseteq DOMAIN o
      /\ \A n \in DOMAIN o : \/ n \in DOMAIN q /\ o[n] = q[n]
                             \/ n - Len(q) \in {1} /\ o[n] = <<v>>[n - Len(q)]
  <2> DEFINE w == <<v>>
  <2>1. IsSequence(w) /\ Len(w) = 1 /\ DOMAIN w = {1}
    BY One
  <2> HIDE DEF w
  <2>2. /\ Len(q) \in Nat /\ DOMAIN q = 1 .. Len(q) /\ DOMAIN q \subseteq DOMAIN Offer(q, w)
        /\ ~(Len(q) + Len(w) > Buffer) => Len(Offer(q, w)) = Len(q) + Len(w)
        /\ DOMAIN Offer(q, w) = 1 .. Len(Offer(q, w))
        /\ \A n \in DOMAIN Offer(q, w) :
             \/ n \in DOMAIN q /\ Offer(q, w)[n] = q[n]
             \/ n - Len(q) \in DOMAIN w /\ Offer(q, w)[n] = w[n - Len(q)]
    BY <2>1, Offered
  <2> QED
    BY <2>1, <2>2 DEF w
<1>2. /\ \A n \in DOMAIN q : n \in DOMAIN o /\ o[n] = q[n] /\ n < Len(q) + 1
      /\ Len(q) + 1 \in DOMAIN o /\ o[Len(q) + 1] = v
      /\ \A n \in DOMAIN o : n \in DOMAIN q \/ n = Len(q) + 1
  <2>1. \A n \in DOMAIN q : n - Len(q) # 1
    BY <1>1
  <2>2. (Len(q) + 1) - Len(q) = 1 /\ Len(q) + 1 \notin DOMAIN q
    BY <1>1
  <2>3. <<v>>[1] = v
    OBVIOUS
  <2> HIDE DEF o
  <2> QED
    BY <1>1, <2>1, <2>2, <2>3
<1> HIDE DEF o
<1>3. Opens(o, r, later)
  <2> SUFFICES ASSUME NEW n \in DOMAIN o, o[n].run = r, \A m \in DOMAIN o : m < n => o[m].run # r
               PROVE  o[n].score = later[r][1]
    BY DEF Opens
  <2>1. CASE n \in DOMAIN q
    <3>1. q[n].run = r /\ Among(q, r) /\ \A m \in DOMAIN q : m < n => q[m].run # r
      BY <1>2, <2>1 DEF Among
    <3> QED
      BY <1>2, <2>1, <3>1 DEF Opens
  <2>2. CASE n = Len(q) + 1
    <3>1. ~Among(q, r)
      BY <1>2, <2>2 DEF Among
    <3> QED
      BY <1>2, <2>2, <3>1
  <2> QED
    BY <1>2, <2>1, <2>2
<1>4. Among(q, r) \/ v.run = r => Among(o, r)
  BY <1>2 DEF Among
<1> QED
  BY <1>3, <1>4 DEF o

(* What was heard first stays so, whatever else happens, until the engine  *)
(* handles an update of the run.                                           *)
Hearers == {"experiments", "walkforward"}
LEMMA HearersWant == Hearers \subseteq Engines /\ \A e \in Hearers : Wants[e] = {"optimization"}
BY EngineNames DEF Hearers

LEMMA OthersHeard ==
  ASSUME FlowInv, NEW from \in Engines, PublishesOther(from), NEW e \in Hearers, NEW r,
         HeardFirst(e, r), e = from => Head(inbox[e]).run # r
  PROVE  HeardFirst(e, r)'
<1> PICK out, type : OfType(out, type) /\ type # "optimization" /\ Publish(out, from)
  BY DEF PublishesOther
<1>1. Takes(from) /\ UNCHANGED <<reported, lifeVars, enabled>> /\ BoxesSound
  BY DEF PublishesOther, FlowInv
<1>2. inbox'[e] = Queue(e, from)
  <2>1. /\ inbox'[e] = Offer(Queue(e, from), Wanted(out, Listening[e]))
        /\ Wanted(out, Listening[e]) = IF type \in Listening[e] THEN out ELSE <<>>
    BY <1>1, Publishes, HearersWant
  <2>2. type \notin Listening[e]
    BY HearersWant DEF Listening
  <2>3. IsSequence(Queue(e, from)) /\ Len(Queue(e, from)) <= Buffer
    BY <1>1, QueueIs, HearersWant
  <2> QED
    BY <2>1, <2>2, <2>3, None, Offered
<1>3. Listening' = Listening
  BY <1>1 DEF Listening, lifeVars
<1>4. CASE e = from
  <2>1. inbox[e] # <<>> /\ IsSequence(inbox[e]) /\ inbox'[e] = Tail(inbox[e])
    BY <1>1, <1>2, <1>4 DEF Takes, BoxesSound, Queue
  <2> QED
    BY <1>1, <1>3, <1>4, <2>1, OpensTail DEF HeardFirst
<1>5. CASE e # from
  BY <1>1, <1>2, <1>3, <1>5 DEF HeardFirst, Queue
<1> QED
  BY <1>4, <1>5

LEMMA ScoreHeard ==
  ASSUME FlowInv, enabled \in Configurations, Score, ~lost', NEW e \in Hearers, NEW r, HeardFirst(e, r)
  PROVE  HeardFirst(e, r)'
<1>1. PICK run \in Started, s \in Scored[enabled] :
        /\ reported' = Stored(reported, run, Append(ScoresOf(run), s.score))
        /\ Publish(<< [type |-> "optimization", run |-> run, strategy |-> "trend_following",
                       score |-> s.score, metrics |-> s.metrics] >>, "")
  BY DEF Score
<1> DEFINE v == [type |-> "optimization", run |-> run, strategy |-> "trend_following",
                 score |-> s.score, metrics |-> s.metrics]
<1>2. v.type = "optimization" /\ v.run = run /\ v.score = s.score /\ Publish(<<v>>, "") /\ s.score \in Int
  BY <1>1, ScoresAreNumbers
<1>3. /\ DOMAIN reported' = DOMAIN reported \union {run}
      /\ \A x \in DOMAIN reported : reported'[x][1] = reported[x][1]
      /\ run \notin DOMAIN reported => reported'[run][1] = s.score
  BY <1>1, <1>2, ScoreAdded
<1> HIDE DEF v
<1> DEFINE q == inbox[e]
<1>4. /\ IsSequence(q) /\ Len(q) <= Buffer
      /\ \A n \in DOMAIN q : q[n].run \in DOMAIN reported
  BY HearersWant DEF FlowInv, BoxesSound, Told
<1>5. /\ inbox'[e] = Offer(q, Wanted(<<v>>, Listening[e]))
      /\ ~(Len(q) + Len(Wanted(<<v>>, Listening[e])) > Buffer)
      /\ Wanted(<<v>>, Listening[e]) = IF "optimization" \in Listening[e] THEN <<v>> ELSE <<>>
  <2>1. OfType(<<v>>, "optimization") /\ Takes("") /\ BoxesSound /\ e \in Engines
    BY <1>2, OneOfType, EngineNames, HearersWant, Zenon DEF Takes, FlowInv
  <2>2. Queue(e, "") = q
    BY EngineNames, HearersWant DEF Queue
  <2> DEFINE w == <<v>>
  <2>3. OfType(w, "optimization") /\ Publish(w, "")
    BY <1>2, <2>1
  <2> HIDE DEF w
  <2>4. /\ inbox'[e] = Offer(Queue(e, ""), Wanted(w, Listening[e]))
        /\ ~(Len(Queue(e, "")) + Len(Wanted(w, Listening[e])) > Buffer)
        /\ Wanted(w, Listening[e]) = IF "optimization" \in Listening[e] THEN w ELSE <<>>
    BY <2>1, <2>3, Publishes
  <2> QED
    BY <2>2, <2>4 DEF w
<1>6. Listening' = Listening /\ (Listening[e] # {} <=> "optimization" \in Listening[e])
  BY HearersWant DEF Listening, Score, lifeVars
<1>7. Opens(q, r, reported) /\ (r \in DOMAIN reported /\ Listening[e] # {} => Among(q, r))
  BY DEF HeardFirst
<1>8. (Among(q, r) => r \in DOMAIN reported)
  BY <1>4 DEF Among
<1> HIDE DEF q
<1>9. CASE "optimization" \in Listening[e]
  <2>1. inbox'[e] = Offer(q, <<v>>) /\ ~(Len(q) + 1 > Buffer)
    BY <1>5, <1>9, One
  <2>2. /\ Among(q, r) => reported'[r][1] = reported[r][1]
        /\ v.run = r /\ ~Among(q, r) => v.score = reported'[r][1]
    BY <1>2, <1>3, <1>6, <1>7, <1>8, <1>9
  <2>3. /\ Opens(inbox'[e], r, reported')
        /\ Among(q, r) \/ v.run = r => Among(inbox'[e], r)
    BY <1>4, <1>7, <2>1, <2>2, OpensOffered
  <2> QED
    BY <1>2, <1>3, <1>6, <1>7, <1>9, <2>3 DEF HeardFirst
<1>10. CASE "optimization" \notin Listening[e]
  <2>1. inbox'[e] = q
    BY <1>4, <1>5, <1>10, None, Offered
  <2>2. Opens(q, r, reported')
    BY <1>3, <1>4, <1>7 DEF Opens
  <2> QED
    BY <1>6, <1>10, <2>1, <2>2 DEF HeardFirst
<1> QED
  BY <1>9, <1>10

(* Closing the engine or the bus leaves nothing to listen to.              *)
LEMMA ClosesHeard ==
  ASSUME FlowInv, NEW d \in Engines, Close(d), NEW e \in Hearers, NEW r, HeardFirst(e, r)
  PROVE  HeardFirst(e, r)'
<1>1. /\ inbox' = [inbox EXCEPT ![d] = <<>>] /\ closed' = closed \union {d}
      /\ UNCHANGED <<reported, enabled, busClosed>> /\ DOMAIN inbox = Engines
  BY DEF Close, worldVars, FlowInv, BoxesSound
<1>2. CASE e = d
  <2>1. inbox'[e] = <<>> /\ Listening'[e] = {}
    BY <1>1, <1>2, HearersWant DEF Listening
  <2> QED
    BY <2>1, None DEF HeardFirst, Opens
<1>3. CASE e # d
  <2>1. inbox'[e] = inbox[e] /\ Listening'[e] = Listening[e]
    BY <1>1, <1>3, HearersWant DEF Listening
  <2> QED
    BY <1>1, <2>1 DEF HeardFirst
<1> QED
  BY <1>2, <1>3

LEMMA HeardStays ==
  ASSUME FlowInv, enabled \in Configurations, [FlowNext]_flowVars, ~lost', NEW e \in Hearers, NEW r,
         HeardFirst(e, r),
         e = "experiments" /\ ExperimentsHandle => Head(inbox[e]).run # r,
         e = "walkforward" /\ WalkForwardHandles => Head(inbox[e]).run # r
  PROVE  HeardFirst(e, r)'
<1>1. CASE Score
  BY <1>1, ScoreHeard
<1>2. CASE ExperimentsHandle
  <2>1. "experiments" \in Engines /\ PublishesOther("experiments")
    BY <1>2, EngineNames, ExperimentsHandleOther
  <2> QED
    BY <1>2, <2>1, OthersHeard
<1>3. CASE WalkForwardHandles
  <2>1. "walkforward" \in Engines /\ PublishesOther("walkforward")
    BY <1>3, EngineNames, WalkForwardHandlesOther
  <2> QED
    BY <1>3, <2>1, OthersHeard
<1>4. CASE MonteCarloHandles
  <2>1. "montecarlo" \in Engines /\ PublishesOther("montecarlo") /\ "montecarlo" \notin Hearers
    BY <1>4, EngineNames, MonteCarloHandlesOther DEF Hearers
  <2> QED
    BY <2>1, OthersHeard
<1>5. CASE ResearchHandles
  <2>1. "research" \in Engines /\ PublishesOther("research") /\ "research" \notin Hearers
    BY <1>5, EngineNames, ResearchHandlesOther DEF Hearers
  <2> QED
    BY <2>1, OthersHeard
<1>6. ASSUME NEW d \in Engines, Close(d) PROVE HeardFirst(e, r)'
  BY <1>6, ClosesHeard
<1>7. CASE CloseBus
  <2>1. UNCHANGED <<inbox, reported>> /\ Listening'[e] = {}
    BY <1>7, HearersWant DEF CloseBus, Listening, busVars, worldVars
  <2> QED
    BY <2>1 DEF HeardFirst
<1>8. CASE UNCHANGED <<inbox, reported, enabled, closed, busClosed>>
  <2>1. Listening' = Listening
    BY <1>8 DEF Listening
  <2> QED
    BY <1>8, <2>1 DEF HeardFirst
<1>9. ASSUME NEW d \in Engines, ConsumerEnds(d)
      PROVE  UNCHANGED <<inbox, reported, enabled, closed, busClosed>>
  BY <1>9 DEF ConsumerEnds, busVars, worldVars
<1>10. ExperimentSteps \/ WindowSteps \/ Cancel \/ UNCHANGED flowVars
         => UNCHANGED <<inbox, reported, enabled, closed, busClosed>>
  BY DEF ExperimentSteps, WindowSteps, Cancel, flowVars, busVars, lifeVars, worldVars
<1> QED
  BY <1>1, <1>2, <1>3, <1>4, <1>5, <1>6, <1>7, <1>8, <1>9, <1>10 DEF FlowNext, EngineSteps

(* What is reported stays the same, or there is more of it; what the bus   *)
(* lost stays lost.                                                        *)
LEMMA ReportsGrow ==
  ASSUME FlowInv, enabled \in Configurations, [FlowNext]_flowVars
  PROVE  /\ \A r \in DOMAIN reported :
              /\ r \in DOMAIN reported' /\ ToSet(reported[r]) \subseteq ToSet(reported'[r])
              /\ reported'[r][1] = reported[r][1]
         /\ DOMAIN reported' \subseteq DOMAIN reported \union Started
         /\ ~lost' => ~lost
<1>1. CASE Score
  <2>1. PICK run \in Started, s \in Scored[enabled] :
          /\ reported' = Stored(reported, run, Append(ScoresOf(run), s.score))
          /\ Publish(<< [type |-> "optimization", run |-> run, strategy |-> "trend_following",
                         score |-> s.score, metrics |-> s.metrics] >>, "")
    BY <1>1 DEF Score
  <2>2. s.score \in Int
    BY ScoresAreNumbers
  <2>3. ~lost' => ~lost
    BY <2>1 DEF Publish, PublishTo, FlowInv
  <2>4. reported' = Stored(reported, run, Append(ScoresOf(run), s.score))
    BY <2>1
  <2>5. /\ DOMAIN reported' = DOMAIN reported \union {run}
        /\ \A r \in DOMAIN reported :
              /\ r \in DOMAIN reported' /\ ToSet(reported[r]) \subseteq ToSet(reported'[r])
              /\ reported'[r][1] = reported[r][1]
    BY <2>2, <2>4, ScoreAdded
  <2> QED
    BY <2>3, <2>5
<1>2. CASE UNCHANGED reported /\ (~lost' => ~lost)
  BY <1>2
<1>3. CASE ExperimentsHandle \/ WalkForwardHandles \/ MonteCarloHandles \/ ResearchHandles
  <2>1. \E out, from : Publish(out, from)
    BY <1>3 DEF ExperimentsHandle, WalkForwardHandles, MonteCarloHandles, ResearchHandles
  <2>2. UNCHANGED reported
    BY <1>3 DEF ExperimentsHandle, WalkForwardHandles, MonteCarloHandles, ResearchHandles, worldVars
  <2>3. ~lost' => ~lost
    BY <2>1 DEF Publish, PublishTo, FlowInv
  <2> QED
    BY <2>2, <2>3
<1>4. ASSUME NEW d \in Engines, ConsumerEnds(d) \/ Close(d) PROVE UNCHANGED <<reported, lost>>
  BY <1>4 DEF ConsumerEnds, Close, busVars, worldVars
<1>5. ExperimentSteps \/ WindowSteps \/ Cancel \/ CloseBus \/ UNCHANGED flowVars => UNCHANGED <<reported, lost>>
  BY DEF ExperimentSteps, WindowSteps, Cancel, CloseBus, flowVars, busVars, worldVars
<1> QED
  BY <1>1, <1>2, <1>3, <1>4, <1>5 DEF FlowNext, EngineSteps

(***************************************************************************)
(* The ranking. Runs of one experiment differ in their number, so of two   *)
(* one is better; how many are better than a run is its place.             *)
(***************************************************************************)
Experimental(scores) ==
  /\ IsFiniteSet(DOMAIN scores)
  /\ \A r \in DOMAIN scores : r = RunId("experiment", 0, r.n) /\ r.n \in Int /\ scores[r] \in Int
Ahead(scores, r) == {s \in DOMAIN scores : Better(scores, s, r)}

LEMMA BetterOrders ==
  ASSUME NEW scores, Experimental(scores)
  PROVE  /\ \A r, s \in DOMAIN scores : r = s \/ Better(scores, r, s) \/ Better(scores, s, r)
         /\ \A r, s \in DOMAIN scores : ~(Better(scores, r, s) /\ Better(scores, s, r))
         /\ \A r, s, t \in DOMAIN scores :
              Better(scores, r, s) /\ Better(scores, s, t) => Better(scores, r, t)
<1>1. \A r, s \in DOMAIN scores : r.n = s.n => r = s
  BY DEF Experimental
<1> QED
  BY <1>1 DEF Experimental, Better

LEMMA Arrangement ==
  ASSUME NEW scores, Experimental(scores)
  PROVE  \E q \in [1 .. Cardinality(DOMAIN scores) -> DOMAIN scores] :
           \A m, n \in DOMAIN q : m < n => Better(scores, q[m], q[n])
<1> DEFINE S == DOMAIN scores
           N == Cardinality(S)
           place == [r \in S |-> Cardinality(Ahead(scores, r)) + 1]
<1>1. IsFiniteSet(S) /\ N \in Nat
  BY FS_CardinalityType DEF Experimental
<1>2. \A r \in S : IsFiniteSet(Ahead(scores, r)) /\ Cardinality(Ahead(scores, r)) \in Nat
  BY <1>1, FS_Subset, FS_CardinalityType DEF Ahead
<1>3. \A r, s \in S : Better(scores, r, s) => place[r] < place[s]
  <2> SUFFICES ASSUME NEW r \in S, NEW s \in S, Better(scores, r, s) PROVE place[r] < place[s]
    OBVIOUS
  <2>1. Ahead(scores, r) \subseteq Ahead(scores, s) /\ r \in Ahead(scores, s) /\ r \notin Ahead(scores, r)
    BY BetterOrders DEF Ahead
  <2>2. Cardinality(Ahead(scores, r)) < Cardinality(Ahead(scores, s))
    BY <1>2, <2>1, FS_Subset
  <2> QED
    BY <1>2, <2>2
<1>4. \A r \in S : place[r] \in 1 .. N
  <2> SUFFICES ASSUME NEW r \in S PROVE place[r] \in 1 .. N
    OBVIOUS
  <2>1. Ahead(scores, r) \subseteq S /\ r \in S /\ r \notin Ahead(scores, r)
    BY BetterOrders DEF Ahead
  <2>2. Cardinality(Ahead(scores, r)) < N
    BY <1>1, <1>2, <2>1, FS_Subset
  <2> QED
    BY <1>1, <1>2, <2>2
<1> HIDE DEF place
<1>5. \A r, s \in S : place[r] = place[s] => r = s
  BY <1>3, <1>4, BetterOrders
<1>6. {place[r] : r \in S} = 1 .. N
  <2> DEFINE I == {place[r] : r \in S}
  <2>1. place \in Bijection(S, I)
    <3>1. DOMAIN place = S
      BY DEF place
    <3>2. place = [r \in S |-> place[r]]
      BY DEF place
    <3> QED
      BY <1>5, <3>1, <3>2 DEF Bijection, Injection, Surjection, IsInjective
  <2> HIDE DEF I
  <2>2. IsFiniteSet(I) /\ Cardinality(I) = N
    <3>1. ExistsBijection(S, I)
      BY <2>1 DEF ExistsBijection
    <3> QED
      BY <1>1, <3>1, FS_Bijection
  <2> USE DEF I
  <2>3. I \subseteq 1 .. N /\ IsFiniteSet(1 .. N) /\ Cardinality(1 .. N) = N
    BY <1>1, <1>4, FS_Interval
  <2> QED
    BY <2>2, <2>3, FS_Subset
<1> DEFINE q == [n \in 1 .. N |-> CHOOSE r \in S : place[r] = n]
<1>7. \A n \in 1 .. N : q[n] \in S /\ place[q[n]] = n
  BY <1>6
<1>8. q \in [1 .. N -> S] /\ DOMAIN q = 1 .. N
  BY <1>7
<1> HIDE DEF q
<1>9. \A m, n \in DOMAIN q : m < n => Better(scores, q[m], q[n])
  <2> SUFFICES ASSUME NEW m \in 1 .. N, NEW n \in 1 .. N, m < n PROVE Better(scores, q[m], q[n])
    BY <1>8
  <2>1. q[m] # q[n] /\ ~(place[q[n]] < place[q[m]]) /\ q[m] \in S /\ q[n] \in S
    BY <1>7
  <2> QED
    BY <1>3, <2>1, BetterOrders
<1> QED
  BY <1>8, <1>9

LEMMA RankedIs ==
  ASSUME NEW scores, Experimental(scores)
  PROVE  LET q == Ranked(scores)
         IN /\ ToSet(q) = DOMAIN scores /\ Len(q) = Cardinality(DOMAIN scores)
            /\ \A m, n \in DOMAIN q : m < n => scores[q[m]] >= scores[q[n]]
<1> DEFINE S == DOMAIN scores
           N == Cardinality(S)
           q == Ranked(scores)
<1>1. IsFiniteSet(S) /\ N \in Nat
  BY FS_CardinalityType DEF Experimental
<1>2. q \in [1 .. N -> S] /\ \A m, n \in DOMAIN q : m < n => Better(scores, q[m], q[n])
  BY Arrangement DEF Ranked
<1> HIDE DEF q
<1>3. DOMAIN q = 1 .. N /\ Len(q) = N /\ ToSet(q) = {q[n] : n \in 1 .. N}
  BY <1>1, <1>2 DEF ToSet
<1>4. \A m, n \in 1 .. N : q[m] = q[n] => m = n
  <2> SUFFICES ASSUME NEW m \in 1 .. N, NEW n \in 1 .. N, q[m] = q[n], m < n PROVE FALSE
    BY <1>1
  <2> QED
    BY <1>2, <1>3, BetterOrders
<1>5. {q[n] : n \in 1 .. N} = S
  <2> DEFINE I == {q[n] : n \in 1 .. N}
  <2>1. q \in Bijection(1 .. N, I)
    BY <1>2, <1>4 DEF Bijection, Injection, Surjection, IsInjective
  <2>2. IsFiniteSet(1 .. N) /\ Cardinality(1 .. N) = N
    BY <1>1, FS_Interval
  <2> HIDE DEF I
  <2>3. IsFiniteSet(I) /\ Cardinality(I) = N
    <3>1. ExistsBijection(1 .. N, I)
      BY <2>1 DEF ExistsBijection
    <3> QED
      BY <2>2, <3>1, FS_Bijection
  <2> USE DEF I
  <2>4. I \subseteq S
    BY <1>2
  <2> QED
    BY <1>1, <2>3, <2>4, FS_Subset
<1>6. \A m, n \in DOMAIN q : m < n => scores[q[m]] >= scores[q[n]]
  <2> SUFFICES ASSUME NEW m \in DOMAIN q, NEW n \in DOMAIN q, m < n PROVE scores[q[m]] >= scores[q[n]]
    OBVIOUS
  <2>1. Better(scores, q[m], q[n]) /\ scores[q[m]] \in Int /\ scores[q[n]] \in Int
    BY <1>2, <1>3 DEF Experimental
  <2> QED
    BY <2>1 DEF Better
<1> QED
  BY <1>3, <1>5, <1>6 DEF q

(* The runs of the experiment engine differ in their number only.          *)
RunsNamed == \A r \in DOMAIN expRuns : r = RunId("experiment", 0, r.n)
Untold ==
  /\ \A r \in DOMAIN expRuns : expRuns[r] = "QUEUED" => r \notin DOMAIN reported
  /\ \A w \in Workers : workers[w].at = "taken" => expRuns[workers[w].run] = "QUEUED"

ResultsSound ==
  /\ IsFiniteSet(DOMAIN results) /\ DOMAIN results \subseteq DOMAIN expRuns
  /\ \A r \in DOMAIN results : /\ r \in DOMAIN reported /\ results[r] \in ToSet(reported[r])
                               /\ ~lost => results[r] = reported[r][1]
  /\ rankings = Ranked(results)

ScoresInv ==
  /\ RunsNamed /\ Untold /\ ResultsSound
  /\ ~lost => \A r \in pending : HeardFirst("experiments", r)

LEMMA ResultsRanked ==
  ASSUME RunsInv, FlowInv, ScoresInv PROVE Experimental(results)
<1>1. \A r \in DOMAIN results : results[r] \in Int
  <2> SUFFICES ASSUME NEW r \in DOMAIN results PROVE results[r] \in Int
    OBVIOUS
  <2>1. results[r] \in ToSet(reported[r]) /\ reported[r] \in Seq(Int)
    BY DEF ScoresInv, ResultsSound, FlowInv, ReportedSound
  <2> QED
    BY <2>1 DEF ToSet
<1>2. \A r \in DOMAIN results : r \in Runs /\ r = RunId("experiment", 0, r.n) /\ r.n \in Int
  BY DEF ScoresInv, ResultsSound, RunsNamed, RunsInv, RunsTyped, Runs
<1> QED
  BY <1>1, <1>2 DEF ScoresInv, ResultsSound, Experimental

LEMMA ScoresThen == RunsInv /\ FlowInv /\ ScoresInv => ScoresCount
<1> SUFFICES ASSUME RunsInv, FlowInv, ScoresInv PROVE ScoresCount
  OBVIOUS
<1>1. FirstScoreCounts
  <2>1. \A r \in DOMAIN results : /\ r \in DOMAIN reported /\ results[r] \in ToSet(reported[r])
                                  /\ ~lost => results[r] = reported[r][1]
    BY DEF ScoresInv, ResultsSound
  <2>2. \A r \in DOMAIN results : ScoresOf(r) = reported[r]
    BY <2>1 DEF ScoresOf
  <2> QED
    BY <2>1, <2>2, Zenon DEF FirstScoreCounts
<1>2. /\ ToSet(rankings) = DOMAIN results /\ Len(rankings) = Cardinality(DOMAIN results)
      /\ \A m, n \in DOMAIN rankings : m < n => results[rankings[m]] >= results[rankings[n]]
  BY ResultsRanked, RankedIs DEF ScoresInv, ResultsSound
<1> QED
  BY <1>1, <1>2 DEF ScoresCount, RankingTells

LEMMA ScoresStart == FlowInit => ScoresInv
<1> SUFFICES ASSUME FlowInit PROVE ScoresInv
  OBVIOUS
<1> DEFINE on == "experiments" \in enabled
           runs == IF on THEN RunsOf("experiment", 0) ELSE <<>>
<1>1. /\ expRuns = [r \in ToSet(runs) |-> "QUEUED"] /\ pending = {} /\ results = <<>> /\ rankings = <<>>
      /\ workers = [w \in Workers |-> IF on THEN Idle ELSE [Idle EXCEPT !.at = "gone"]]
      /\ reported = <<>>
  BY DEF FlowInit, ExperimentsInit
<1>2. RunsNamed
  <2>1. \A r \in ToSet(runs) : \E k : r = RunId("experiment", 0, k)
    <3>1. ToSet(runs) = {runs[k] : k \in DOMAIN runs}
      BY DEF ToSet
    <3>2. \A k \in DOMAIN runs : runs[k] = RunId("experiment", 0, k)
      BY DEF RunsOf
    <3> HIDE DEF runs
    <3> QED
      BY <3>1, <3>2
  <2>2. \A k : RunId("experiment", 0, k).n = k
    BY DEF RunId
  <2> QED
    BY <1>1, <2>1, <2>2, Zenon DEF RunsNamed
<1> HIDE DEF runs, on
<1>3. Untold
  <2>1. \A w \in Workers : workers[w].at # "taken"
    BY <1>1, IdleTyped
  <2> QED
    BY <1>1, <2>1 DEF Untold
<1>4. ResultsSound
  <2>1. Experimental(results) /\ DOMAIN results = {} /\ IsFiniteSet({})
    BY <1>1, FS_EmptySet DEF Experimental
  <2>2. Ranked(results) = <<>>
    <3> DEFINE q == Ranked(results)
    <3>1. ToSet(q) = {} /\ q \in [1 .. Cardinality(DOMAIN results) -> DOMAIN results]
      BY <2>1, RankedIs, Arrangement DEF Ranked
    <3>2. Cardinality({}) = 0
      BY FS_EmptySet
    <3> HIDE DEF q
    <3>3. q = <<>>
      BY <2>1, <3>1, <3>2
    <3> QED
      BY <3>3 DEF q
  <2> QED
    BY <1>1, <2>1, <2>2 DEF ResultsSound
<1> QED
  BY <1>1, <1>2, <1>3, <1>4 DEF ScoresInv

(* An update that completes a pending run is the first of the run.         *)
LEMMA FirstCounts ==
  ASSUME FlowInv, NEW e \in Hearers, inbox[e] # <<>>
  PROVE  /\ Head(inbox[e]).run \in DOMAIN reported
         /\ Head(inbox[e]).score \in ToSet(reported[Head(inbox[e]).run])
         /\ HeardFirst(e, Head(inbox[e]).run)
               => Head(inbox[e]).score = reported[Head(inbox[e]).run][1]
<1> DEFINE q == inbox[e]
<1>1. /\ IsSequence(q) /\ q # <<>>
      /\ \A n \in DOMAIN q : q[n].run \in DOMAIN reported /\ q[n].score \in ToSet(reported[q[n].run])
      /\ \A r : HeardFirst(e, r) => Opens(q, r, reported)
  BY HearersWant DEF FlowInv, BoxesSound, Told, HeardFirst
<1> HIDE DEF q
<1>2. Head(q) = q[1] /\ 1 \in DOMAIN q /\ \A m \in DOMAIN q : ~(m < 1)
  BY <1>1, Tailed
<1>3. \A r : HeardFirst(e, r) /\ Head(q).run = r => Head(q).score = reported[r][1]
  BY <1>1, <1>2 DEF Opens
<1> QED
  BY <1>1, <1>2, <1>3 DEF q

LEMMA HandledScores ==
  ASSUME RunsInv, FlowInv, ScoresInv, enabled \in Configurations, ExperimentsHandle
  PROVE  ScoresInv'
<1> DEFINE e == Next1("experiments")
<1>1. /\ inbox["experiments"] # <<>> /\ e = Head(inbox["experiments"]) /\ HandleOptimization(e)
      /\ UNCHANGED <<workers, reported>>
  BY DEF ExperimentsHandle, Waiting, Next1, schedulerVars, worldVars
<1>2. /\ e.run \in DOMAIN reported /\ e.score \in ToSet(reported[e.run])
      /\ HeardFirst("experiments", e.run) => e.score = reported[e.run][1]
  <2>1. "experiments" \in Hearers
    BY DEF Hearers
  <2> QED
    BY <1>1, <2>1, FirstCounts
<1> HIDE DEF e
<1>3. ~lost' => ~lost
  BY ReportsGrow DEF FlowNext, EngineSteps
<1>4. [FlowNext]_flowVars
  BY DEF FlowNext, EngineSteps
<1>5. ASSUME NEW r \in pending, r # e.run, ~lost' PROVE HeardFirst("experiments", r)'
  <2>1. HeardFirst("experiments", r) /\ "experiments" \in Hearers /\ "experiments" # "walkforward"
    BY <1>3, <1>5 DEF Hearers, ScoresInv
  <2> QED
    BY <1>1, <1>4, <1>5, <2>1, HeardStays
<1>6. CASE ~Completes(e)
  <2>1. UNCHANGED <<expRuns, pending, results, rankings>>
    BY <1>1, <1>6 DEF HandleOptimization, cacheVars
  <2>2. \A r \in pending : r # e.run
    BY <1>6 DEF Completes
  <2>3. RunsNamed' /\ Untold' /\ ResultsSound'
    BY <1>1, <1>3, <2>1 DEF ScoresInv, RunsNamed, Untold, ResultsSound
  <2> QED
    BY <1>5, <2>1, <2>2, <2>3 DEF ScoresInv
<1>7. CASE Completes(e)
  <2>1. /\ e.run \in pending /\ e.run \in DOMAIN expRuns /\ expRuns[e.run] # "QUEUED"
        /\ expRuns' = [expRuns EXCEPT ![e.run] = "COMPLETED"] /\ pending' = pending \ {e.run}
        /\ results' = Stored(results, e.run, e.score) /\ rankings' = Ranked(results')
    BY <1>1, <1>7 DEF HandleOptimization, NoLongerPending, Completes, RunsInv, WorkersSound
  <2>2. /\ DOMAIN expRuns' = DOMAIN expRuns /\ expRuns'[e.run] = "COMPLETED"
        /\ \A r \in DOMAIN expRuns \ {e.run} : expRuns'[r] = expRuns[r]
    BY <2>1
  <2>3. RunsNamed'
    BY <2>2 DEF ScoresInv, RunsNamed
  <2>4. Untold'
    <3>1. \A r \in DOMAIN expRuns' : expRuns'[r] = "QUEUED" => r \notin DOMAIN reported'
      BY <1>1, <2>2 DEF ScoresInv, Untold
    <3>2. ASSUME NEW w \in Workers, workers'[w].at = "taken" PROVE expRuns'[workers'[w].run] = "QUEUED"
      <4>1. workers[w].run \in DOMAIN expRuns /\ expRuns[workers[w].run] = "QUEUED"
        BY <1>1, <3>2 DEF ScoresInv, Untold, RunsInv, WorkersSound
      <4> QED
        BY <1>1, <2>1, <2>2, <4>1
    <3> QED
      BY <3>1, <3>2 DEF Untold
  <2>5. ResultsSound'
    <3>1. /\ DOMAIN results' = DOMAIN results \union {e.run} /\ results'[e.run] = e.score
          /\ \A r \in DOMAIN results \ {e.run} : results'[r] = results[r]
      BY <2>1 DEF Stored
    <3>2. IsFiniteSet(DOMAIN results')
      BY <3>1, FS_AddElement DEF ScoresInv, ResultsSound
    <3>3. ~lost' => e.score = reported[e.run][1]
      BY <1>2, <1>3, <2>1 DEF ScoresInv
    <3> QED
      BY <1>1, <1>2, <1>3, <2>1, <2>2, <3>1, <3>2, <3>3 DEF ScoresInv, ResultsSound
  <2> QED
    BY <1>5, <2>1, <2>3, <2>4, <2>5 DEF ScoresInv
<1> QED
  BY <1>6, <1>7

(* A run that was not reported has nothing under way.                      *)
LEMMA UntoldUnheard ==
  ASSUME FlowInv, NEW e \in Hearers, NEW r, r \notin DOMAIN reported PROVE HeardFirst(e, r)
<1>1. \A n \in DOMAIN inbox[e] : inbox[e][n].run \in DOMAIN reported
  BY HearersWant DEF FlowInv, BoxesSound, Told
<1> QED
  BY <1>1 DEF HeardFirst, Opens

(* The steps of the scheduler report nothing, and of what is pending they  *)
(* add a run that was not reported.                                        *)
LEMMA SchedulerScores ==
  ASSUME RunsInv, FlowInv, ScoresInv, UNCHANGED <<results, rankings, busVars, lifeVars, reported, enabled>>,
         DOMAIN expRuns' = DOMAIN expRuns,
         \A r \in DOMAIN expRuns : expRuns'[r] = "QUEUED" => expRuns[r] = "QUEUED",
         \A w \in Workers : workers'[w].at = "taken" => expRuns'[workers'[w].run] = "QUEUED",
         \A r \in pending' : r \in pending \/ r \notin DOMAIN reported
  PROVE  ScoresInv'
<1>1. UNCHANGED <<inbox, lost, busClosed, closed>>
  BY DEF busVars, lifeVars
<1>2. Listening' = Listening
  BY <1>1 DEF Listening
<1>3. "experiments" \in Hearers
  BY DEF Hearers
<1>4. ASSUME ~lost', NEW r \in pending' PROVE HeardFirst("experiments", r)'
  <2>1. HeardFirst("experiments", r)
    BY <1>1, <1>3, <1>4, UntoldUnheard DEF ScoresInv
  <2> QED
    BY <1>1, <1>2, <2>1 DEF HeardFirst
<1> QED
  BY <1>1, <1>4 DEF ScoresInv, RunsNamed, Untold, ResultsSound

LEMMA ExperimentStepScores ==
  ASSUME RunsInv, FlowInv, ScoresInv, ExperimentSteps PROVE ScoresInv'
<1>1. UNCHANGED <<busVars, lifeVars, reported, enabled>>
  BY DEF ExperimentSteps
<1>2. /\ workers \in [Workers -> WorkerRecords]
      /\ \A w \in Workers : workers[w].at = "taken" =>
           /\ expRuns[workers[w].run] = "QUEUED" /\ workers[w].run \in DOMAIN expRuns
           /\ workers[w].run \notin DOMAIN reported
  BY DEF RunsInv, RunsTyped, WorkersSound, ScoresInv, Untold
<1>3. CASE Enqueue
  BY <1>1, <1>2, <1>3, SchedulerScores DEF Enqueue, cacheVars
<1>4. ASSUME NEW w \in Workers, Take(w) PROVE ScoresInv'
  <2>1. /\ runQueue \in Seq(Runs) /\ runQueue # <<>> /\ UNCHANGED <<expRuns, pending, results, rankings>>
        /\ \/ workers' = workers
           \/ workers' = [workers EXCEPT ![w] = [@ EXCEPT !.at = "taken", !.run = Head(runQueue)]]
    BY <1>4 DEF Take, cacheVars, RunsInv, RunsTyped
  <2>2. expRuns[Head(runQueue)] = "QUEUED"
    BY <2>1, HeadTail DEF RunsInv, QueuesSound, Fresh
  <2>3. \A v \in Workers : workers'[v].at = "taken" => expRuns[workers'[v].run] = "QUEUED"
    BY <1>2, <2>1, <2>2 DEF WorkerRecords
  <2> QED
    BY <1>1, <2>1, <2>3, SchedulerScores
<1>5. ASSUME NEW w \in Workers, Acquire(w) PROVE ScoresInv'
  <2> DEFINE r == workers[w].run
  <2>1. /\ workers[w].at = "taken" /\ expRuns' = [expRuns EXCEPT ![r] = "RUNNING"]
        /\ pending' = pending \union {r} /\ workers' = [workers EXCEPT ![w].at = "executing"]
        /\ UNCHANGED <<results, rankings>>
    BY <1>5 DEF Acquire
  <2>2. DOMAIN expRuns' = DOMAIN expRuns /\ \A x \in DOMAIN expRuns : expRuns'[x] = "QUEUED" => expRuns[x] = "QUEUED"
    BY <1>2, <2>1
  <2>3. ASSUME NEW v \in Workers, workers'[v].at = "taken" PROVE expRuns'[workers'[v].run] = "QUEUED"
    <3>1. v # w /\ workers'[v] = workers[v] /\ workers[v].at = "taken"
      BY <1>2, <2>1, <2>3 DEF WorkerRecords
    <3>2. workers[v].run # r
      BY <2>1, <3>1 DEF RunsInv, WorkersSound, Holding
    <3> QED
      BY <1>2, <2>1, <3>1, <3>2
  <2>4. \A x \in pending' : x \in pending \/ x \notin DOMAIN reported
    BY <1>2, <2>1
  <2> QED
    BY <1>1, <2>1, <2>2, <2>3, <2>4, SchedulerScores
<1>6. ASSUME NEW w \in Workers, NEW stopped, GiveUp(w, stopped) \/ Quit(w, stopped) PROVE ScoresInv'
  <2>1. /\ UNCHANGED <<expRuns, pending, results, rankings>>
        /\ \/ workers' = [workers EXCEPT ![w] = [Idle EXCEPT !.at = "gone"]]
           \/ workers' = [workers EXCEPT ![w].at = "gone"]
    BY <1>6 DEF GiveUp, Quit, cacheVars
  <2>2. \A v \in Workers : workers'[v].at = "taken" => expRuns[workers'[v].run] = "QUEUED"
    BY <1>2, <2>1, IdleTyped DEF WorkerRecords
  <2> QED
    BY <1>1, <2>1, <2>2, SchedulerScores
<1>7. ASSUME NEW w \in Workers, NEW failed \in BOOLEAN, Executed(w, failed) PROVE ScoresInv'
  <2>1. /\ UNCHANGED <<expRuns, pending, results, rankings>>
        /\ workers' = [workers EXCEPT ![w] = [@ EXCEPT !.at = "executed", !.failed = failed]]
    BY <1>7 DEF Executed, cacheVars
  <2>2. \A v \in Workers : workers'[v].at = "taken" => expRuns[workers'[v].run] = "QUEUED"
    BY <1>2, <2>1 DEF WorkerRecords
  <2> QED
    BY <1>1, <2>1, <2>2, SchedulerScores
<1>8. ASSUME NEW w \in Workers, OnRunComplete(w) PROVE ScoresInv'
  <2> DEFINE r == workers[w].run
  <2>1. /\ workers[w].at = "executed" /\ workers' = [workers EXCEPT ![w] = Idle] /\ UNCHANGED <<results, rankings>>
        /\ \/ expRuns' = [expRuns EXCEPT ![r] = "FAILED"] /\ pending' = pending \ {r}
           \/ UNCHANGED <<expRuns, pending>>
    BY <1>8 DEF OnRunComplete
  <2>2. r \in DOMAIN expRuns /\ expRuns[r] # "QUEUED"
    BY <2>1 DEF RunsInv, WorkersSound
  <2> HIDE DEF r
  <2>3. /\ DOMAIN expRuns' = DOMAIN expRuns /\ pending' \subseteq pending
        /\ \A x \in DOMAIN expRuns : expRuns'[x] = "QUEUED" <=> expRuns[x] = "QUEUED"
    BY <2>1, <2>2
  <2>4. \A v \in Workers : workers'[v].at = "taken" => expRuns'[workers'[v].run] = "QUEUED"
    BY <1>2, <2>1, <2>3, IdleTyped
  <2> QED
    BY <1>1, <2>1, <2>3, <2>4, SchedulerScores
<1> QED
  BY <1>3, <1>4, <1>5, <1>6, <1>7, <1>8 DEF ExperimentSteps, WorkerSteps

(* The other steps leave the experiment engine alone. They may report runs *)
(* that have begun, and those of other engines.                            *)
LEMMA OtherScores ==
  ASSUME RunsInv, FlowInv, ScoresInv, enabled \in Configurations, [FlowNext]_flowVars, ~ExperimentsHandle,
         UNCHANGED experimentVars,
         session.at \in {"executing", "awaiting"} => session.run.phase \in {"training", "validation"}
  PROVE  ScoresInv'
<1>1. UNCHANGED <<expRuns, pending, results, rankings, workers>>
  BY DEF experimentVars, cacheVars, schedulerVars
<1>2. /\ \A r \in DOMAIN reported :
           /\ r \in DOMAIN reported' /\ ToSet(reported[r]) \subseteq ToSet(reported'[r])
           /\ reported'[r][1] = reported[r][1]
      /\ DOMAIN reported' \subseteq DOMAIN reported \union Started /\ (~lost' => ~lost)
  BY ReportsGrow
<1>3. \A r \in DOMAIN expRuns : expRuns[r] = "QUEUED" => r \notin DOMAIN reported'
  <2> SUFFICES ASSUME NEW r \in DOMAIN expRuns, expRuns[r] = "QUEUED" PROVE r \notin DOMAIN reported'
    OBVIOUS
  <2>1. r.phase = "experiment" /\ r \notin DOMAIN reported
    BY DEF RunsInv, RunsTyped, ScoresInv, Untold
  <2> QED
    BY <1>2, <2>1 DEF Started
<1>4. Untold' /\ RunsNamed'
  BY <1>1, <1>3 DEF ScoresInv, Untold, RunsNamed
<1>5. ResultsSound'
  BY <1>1, <1>2 DEF ScoresInv, ResultsSound
<1>6. ASSUME ~lost', NEW r \in pending PROVE HeardFirst("experiments", r)'
  <2>1. HeardFirst("experiments", r) /\ "experiments" \in Hearers /\ "experiments" # "walkforward"
    BY <1>2, <1>6 DEF ScoresInv, Hearers
  <2> QED
    BY <1>6, <2>1, HeardStays
<1> QED
  BY <1>1, <1>4, <1>5, <1>6 DEF ScoresInv

-----------------------------------------------------------------------------
(***************************************************************************)
(* Walk-forward. The windows are worked through one by one; the run under  *)
(* way is reported for the first time after it began, so what the session  *)
(* collects is, unless the bus lost an event, the first score of each run  *)
(* of its own window.                                                      *)
(***************************************************************************)
WindowStatuses == {"QUEUED", "TRAINING", "VALIDATING", "FAILED", "COMPLETED"}
Scorings == [n : Int, score : Int]
Sessions == [at : {"idle", "executing", "awaiting", "gone"}, window : Int, run : Runs, collected : Seq(Scorings)]
Total == Cardinality(GenerateMatrix)
Busy == session.at \in {"executing", "awaiting"}

WindowsTyped ==
  /\ wfWindows \in [DOMAIN wfWindows -> WindowStatuses] /\ DOMAIN wfWindows \subseteq Int
  /\ session \in Sessions
  /\ wfQueue \in Seq(Int) /\ Distinct(wfQueue)
  /\ {i \in DOMAIN wfWindows : wfWindows[i] = "QUEUED"} = ToSet(wfQueue)
  /\ {i \in DOMAIN wfWindows : wfWindows[i] = "COMPLETED"} = DOMAIN wfResults

StatusOf(phase) == IF phase = "training" THEN "TRAINING" ELSE "VALIDATING"

(* What is collected so far: of the runs of the window, one after another, *)
(* the first score.                                                        *)
CollectedSound(window, collected) ==
  \A k \in DOMAIN collected :
    /\ collected[k].n = k /\ RunId("training", window, k) \in DOMAIN reported
    /\ ~lost => collected[k].score = reported[RunId("training", window, k)][1]
BestOf(collected, n) ==
  n \in DOMAIN collected /\ \A k \in DOMAIN collected : collected[k].score <= collected[n].score
AtRun(run, window, collected) ==
  /\ run.window = window /\ run.n \in Nat
  /\ \/ run.phase = "training" /\ Len(collected) = run.n - 1
     \/ run.phase = "validation" /\ Len(collected) = Total /\ BestOf(collected, run.n)

SessionSound ==
  /\ \A i \in DOMAIN wfWindows :
       wfWindows[i] \in {"TRAINING", "VALIDATING"} => Busy /\ i = session.window
  /\ Busy =>
       /\ session.window \in DOMAIN wfWindows
       /\ wfWindows[session.window] = StatusOf(session.run.phase)
       /\ AtRun(session.run, session.window, session.collected)
       /\ CollectedSound(session.window, session.collected)
       /\ ~lost => HeardFirst("walkforward", session.run)

(* Only runs that have begun are reported.                                 *)
Begun(r) ==
  \/ r.phase = "experiment"
  \/ /\ r.window \in DOMAIN wfWindows /\ wfWindows[r.window] # "QUEUED"
     /\ Busy /\ r.window = session.window =>
          \/ r = session.run
          \/ r.phase = "training" /\ (session.run.phase = "training" => r.n < session.run.n)
OnlyBegun == \A r \in DOMAIN reported : r \in Runs /\ Begun(r)

BestKept ==
  \A i \in DOMAIN wfResults :
    LET best == wfResults[i].best
    IN /\ best \in 1 .. Total /\ RunId("validation", i, best) \in DOMAIN reported
       /\ \A n \in 1 .. Total : RunId("training", i, n) \in DOMAIN reported
       /\ ~lost =>
            /\ wfResults[i].training = reported[RunId("training", i, best)][1]
            /\ \A n \in 1 .. Total : reported[RunId("training", i, n)][1] <= wfResults[i].training
            /\ wfResults[i].validation = reported[RunId("validation", i, best)][1]

WalkInv == WindowsFit /\ WindowsTyped /\ SessionSound /\ OnlyBegun /\ BestKept

LEMMA WalkThen == FlowInv /\ WalkInv => WindowsValidated
<1> SUFFICES ASSUME FlowInv, WalkInv PROVE WindowsValidated
  OBVIOUS
<1>1. OneWindowAtATime
  <2>1. {i \in DOMAIN wfWindows : wfWindows[i] \in {"TRAINING", "VALIDATING"}}
          = IF session.at \in {"executing", "awaiting"} THEN {session.window} ELSE {}
    <3>1. Busy => /\ session.window \in DOMAIN wfWindows
                  /\ wfWindows[session.window] \in {"TRAINING", "VALIDATING"}
      BY DEF WalkInv, SessionSound, StatusOf
    <3> QED
      BY <3>1 DEF WalkInv, SessionSound, Busy
  <2> QED
    BY <2>1 DEF WalkInv, WindowsTyped, OneWindowAtATime
<1>2. BestIsBest
  <2> SUFFICES ASSUME NEW i \in DOMAIN wfResults, ~lost
               PROVE  LET first == [n \in 1 .. Cardinality(GenerateMatrix) |-> ScoresOf(RunId("training", i, n))]
                          result == wfResults[i]
                      IN /\ result.training = first[result.best][1]
                         /\ \A n \in DOMAIN first : first[n][1] <= result.training
                         /\ result.validation = ScoresOf(RunId("validation", i, result.best))[1]
    BY DEF BestIsBest
  <2> QED
    BY DEF WalkInv, BestKept, ScoresOf, Total
<1> QED
  BY <1>1, <1>2 DEF WindowsValidated, WalkInv

(* Multiples of a step, which is a day at least.                           *)
LEMMA Multiples ==
  ASSUME NEW i \in Nat, NEW j \in Nat, NEW s \in Nat \ {0}
  PROVE  i * s \in Nat /\ i <= i * s /\ (i <= j => i * s <= j * s)
<1>1. i * s \in Nat /\ i * (s - 1) \in Nat /\ i * (s - 1) = i * s - i
  OBVIOUS
<1>2. ASSUME i <= j PROVE i * s <= j * s
  <2>1. j - i \in Nat /\ (j - i) * s \in Nat /\ (j - i) * s = j * s - i * s /\ j * s \in Nat
    BY <1>2
  <2> QED
    BY <1>1, <2>1
<1> QED
  BY <1>1, <1>2

(* A set of numbers that has all smaller ones with each is a beginning of  *)
(* the numbers.                                                            *)
LEMMA Beginning ==
  ASSUME NEW S \in SUBSET Nat, IsFiniteSet(S), \A i \in S, j \in Nat : j <= i => j \in S
  PROVE  S = 0 .. Cardinality(S) - 1 /\ Cardinality(S) \in Nat
<1> DEFINE n == Cardinality(S)
<1>1. n \in Nat
  BY FS_CardinalityType
<1>2. ASSUME NEW i \in S PROVE i <= n - 1
  <2>1. 0 .. i \subseteq S /\ IsFiniteSet(0 .. i) /\ Cardinality(0 .. i) = i + 1
    BY FS_Interval
  <2>2. Cardinality(0 .. i) <= n
    BY <2>1, FS_Subset
  <2> QED
    BY <1>1, <2>1, <2>2
<1>3. IsFiniteSet(0 .. n - 1) /\ Cardinality(0 .. n - 1) = n
  <2> HIDE DEF n
  <2>1. 0 \in Int /\ n - 1 \in Int /\ (0 > n - 1 => n = 0)
    BY <1>1
  <2> QED
    BY <1>1, <2>1, FS_Interval
<1>4. S \subseteq 0 .. n - 1
  BY <1>1, <1>2
<1> QED
  BY <1>1, <1>3, <1>4, FS_Subset

LEMMA WindowsCover ==
  ASSUME NEW plan, plan.days \in Nat, plan.train \in Nat \ {0}, plan.validate \in Nat \ {0},
         plan.step \in Nat \ {0}
  PROVE  LET windows == GenerateWindows(plan)
             n == Cardinality(windows)
         IN n \in Nat /\ windows = 0 .. n - 1 /\ ~Fits(plan, n)
<1> DEFINE windows == GenerateWindows(plan)
           n == Cardinality(windows)
<1>1. \A i \in Nat : i \in windows <=> i * plan.step + plan.train + plan.validate <= plan.days
  <2> SUFFICES ASSUME NEW i \in Nat
               PROVE  i \in windows <=> i * plan.step + plan.train + plan.validate <= plan.days
    OBVIOUS
  <2>1. i * plan.step \in Nat /\ i <= i * plan.step
    BY Multiples
  <2>2. i * plan.step + plan.train + plan.validate <= plan.days => i <= plan.days
    BY <2>1
  <2> QED
    BY <2>2 DEF GenerateWindows, Fits, Window
<1>2. windows \in SUBSET Nat /\ windows \subseteq 0 .. plan.days
  BY DEF GenerateWindows
<1>3. IsFiniteSet(windows)
  <2>1. 0 \in Int /\ plan.days \in Int
    OBVIOUS
  <2>2. IsFiniteSet(0 .. plan.days)
    BY <2>1, FS_Interval, Zenon
  <2> QED
    BY <1>2, <2>2, FS_Subset
<1>4. ASSUME NEW i \in windows, NEW j \in Nat, j <= i PROVE j \in windows
  <2>1. i \in Nat /\ j * plan.step <= i * plan.step /\ i * plan.step \in Nat /\ j * plan.step \in Nat
    BY <1>2, <1>4, Multiples
  <2> QED
    BY <1>1, <1>4, <2>1
<1> HIDE DEF windows
<1>5. windows = 0 .. n - 1 /\ n \in Nat
  BY <1>2, <1>3, <1>4, Beginning
<1>6. n \notin windows
  BY <1>5
<1>7. ~Fits(plan, n)
  BY <1>1, <1>5, <1>6 DEF Fits, Window
<1> QED
  BY <1>5, <1>7 DEF windows

LEMMA NoSessionTyped ==
  /\ NoSession \in Sessions /\ NoSession.at = "idle" /\ NoSession.collected = <<>>
  /\ [NoSession EXCEPT !.at = "gone"] \in Sessions /\ [NoSession EXCEPT !.at = "gone"].at = "gone"
<1> DEFINE r == RunId("", 0, 0)
<1>1. r \in Runs
  <2> DEFINE nothing == ""
  <2>1. nothing \in Phases
    BY Zenon DEF Phases
  <2> HIDE DEF nothing
  <2>2. RunId(nothing, 0, 0) \in Runs
    BY <2>1 DEF RunId, Runs
  <2> QED
    BY <2>2 DEF nothing
<1>2. NoSession = [at |-> "idle", window |-> 0, run |-> r, collected |-> <<>>]
  BY Zenon DEF NoSession
<1> HIDE DEF r
<1>3. <<>> \in Seq(Scorings)
  OBVIOUS
<1>4. NoSession \in Sessions /\ NoSession.at = "idle" /\ NoSession.collected = <<>>
  BY <1>1, <1>2, <1>3 DEF Sessions
<1> DEFINE s == NoSession
<1> HIDE DEF s
<1>5. [s EXCEPT !.at = "gone"] \in Sessions /\ [s EXCEPT !.at = "gone"].at = "gone"
  BY <1>4 DEF Sessions, s
<1> QED
  BY <1>4, <1>5 DEF s

LEMMA WalkStart == FlowInit => WalkInv
<1> SUFFICES ASSUME FlowInit PROVE WalkInv
  OBVIOUS
<1> DEFINE windows == IF "walkforward" \in enabled THEN GenerateWindows(wfPlan) ELSE {}
           n == Cardinality(windows)
<1>1. /\ wfPlan \in WalkPlans[enabled] /\ enabled \in Configurations
      /\ wfWindows = [i \in windows |-> "QUEUED"] /\ wfQueue = InOrder(windows)
      /\ session = IF "walkforward" \in enabled THEN NoSession ELSE [NoSession EXCEPT !.at = "gone"]
      /\ wfResults = <<>> /\ reported = <<>>
  BY DEF FlowInit, WalkForwardInit
<1>2. n \in Nat /\ windows = 0 .. n - 1 /\ (n > 0 => ~Fits(wfPlan, n))
      /\ \A i \in windows : Fits(wfPlan, i)
  <2>1. CASE "walkforward" \in enabled
    <3>1. windows = GenerateWindows(wfPlan)
      BY <2>1
    <3>2. /\ wfPlan.days \in Nat /\ wfPlan.train \in Nat \ {0} /\ wfPlan.validate \in Nat \ {0}
          /\ wfPlan.step \in Nat \ {0}
      BY <1>1, PlansAreValid
    <3>3. n \in Nat /\ windows = 0 .. n - 1 /\ ~Fits(wfPlan, n)
      BY <3>1, <3>2, WindowsCover
    <3> QED
      BY <3>1, <3>3 DEF GenerateWindows
  <2>2. CASE "walkforward" \notin enabled
    <3>1. windows = {} /\ n = 0
      BY <2>2, FS_EmptySet
    <3> QED
      BY <3>1
  <2> QED
    BY <2>1, <2>2
<1> HIDE DEF windows, n
<1>3. DOMAIN wfWindows = windows /\ \A i \in windows : wfWindows[i] = "QUEUED"
  BY <1>1
<1>4. WindowsFit
  <2>1. Cardinality(DOMAIN wfWindows) = n
    BY <1>3 DEF n
  <2>2. \A i \in DOMAIN wfWindows : Window(wfPlan, i).validationEnd <= wfPlan.days
    BY <1>2, <1>3 DEF Fits
  <2>3. n > 0 => Window(wfPlan, n).validationEnd > wfPlan.days
    <3>1. ASSUME n > 0 PROVE Window(wfPlan, n).validationEnd > wfPlan.days
      <4>1. "walkforward" \in enabled
        BY <1>2, <3>1, FS_EmptySet DEF windows, n
      <4>2. wfPlan.days \in Int /\ wfPlan.train \in Int /\ wfPlan.validate \in Int /\ wfPlan.step \in Int
        BY <1>1, PlansAreValid
      <4>3. ~(Window(wfPlan, n).validationEnd <= wfPlan.days)
        BY <1>2, <3>1 DEF Fits
      <4>4. Window(wfPlan, n).validationEnd \in Int
        BY <1>2, <4>2 DEF Window
      <4> QED
        BY <4>2, <4>3, <4>4
    <3> QED
      BY <3>1
  <2> QED
    BY <1>2, <1>3, <2>1, <2>2, <2>3 DEF WindowsFit
<1>5. ~Busy /\ session \in Sessions
  BY <1>1, NoSessionTyped DEF Busy
<1>6. /\ wfQueue \in Seq(Int) /\ Distinct(wfQueue) /\ ToSet(wfQueue) = windows
  <2>1. wfQueue = [k \in 1 .. n |-> k - 1]
    BY <1>1 DEF InOrder, n
  <2>2. wfQueue \in Seq(Int) /\ DOMAIN wfQueue = 1 .. n /\ \A k \in 1 .. n : wfQueue[k] = k - 1
    BY <1>2, <2>1
  <2>3. \A i : i \in ToSet(wfQueue) <=> i \in 0 .. n - 1
    <3>1. ASSUME NEW i \in 0 .. n - 1 PROVE i \in ToSet(wfQueue)
      <4>1. i + 1 \in DOMAIN wfQueue /\ wfQueue[i + 1] = i
        BY <1>2, <2>2
      <4> QED
        BY <4>1 DEF ToSet
    <3>2. ASSUME NEW k \in DOMAIN wfQueue PROVE wfQueue[k] \in 0 .. n - 1
      BY <1>2, <2>2
    <3> QED
      BY <3>1, <3>2 DEF ToSet
  <2>4. ToSet(wfQueue) = windows
    BY <1>2, <2>3
  <2>5. Distinct(wfQueue)
    BY <1>2, <2>2 DEF Distinct
  <2> QED
    BY <2>2, <2>4, <2>5
<1>7. WindowsTyped
  <2>1. DOMAIN wfResults = {}
    BY <1>1
  <2>2. {i \in DOMAIN wfWindows : wfWindows[i] = "QUEUED"} = ToSet(wfQueue)
    BY <1>3, <1>6
  <2>3. {i \in DOMAIN wfWindows : wfWindows[i] = "COMPLETED"} = {}
    BY <1>3
  <2>4. DOMAIN wfWindows \subseteq Int
    BY <1>2, <1>3
  <2>5. wfWindows \in [DOMAIN wfWindows -> WindowStatuses]
    BY <1>1 DEF WindowStatuses
  <2> QED
    BY <1>5, <1>6, <2>1, <2>2, <2>3, <2>4, <2>5 DEF WindowsTyped
<1>8. SessionSound
  BY <1>3, <1>5 DEF SessionSound
<1> QED
  BY <1>1, <1>4, <1>7, <1>8 DEF WalkInv, OnlyBegun, BestKept

(* What was reported stays, so what rests on it does.                      *)
Grown ==
  /\ \A r \in DOMAIN reported : r \in DOMAIN reported' /\ reported'[r][1] = reported[r][1]
  /\ ~lost' => ~lost

LEMMA BestStays == ASSUME BestKept, Grown, UNCHANGED wfResults PROVE BestKept'
BY DEF BestKept, Grown

LEMMA CollectedStays ==
  ASSUME Grown, NEW window, NEW collected, CollectedSound(window, collected)
  PROVE  /\ \A k \in DOMAIN collected :
              /\ collected[k].n = k /\ RunId("training", window, k) \in DOMAIN reported'
              /\ ~lost' => collected[k].score = reported'[RunId("training", window, k)][1]
BY DEF CollectedSound, Grown

(* The steps that leave the worker alone.                                  *)
LEMMA WalkStays ==
  ASSUME RunsInv, FlowInv, WalkInv, enabled \in Configurations, [FlowNext]_flowVars, UNCHANGED walkVars,
         WalkForwardHandles => Head(inbox["walkforward"]).run # session.run
  PROVE  WalkInv'
<1>1. UNCHANGED <<wfPlan, wfWindows, wfQueue, session, wfResults>>
  BY DEF walkVars
<1>2. Grown /\ DOMAIN reported' \subseteq DOMAIN reported \union Started
  BY ReportsGrow DEF Grown
<1>3. WindowsFit' /\ WindowsTyped'
  BY <1>1 DEF WalkInv, WindowsFit, WindowsTyped
<1>4. SessionSound'
  <2>1. Busy' = Busy
    BY <1>1 DEF Busy
  <2>2. Busy => CollectedSound(session.window, session.collected)'
    <3> SUFFICES ASSUME Busy PROVE CollectedSound(session.window, session.collected)'
      OBVIOUS
    <3>1. CollectedSound(session.window, session.collected)
      BY DEF WalkInv, SessionSound
    <3> QED
      BY <1>1, <1>2, <3>1, CollectedStays DEF CollectedSound
  <2>3. Busy /\ ~lost' => HeardFirst("walkforward", session.run)'
    <3> SUFFICES ASSUME Busy, ~lost' PROVE HeardFirst("walkforward", session.run)'
      OBVIOUS
    <3> DEFINE r == session.run
    <3>1. HeardFirst("walkforward", r) /\ "walkforward" \in Hearers /\ "walkforward" # "experiments"
      BY <1>2 DEF WalkInv, SessionSound, Grown, Hearers
    <3>2. r' = r
      BY <1>1
    <3>3. WalkForwardHandles => Head(inbox["walkforward"]).run # r
      OBVIOUS
    <3>5. ~lost'
      OBVIOUS
    <3> HIDE DEF r
    <3>4. ASSUME NEW x, x = r PROVE HeardFirst("walkforward", x)'
      BY <3>1, <3>3, <3>4, <3>5, HeardStays
    <3> QED
      BY <3>2, <3>4 DEF r
  <2> QED
    BY <1>1, <2>1, <2>2, <2>3 DEF WalkInv, SessionSound
<1>5. OnlyBegun'
  <2> SUFFICES ASSUME NEW r \in DOMAIN reported' PROVE r \in Runs /\ Begun(r)'
    BY DEF OnlyBegun
  <2>1. Begun(r) => Begun(r)'
    BY <1>1 DEF Begun, Busy
  <2>2. CASE r \in DOMAIN reported
    BY <2>1, <2>2 DEF WalkInv, OnlyBegun
  <2>3. CASE r \in DOMAIN expRuns
    BY <2>1, <2>3 DEF RunsInv, RunsTyped, Begun
  <2>4. CASE Busy /\ r = session.run
    <3>1. r \in Runs
      BY <2>4 DEF WalkInv, WindowsTyped, Sessions
    <3>2. r.window = session.window /\ r.window \in DOMAIN wfWindows /\ wfWindows[r.window] # "QUEUED"
      BY <2>4 DEF WalkInv, SessionSound, AtRun, StatusOf
    <3> QED
      BY <2>1, <2>4, <3>1, <3>2 DEF Begun
  <2> QED
    BY <1>2, <2>2, <2>3, <2>4 DEF Started, Busy
<1>6. BestKept'
  BY <1>1, <1>2, BestStays DEF WalkInv
<1> QED
  BY <1>3, <1>4, <1>5, <1>6 DEF WalkInv

(* The worker's own steps: what the channels and the reports hold stays.   *)
LEMMA WindowsFitStay == ASSUME WindowsFit, DOMAIN wfWindows' = DOMAIN wfWindows, wfPlan' = wfPlan PROVE WindowsFit'
BY DEF WindowsFit

(* A window that failed, or that is done: the worker is idle, and no       *)
(* window is active.                                                       *)
LEMMA WindowEnds ==
  ASSUME WalkInv, Busy, NEW status \in {"FAILED", "COMPLETED"}, MarkedAs(status), session' = NoSession,
         UNCHANGED <<wfPlan, wfQueue, reported>>,
         DOMAIN wfResults' = IF status = "COMPLETED" THEN DOMAIN wfResults \union {session.window}
                             ELSE DOMAIN wfResults
  PROVE  WindowsFit' /\ WindowsTyped' /\ SessionSound' /\ OnlyBegun'
<1> DEFINE w == session.window
<1>1. /\ w \in DOMAIN wfWindows /\ wfWindows[w] \in {"TRAINING", "VALIDATING"}
      /\ wfWindows \in [DOMAIN wfWindows -> WindowStatuses]
  BY DEF WalkInv, SessionSound, WindowsTyped, StatusOf
<1> HIDE DEF w
<1>2. wfWindows' = [wfWindows EXCEPT ![w] = status]
  BY DEF MarkedAs, w
<1>3. /\ DOMAIN wfWindows' = DOMAIN wfWindows /\ wfWindows'[w] = status
      /\ \A i \in DOMAIN wfWindows \ {w} : wfWindows'[i] = wfWindows[i]
      /\ wfWindows' \in [DOMAIN wfWindows -> WindowStatuses]
  BY <1>1, <1>2 DEF WindowStatuses
<1>4. session' \in Sessions /\ ~Busy'
  BY NoSessionTyped DEF Busy
<1>5. WindowsTyped'
  <2>1. {i \in DOMAIN wfWindows' : wfWindows'[i] = "QUEUED"} = ToSet(wfQueue')
    BY <1>1, <1>3 DEF WalkInv, WindowsTyped
  <2>2. {i \in DOMAIN wfWindows' : wfWindows'[i] = "COMPLETED"} = DOMAIN wfResults'
    BY <1>1, <1>3 DEF WalkInv, WindowsTyped, w
  <2> QED
    BY <1>3, <1>4, <2>1, <2>2 DEF WalkInv, WindowsTyped
<1>6. SessionSound'
  BY <1>1, <1>3, <1>4 DEF WalkInv, SessionSound, w
<1>7. OnlyBegun'
  <2> SUFFICES ASSUME NEW r \in DOMAIN reported PROVE r \in Runs /\ Begun(r)'
    BY DEF OnlyBegun
  <2>1. r \in Runs /\ Begun(r)
    BY DEF WalkInv, OnlyBegun
  <2> QED
    BY <1>1, <1>3, <1>4, <2>1 DEF Begun
<1> QED
  BY <1>3, <1>5, <1>6, <1>7, WindowsFitStay DEF WalkInv

LEMMA FailWindowKeeps ==
  ASSUME FlowInv, WalkInv, Busy, FailWindow, UNCHANGED <<reported, lost>> PROVE WalkInv'
<1>1. WindowsFit' /\ WindowsTyped' /\ SessionSound' /\ OnlyBegun'
  BY WindowEnds DEF FailWindow
<1>2. BestKept'
  <2>1. Grown /\ UNCHANGED wfResults
    BY DEF Grown, FailWindow
  <2> QED
    BY <2>1, BestStays DEF WalkInv
<1> QED
  BY <1>1, <1>2 DEF WalkInv

(* The next window: nothing of it was reported.                            *)
LEMMA TakeWindowKeeps ==
  ASSUME FlowInv, WalkInv, TakeWindow, UNCHANGED <<reported, busVars, lifeVars, enabled>> PROVE WalkInv'
<1> DEFINE w == Head(wfQueue)
           run == RunId("training", w, 1)
<1>1. /\ session.at = "idle" /\ wfQueue # <<>> /\ wfQueue' = Tail(wfQueue)
      /\ session' = [NoSession EXCEPT !.at = "executing", !.window = w, !.run = run]
      /\ wfWindows' = [wfWindows EXCEPT ![w] = "TRAINING"] /\ UNCHANGED <<wfPlan, wfResults>>
      /\ wfQueue \in Seq(Int) /\ wfWindows \in [DOMAIN wfWindows -> WindowStatuses]
  BY DEF TakeWindow, WalkInv, WindowsTyped
<1>2. /\ w = wfQueue[1] /\ 1 \in DOMAIN wfQueue /\ w \in Int /\ wfQueue' \in Seq(Int)
      /\ DOMAIN wfQueue = 1 .. Len(wfQueue) /\ DOMAIN wfQueue' = 1 .. Len(wfQueue) - 1 /\ Len(wfQueue) \in Nat
      /\ \A n \in DOMAIN wfQueue' : n + 1 \in DOMAIN wfQueue /\ wfQueue'[n] = wfQueue[n + 1] /\ n \in Nat
  BY <1>1
<1>3. w \in DOMAIN wfWindows /\ wfWindows[w] = "QUEUED"
  <2>1. w \in ToSet(wfQueue)
    BY <1>2 DEF ToSet
  <2> QED
    BY <2>1 DEF WalkInv, WindowsTyped
<1> HIDE DEF w
<1>4. run \in Runs /\ run.phase = "training" /\ run.window = w /\ run.n = 1
  BY <1>2 DEF RunId, Runs, Phases
<1> HIDE DEF run
<1>5. /\ session' \in Sessions /\ session'.at = "executing" /\ session'.window = w /\ session'.run = run
      /\ session'.collected = <<>> /\ Busy' /\ ~Busy
  BY <1>1, <1>2, <1>4, NoSessionTyped DEF Sessions, Busy
<1>6. /\ DOMAIN wfWindows' = DOMAIN wfWindows /\ wfWindows'[w] = "TRAINING"
      /\ \A i \in DOMAIN wfWindows \ {w} : wfWindows'[i] = wfWindows[i]
      /\ wfWindows' \in [DOMAIN wfWindows -> WindowStatuses]
  BY <1>1, <1>3 DEF WindowStatuses
<1>7. WindowsTyped'
  <2>1. Distinct(wfQueue')
    BY <1>2 DEF WalkInv, WindowsTyped, Distinct
  <2>2. ToSet(wfQueue') = ToSet(wfQueue) \ {w}
    <3>1. \A n \in DOMAIN wfQueue' : wfQueue'[n] \in ToSet(wfQueue) /\ wfQueue'[n] # w
      <4>1. \A n \in DOMAIN wfQueue' : n + 1 \in DOMAIN wfQueue /\ n + 1 # 1 /\ wfQueue'[n] = wfQueue[n + 1]
        BY <1>2
      <4>2. \A n \in DOMAIN wfQueue' : wfQueue'[n] \in ToSet(wfQueue)
        BY <4>1 DEF ToSet
      <4>3. \A n \in DOMAIN wfQueue : wfQueue[n] = wfQueue[1] => n = 1
        BY <1>2 DEF WalkInv, WindowsTyped, Distinct
      <4> QED
        BY <1>2, <4>1, <4>2, <4>3
    <3>2. \A n \in DOMAIN wfQueue : wfQueue[n] # w => wfQueue[n] \in ToSet(wfQueue')
      <4> SUFFICES ASSUME NEW n \in DOMAIN wfQueue, wfQueue[n] # w PROVE wfQueue[n] \in ToSet(wfQueue')
        OBVIOUS
      <4>1. n - 1 \in DOMAIN wfQueue' /\ (n - 1) + 1 = n
        BY <1>2
      <4>2. wfQueue'[n - 1] = wfQueue[n]
        BY <1>2, <4>1
      <4> QED
        BY <4>1, <4>2 DEF ToSet
    <3> QED
      BY <3>1, <3>2 DEF ToSet
  <2>3. {i \in DOMAIN wfWindows' : wfWindows'[i] = "QUEUED"} = ToSet(wfQueue')
    BY <1>3, <1>6, <2>2 DEF WalkInv, WindowsTyped
  <2>4. {i \in DOMAIN wfWindows' : wfWindows'[i] = "COMPLETED"} = DOMAIN wfResults'
    BY <1>1, <1>3, <1>6 DEF WalkInv, WindowsTyped
  <2> QED
    BY <1>2, <1>5, <1>6, <2>1, <2>3, <2>4 DEF WalkInv, WindowsTyped
<1>8. run \notin DOMAIN reported
  BY <1>3, <1>4 DEF WalkInv, OnlyBegun, Begun
<1>9. SessionSound'
  <2>1. AtRun(run, w, <<>>)
    BY <1>4 DEF AtRun
  <2>2. ASSUME NEW x, x = run PROVE HeardFirst("walkforward", x)'
    <3>1. HeardFirst("walkforward", x)
      BY <1>8, <2>2, UntoldUnheard DEF Hearers
    <3>2. UNCHANGED <<inbox, reported, busClosed, closed, enabled>>
      BY DEF busVars, lifeVars
    <3> QED
      BY <3>1, <3>2 DEF HeardFirst, Listening
  <2>3. HeardFirst("walkforward", session.run)'
    BY <1>5, <2>2
  <2>4. AtRun(session.run, session.window, session.collected)'
    BY <1>5, <2>1 DEF AtRun
  <2>5. CollectedSound(session.window, session.collected)'
    BY <1>5 DEF CollectedSound
  <2>6. wfWindows'[session'.window] = StatusOf(session'.run.phase)
    BY <1>4, <1>5, <1>6 DEF StatusOf
  <2> QED
    BY <1>3, <1>5, <1>6, <2>3, <2>4, <2>5, <2>6 DEF WalkInv, SessionSound
<1>10. OnlyBegun'
  <2> SUFFICES ASSUME NEW r \in DOMAIN reported PROVE r \in Runs /\ Begun(r)'
    BY DEF OnlyBegun
  <2>1. r \in Runs /\ Begun(r)
    BY DEF WalkInv, OnlyBegun
  <2> QED
    BY <1>3, <1>5, <1>6, <2>1 DEF Begun
<1>11. BestKept'
  <2>1. Grown
    BY DEF Grown, busVars
  <2> QED
    BY <1>1, <2>1, BestStays DEF WalkInv
<1> QED
  BY <1>1, <1>6, <1>7, <1>9, <1>10, <1>11, WindowsFitStay DEF WalkInv

(* The worker's steps that change no window.                               *)
LEMMA SessionMoves ==
  ASSUME FlowInv, WalkInv, UNCHANGED <<wfPlan, wfWindows, wfQueue, wfResults, reported, busVars, lifeVars, enabled>>,
         \/ session' = [session EXCEPT !.at = "awaiting"] /\ Busy
         \/ session' = [session EXCEPT !.at = "gone"] /\ ~Busy
  PROVE  WalkInv'
<1>1. session \in Sessions
  BY DEF WalkInv, WindowsTyped
<1>2. /\ session' \in Sessions /\ Busy' = Busy
      /\ session'.window = session.window /\ session'.run = session.run /\ session'.collected = session.collected
  BY <1>1 DEF Sessions, Busy
<1>3. UNCHANGED <<inbox, lost, busClosed, closed>>
  BY DEF busVars, lifeVars
<1>4. WindowsFit' /\ WindowsTyped' /\ BestKept'
  BY <1>2, <1>3 DEF WalkInv, WindowsFit, WindowsTyped, BestKept
<1>5. OnlyBegun'
  BY <1>2 DEF WalkInv, OnlyBegun, Begun
<1>6. SessionSound'
  <2>1. Busy => AtRun(session.run, session.window, session.collected)'
    BY <1>2 DEF WalkInv, SessionSound, AtRun
  <2>2. Busy => CollectedSound(session.window, session.collected)'
    BY <1>2, <1>3 DEF WalkInv, SessionSound, CollectedSound
  <2>3. Busy /\ ~lost => HeardFirst("walkforward", session.run)'
    BY <1>2, <1>3 DEF WalkInv, SessionSound, HeardFirst, Listening
  <2> QED
    BY <1>2, <1>3, <2>1, <2>2, <2>3 DEF WalkInv, SessionSound
<1> QED
  BY <1>4, <1>5, <1>6 DEF WalkInv

LEMMA WindowStepKeeps == ASSUME FlowInv, WalkInv, WindowSteps PROVE WalkInv'
<1>1. UNCHANGED <<reported, busVars, lifeVars, enabled>> /\ UNCHANGED lost
  BY DEF WindowSteps, busVars
<1>2. CASE TakeWindow
  BY <1>1, <1>2, TakeWindowKeeps
<1>3. CASE AwaitEnds
  BY <1>1, <1>3, FailWindowKeeps DEF AwaitEnds, Busy
<1>4. CASE QuitWindows("walkforward" \in cancelled)
  BY <1>1, <1>4, SessionMoves DEF QuitWindows, Busy
<1>5. ASSUME NEW failed \in BOOLEAN, WindowExecuted(failed) PROVE WalkInv'
  BY <1>1, <1>5, SessionMoves, FailWindowKeeps DEF WindowExecuted, Busy
<1> QED
  BY <1>2, <1>3, <1>4, <1>5 DEF WindowSteps

(* The update the worker awaits: its score is the first of its run.        *)
LEMMA Awaited ==
  ASSUME FlowInv, WalkInv, WalkForwardHandles, Accepts(Next1("walkforward"))
  PROVE  LET e == Next1("walkforward")
         IN /\ Busy /\ e = Head(inbox["walkforward"]) /\ e.run = session.run
            /\ session.run \in Runs /\ session.run \in DOMAIN reported /\ e.score \in Int
            /\ ~lost => e.score = reported[session.run][1]
            /\ Grown /\ UNCHANGED <<reported, enabled>>
<1> DEFINE e == Next1("walkforward")
<1>1. /\ Busy /\ inbox["walkforward"] # <<>> /\ e = Head(inbox["walkforward"]) /\ e.run = session.run
  BY DEF WalkForwardHandles, Waiting, Next1, Accepts, Busy
<1>2. /\ e.run \in DOMAIN reported /\ e.score \in ToSet(reported[e.run])
      /\ HeardFirst("walkforward", e.run) => e.score = reported[e.run][1]
  BY <1>1, FirstCounts DEF Hearers
<1> HIDE DEF e
<1>3. reported[e.run] \in Seq(Int)
  BY <1>2 DEF FlowInv, ReportedSound
<1>4. e.score \in Int
  BY <1>2, <1>3 DEF ToSet
<1>5. ~lost => e.score = reported[session.run][1]
  BY <1>1, <1>2 DEF WalkInv, SessionSound
<1>6. UNCHANGED <<reported, enabled>> /\ (~lost' => ~lost)
  BY DEF WalkForwardHandles, worldVars, Publish, PublishTo, FlowInv
<1>7. session.run \in Runs
  BY DEF WalkInv, WindowsTyped, Sessions
<1> QED
  BY <1>1, <1>2, <1>4, <1>5, <1>6, <1>7 DEF e, Grown

LEMMA CollectedGrows ==
  ASSUME FlowInv, WalkInv, WalkForwardHandles, Accepts(Next1("walkforward")),
         session.run.phase = "training"
  PROVE  LET c == Collected(Next1("walkforward"))
         IN /\ c \in Seq(Scorings) /\ Len(c) = session.run.n /\ DOMAIN c = 1 .. session.run.n
            /\ session.run = RunId("training", session.window, session.run.n) /\ session.run.n \in Nat
            /\ CollectedSound(session.window, c)
<1> DEFINE e == Next1("walkforward")
           v == [n |-> session.run.n, score |-> e.score]
           old == session.collected
           n == session.run.n
           w == session.window
<1>1. /\ Busy /\ e.run = session.run /\ session.run \in Runs /\ session.run \in DOMAIN reported /\ e.score \in Int
      /\ ~lost => e.score = reported[session.run][1]
  BY Awaited
<1>2. /\ old \in Seq(Scorings) /\ Len(old) = n - 1 /\ n \in Nat /\ session.run.window = w
      /\ CollectedSound(w, old)
  BY <1>1 DEF WalkInv, WindowsTyped, Sessions, SessionSound, AtRun
<1>3. Collected(e) = Append(old, v) /\ v \in Scorings /\ v.n = n /\ v.score = e.score
  BY <1>1, <1>2 DEF Collected, Scorings
<1>4. session.run = RunId("training", w, n)
  BY <1>1, <1>2 DEF Runs, RunId
<1> DEFINE c == Append(old, v)
<1>5. /\ c \in Seq(Scorings) /\ Len(c) = n /\ DOMAIN c = 1 .. n
      /\ \A k \in 1 .. n : IF k = n THEN c[k] = v ELSE k \in DOMAIN old /\ c[k] = old[k]
  <2> HIDE DEF old, v, n
  <2> QED
    BY <1>2, <1>3
<1>6. CollectedSound(w, c)
  <2> SUFFICES ASSUME NEW k \in DOMAIN c
               PROVE  /\ c[k].n = k /\ RunId("training", w, k) \in DOMAIN reported
                      /\ ~lost => c[k].score = reported[RunId("training", w, k)][1]
    BY DEF CollectedSound
  <2> HIDE DEF c, v, old, n, w
  <2>1. CASE k = n
    BY <1>1, <1>3, <1>4, <1>5, <2>1 DEF n, w
  <2>2. CASE k # n
    BY <1>2, <1>5, <2>2 DEF CollectedSound
  <2> QED
    BY <2>1, <2>2
<1> QED
  BY <1>2, <1>3, <1>4, <1>5, <1>6

(* A new run of the window: nothing of it was reported, so whatever is     *)
(* under way is of others.                                                 *)
LEMMA NewRunHeard ==
  ASSUME FlowInv, WalkInv, enabled \in Configurations, WalkForwardHandles, Accepts(Next1("walkforward")), ~lost',
         NEW run, run \notin DOMAIN reported
  PROVE  HeardFirst("walkforward", run)'
<1>1. /\ Head(inbox["walkforward"]).run = session.run /\ session.run \in DOMAIN reported
  BY Awaited
<1>2. HeardFirst("walkforward", run) /\ "walkforward" \in Hearers /\ "walkforward" # "experiments"
  BY UntoldUnheard DEF Hearers
<1>3. [FlowNext]_flowVars
  BY DEF FlowNext, EngineSteps
<1> QED
  BY <1>1, <1>2, <1>3, HeardStays

LEMMA NextTrainingKeeps ==
  ASSUME FlowInv, WalkInv, enabled \in Configurations, WalkForwardHandles, Accepts(Next1("walkforward")),
         NextTraining(Next1("walkforward"))
  PROVE  WalkInv'
<1> DEFINE e == Next1("walkforward")
           c == Collected(e)
           w == session.window
           n == session.run.n
<1>1. /\ Busy /\ e.run = session.run /\ session.run \in Runs /\ session.run \in DOMAIN reported
      /\ Grown /\ UNCHANGED <<reported, enabled>>
  BY Awaited
<1>2. /\ session.run.phase = "training" /\ UNCHANGED <<wfPlan, wfWindows, wfQueue, wfResults>>
      /\ session' = [session EXCEPT !.at = "executing", !.run.n = n + 1, !.collected = c]
  BY <1>1 DEF NextTraining
<1>3. /\ c \in Seq(Scorings) /\ Len(c) = n /\ n \in Nat /\ CollectedSound(w, c)
      /\ session.run = RunId("training", w, n)
  BY <1>2, CollectedGrows
<1>4. session \in Sessions /\ w \in DOMAIN wfWindows /\ wfWindows[w] = "TRAINING" /\ session.run.window = w
  BY <1>1, <1>2 DEF WalkInv, WindowsTyped, SessionSound, StatusOf, AtRun
<1> HIDE DEF e, c
<1>5. /\ session' \in Sessions /\ Busy' /\ session'.window = w /\ session'.collected = c
      /\ session'.run = RunId("training", w, n + 1)
      /\ session'.run.phase = "training" /\ session'.run.window = w /\ session'.run.n = n + 1
  <2> DEFINE run == RunId("training", w, n + 1)
  <2>1. run \in Runs /\ run.phase = "training" /\ run.window = w /\ run.n = n + 1
    <3>1. w \in Int /\ n + 1 \in Int
      BY <1>3, <1>4 DEF Sessions
    <3> HIDE DEF w, n
    <3> QED
      BY <3>1 DEF Runs, RunId, Phases
  <2>2. [session.run EXCEPT !.n = n + 1] = run
    <3>1. session.run = [phase |-> "training", window |-> w, n |-> n]
      BY <1>3 DEF RunId
    <3> HIDE DEF n, w
    <3> QED
      BY <3>1 DEF RunId
  <2> HIDE DEF run
  <2>3. /\ session'.at = "executing" /\ session'.window = w /\ session'.collected = c
        /\ session'.run = [session.run EXCEPT !.n = n + 1]
        /\ session' = [at |-> "executing", window |-> w, run |-> session'.run, collected |-> c]
    BY <1>2, <1>4 DEF Sessions
  <2>4. session' \in Sessions
    <3>1. w \in Int
      BY <1>4 DEF Sessions
    <3> QED
      BY <1>3, <2>1, <2>2, <2>3, <3>1 DEF Sessions
  <2> QED
    BY <2>1, <2>2, <2>3, <2>4 DEF Busy, run
<1>6. WindowsFit' /\ WindowsTyped' /\ BestKept'
  <2>1. BestKept'
    BY <1>1, <1>2, BestStays DEF WalkInv
  <2> QED
    BY <1>2, <1>5, <2>1 DEF WalkInv, WindowsFit, WindowsTyped
<1>7. ASSUME NEW run, run = RunId("training", w, n + 1) PROVE run \notin DOMAIN reported
  <2>1. run.phase = "training" /\ run.window = w /\ run.n = n + 1
    BY <1>7 DEF RunId
  <2> QED
    BY <1>1, <1>2, <1>3, <2>1 DEF WalkInv, OnlyBegun, Begun
<1>8. SessionSound'
  <2>1. AtRun(session.run, session.window, session.collected)'
    BY <1>3, <1>5 DEF AtRun
  <2>2. CollectedSound(session.window, session.collected)'
    BY <1>1, <1>3, <1>5, CollectedStays DEF CollectedSound
  <2>3. ASSUME ~lost', NEW run, run = RunId("training", w, n + 1) PROVE HeardFirst("walkforward", run)'
    BY <1>7, <2>3, NewRunHeard
  <2>4. ~lost' => HeardFirst("walkforward", session.run)'
    BY <1>5, <2>3
  <2>5. \A i \in DOMAIN wfWindows : wfWindows[i] \in {"TRAINING", "VALIDATING"} => i = w
    BY DEF WalkInv, SessionSound
  <2> HIDE DEF w
  <2> QED
    BY <1>2, <1>4, <1>5, <2>1, <2>2, <2>4, <2>5 DEF SessionSound, StatusOf
<1>9. OnlyBegun'
  <2> SUFFICES ASSUME NEW r \in DOMAIN reported PROVE r \in Runs /\ Begun(r)'
    BY <1>1 DEF OnlyBegun
  <2>1. r \in Runs /\ Begun(r)
    BY DEF WalkInv, OnlyBegun
  <2>2. r.n \in Int
    BY <2>1 DEF Runs
  <2> QED
    BY <1>1, <1>2, <1>3, <1>4, <1>5, <2>1, <2>2 DEF Begun
<1> QED
  BY <1>6, <1>8, <1>9 DEF WalkInv

LEMMA StartValidationKeeps ==
  ASSUME FlowInv, WalkInv, enabled \in Configurations, WalkForwardHandles, Accepts(Next1("walkforward")),
         StartValidation(Next1("walkforward"))
  PROVE  WalkInv'
<1> DEFINE e == Next1("walkforward")
           c == Collected(e)
           w == session.window
           n == session.run.n
<1>1. /\ Busy /\ e.run = session.run /\ session.run \in Runs /\ session.run \in DOMAIN reported
      /\ Grown /\ UNCHANGED <<reported, enabled>>
  BY Awaited
<1>2. /\ session.run.phase = "training" /\ n = Total /\ UNCHANGED <<wfPlan, wfQueue, wfResults>>
      /\ MarkedAs("VALIDATING")
  BY <1>1 DEF StartValidation, Total
<1>3. PICK best \in SelectBest(c) :
        session' = [session EXCEPT !.at = "executing", !.collected = c,
                                   !.run = RunId("validation", session.window, best.n)]
  BY DEF StartValidation
<1>4. /\ c \in Seq(Scorings) /\ Len(c) = n /\ n \in Nat /\ DOMAIN c = 1 .. n /\ CollectedSound(w, c)
  BY <1>2, CollectedGrows
<1>5. /\ session \in Sessions /\ w \in DOMAIN wfWindows /\ w \in Int /\ wfWindows[w] = "TRAINING" /\ session.run.window = w
      /\ wfWindows \in [DOMAIN wfWindows -> WindowStatuses]
  BY <1>1, <1>2 DEF WalkInv, WindowsTyped, SessionSound, StatusOf, AtRun
<1> HIDE DEF e, c
<1>6. PICK k \in DOMAIN c : best = c[k] /\ best.n = k /\ BestOf(c, k)
  <2>1. PICK k \in DOMAIN c : best = c[k]
    BY DEF SelectBest, ToSet
  <2>2. \A j \in DOMAIN c : c[j] \in ToSet(c) /\ c[j] \in Scorings
    BY <1>4 DEF ToSet
  <2>3. best.n = k
    BY <1>4, <2>1 DEF CollectedSound
  <2>4. \A j \in DOMAIN c : c[j].score <= c[k].score
    <3> SUFFICES ASSUME NEW j \in DOMAIN c PROVE c[j].score <= c[k].score
      OBVIOUS
    <3>1. best.score >= c[j].score
      BY <2>2 DEF SelectBest
    <3>2. c[j].score \in Int /\ c[k].score \in Int
      BY <2>2 DEF Scorings
    <3> QED
      BY <2>1, <3>1, <3>2
  <2> QED
    BY <2>1, <2>3, <2>4 DEF BestOf
<1> DEFINE run == RunId("validation", w, k)
<1>7. run \in Runs /\ run.phase = "validation" /\ run.window = w /\ run.n = k /\ k \in Nat
  BY <1>4, <1>5 DEF RunId, Runs, Phases
<1>8. /\ session' \in Sessions /\ Busy' /\ session'.window = w /\ session'.collected = c /\ session'.run = run
  BY <1>3, <1>4, <1>5, <1>6, <1>7 DEF Sessions, Busy
<1>9. /\ DOMAIN wfWindows' = DOMAIN wfWindows /\ wfWindows'[w] = "VALIDATING"
      /\ \A i \in DOMAIN wfWindows \ {w} : wfWindows'[i] = wfWindows[i]
      /\ wfWindows' \in [DOMAIN wfWindows -> WindowStatuses]
  BY <1>2, <1>5 DEF MarkedAs, WindowStatuses
<1>10. ASSUME NEW x, x = run PROVE x \notin DOMAIN reported
  BY <1>1, <1>2, <1>7, <1>10 DEF WalkInv, OnlyBegun, Begun
<1> HIDE DEF run
<1>11. WindowsFit' /\ BestKept'
  <2>1. BestKept'
    BY <1>1, <1>2, BestStays DEF WalkInv
  <2> QED
    BY <1>2, <1>9, <2>1, WindowsFitStay DEF WalkInv
<1>12. WindowsTyped'
  <2>1. {i \in DOMAIN wfWindows' : wfWindows'[i] = "QUEUED"} = ToSet(wfQueue')
    BY <1>2, <1>5, <1>9 DEF WalkInv, WindowsTyped
  <2>2. {i \in DOMAIN wfWindows' : wfWindows'[i] = "COMPLETED"} = DOMAIN wfResults'
    BY <1>2, <1>5, <1>9 DEF WalkInv, WindowsTyped
  <2> QED
    BY <1>2, <1>8, <1>9, <2>1, <2>2 DEF WalkInv, WindowsTyped
<1>13. SessionSound'
  <2>1. AtRun(session.run, session.window, session.collected)'
    BY <1>2, <1>4, <1>6, <1>7, <1>8 DEF AtRun, BestOf, Total
  <2>2. CollectedSound(session.window, session.collected)'
    BY <1>1, <1>4, <1>8, CollectedStays DEF CollectedSound
  <2>3. ASSUME ~lost', NEW x, x = run PROVE HeardFirst("walkforward", x)'
    BY <1>10, <2>3, NewRunHeard
  <2>4. ~lost' => HeardFirst("walkforward", session.run)'
    BY <1>8, <2>3
  <2>5. \A i \in DOMAIN wfWindows : wfWindows[i] \in {"TRAINING", "VALIDATING"} => i = w
    BY DEF WalkInv, SessionSound
  <2> HIDE DEF w
  <2> QED
    BY <1>5, <1>7, <1>8, <1>9, <2>1, <2>2, <2>4, <2>5 DEF SessionSound, StatusOf
<1>14. OnlyBegun'
  <2> SUFFICES ASSUME NEW r \in DOMAIN reported PROVE r \in Runs /\ Begun(r)'
    BY <1>1 DEF OnlyBegun
  <2>1. r \in Runs /\ Begun(r)
    BY DEF WalkInv, OnlyBegun
  <2> QED
    BY <1>1, <1>2, <1>5, <1>7, <1>8, <1>9, <2>1 DEF Begun
<1> QED
  BY <1>11, <1>12, <1>13, <1>14 DEF WalkInv

LEMMA FinishWindowKeeps ==
  ASSUME FlowInv, WalkInv, enabled \in Configurations, WalkForwardHandles, Accepts(Next1("walkforward")),
         FinishWindow(Next1("walkforward"))
  PROVE  WalkInv'
<1> DEFINE e == Next1("walkforward")
           c == session.collected
           w == session.window
           n == session.run.n
<1>1. /\ Busy /\ e.run = session.run /\ session.run \in Runs /\ session.run \in DOMAIN reported
      /\ ~lost => e.score = reported[session.run][1]
      /\ Grown /\ UNCHANGED <<reported, enabled>>
  BY Awaited
<1>2. /\ session.run.phase = "validation" /\ UNCHANGED <<wfPlan, wfQueue>>
      /\ wfResults' = Stored(wfResults, w, Validated(e)) /\ MarkedAs("COMPLETED") /\ session' = NoSession
  BY <1>1 DEF FinishWindow
<1>3. WindowsFit' /\ WindowsTyped' /\ SessionSound' /\ OnlyBegun'
  <2>1. DOMAIN wfResults' = DOMAIN wfResults \union {w}
    BY <1>2 DEF Stored
  <2> QED
    BY <1>1, <1>2, <2>1, WindowEnds
<1>4. /\ c \in Seq(Scorings) /\ DOMAIN c = 1 .. Total /\ BestOf(c, n) /\ CollectedSound(w, c)
      /\ session.run.window = w /\ n \in Nat
  BY <1>1, <1>2 DEF WalkInv, WindowsTyped, Sessions, SessionSound, AtRun
<1>5. session.run = RunId("validation", w, n)
  BY <1>1, <1>2, <1>4 DEF Runs, RunId
<1>6. LET best == CHOOSE x \in ToSet(c) : x.n = n IN best = c[n]
  <2>1. c[n] \in ToSet(c) /\ c[n].n = n
    BY <1>4 DEF BestOf, CollectedSound, ToSet
  <2>2. \A x \in ToSet(c) : x.n = n => x = c[n]
    BY <1>4 DEF BestOf, CollectedSound, ToSet
  <2> QED
    BY <2>1, <2>2
<1>7. /\ Validated(e).best = n /\ Validated(e).training = c[n].score /\ Validated(e).validation = e.score
  BY <1>1, <1>6 DEF Validated
<1> DEFINE v == Validated(e)
<1> HIDE DEF e, v
<1>8. /\ DOMAIN wfResults' = DOMAIN wfResults \union {w} /\ wfResults'[w] = v
      /\ \A i \in DOMAIN wfResults \ {w} : wfResults'[i] = wfResults[i]
  BY <1>2 DEF Stored, v
<1>9. /\ v.best = n /\ v.training = c[n].score /\ v.validation = e.score
  BY <1>7 DEF v
<1>10. BestKept'
  <2>1. ASSUME NEW i \in DOMAIN wfResults', i # w
        PROVE  LET best == wfResults'[i].best
               IN /\ best \in 1 .. Total /\ RunId("validation", i, best) \in DOMAIN reported
                  /\ \A k \in 1 .. Total : RunId("training", i, k) \in DOMAIN reported
                  /\ ~lost' =>
                       /\ wfResults'[i].training = reported[RunId("training", i, best)][1]
                       /\ \A k \in 1 .. Total : reported[RunId("training", i, k)][1] <= wfResults'[i].training
                       /\ wfResults'[i].validation = reported[RunId("validation", i, best)][1]
    BY <1>1, <1>8, <2>1 DEF WalkInv, BestKept, Grown
  <2>2. /\ n \in 1 .. Total /\ RunId("validation", w, n) \in DOMAIN reported
        /\ \A k \in 1 .. Total : RunId("training", w, k) \in DOMAIN reported
        /\ ~lost =>
             /\ c[n].score = reported[RunId("training", w, n)][1]
             /\ \A k \in 1 .. Total : reported[RunId("training", w, k)][1] <= c[n].score
             /\ e.score = reported[RunId("validation", w, n)][1]
    BY <1>1, <1>4, <1>5 DEF BestOf, CollectedSound
  <2>3. ~lost' => ~lost
    BY <1>1 DEF Grown
  <2> HIDE DEF c, w, n
  <2> QED
    BY <1>1, <1>8, <1>9, <2>1, <2>2, <2>3 DEF BestKept, Total
<1> QED
  BY <1>3, <1>10 DEF WalkInv

LEMMA WalkStep ==
  RunsInv /\ FlowInv /\ WalkInv /\ enabled \in Configurations /\ [FlowNext]_flowVars => WalkInv'
<1> SUFFICES ASSUME RunsInv, FlowInv, WalkInv, enabled \in Configurations, [FlowNext]_flowVars PROVE WalkInv'
  OBVIOUS
<1>1. CASE WindowSteps
  BY <1>1, WindowStepKeeps
<1>2. CASE WalkForwardHandles /\ Accepts(Next1("walkforward"))
  BY <1>2, NextTrainingKeeps, StartValidationKeeps, FinishWindowKeeps DEF WalkForwardHandles, DispatchOptimization
<1>3. CASE WalkForwardHandles /\ ~Accepts(Next1("walkforward"))
  BY <1>3, WalkStays DEF WalkForwardHandles, DispatchOptimization, Accepts, Next1
<1>4. CASE ~WindowSteps /\ ~WalkForwardHandles
  <2>1. UNCHANGED walkVars
    BY <1>4 DEF FlowNext, EngineSteps, Score, CloseBus, ExperimentSteps, ExperimentsHandle,
       MonteCarloHandles, ResearchHandles, Cancel, ConsumerEnds, Close, flowVars
  <2> QED
    BY <1>4, <2>1, WalkStays
<1> QED
  BY <1>1, <1>2, <1>3, <1>4

LEMMA ScoresStep ==
  RunsInv /\ FlowInv /\ ScoresInv /\ WalkInv /\ enabled \in Configurations /\ [FlowNext]_flowVars => ScoresInv'
<1> SUFFICES ASSUME RunsInv, FlowInv, ScoresInv, WalkInv, enabled \in Configurations, [FlowNext]_flowVars
             PROVE  ScoresInv'
  OBVIOUS
<1>1. CASE ExperimentSteps
  BY <1>1, ExperimentStepScores
<1>2. CASE ExperimentsHandle
  BY <1>2, HandledScores
<1>3. CASE ~ExperimentSteps /\ ~ExperimentsHandle
  <2>1. UNCHANGED experimentVars
    BY <1>3 DEF FlowNext, EngineSteps, Score, CloseBus, WindowSteps, WalkForwardHandles,
       MonteCarloHandles, ResearchHandles, Cancel, ConsumerEnds, Close, flowVars
  <2>2. session.at \in {"executing", "awaiting"} => session.run.phase \in {"training", "validation"}
    BY DEF WalkInv, SessionSound, AtRun, Busy
  <2> QED
    BY <1>3, <2>1, <2>2, OtherScores
<1> QED
  BY <1>1, <1>2, <1>3

(***************************************************************************)
(* All of it together.                                                     *)
(***************************************************************************)
ResearchInv == RunsInv /\ FlowInv /\ ScoresInv /\ WalkInv /\ enabled \in Configurations

LEMMA ResearchHolds == FlowSpec => []ResearchInv
<1>1. FlowInit => ResearchInv
  BY RunsStart, FlowStart, ScoresStart, WalkStart DEF FlowInit, ResearchInv
<1>2. ResearchInv /\ [FlowNext]_flowVars => ResearchInv'
  <2>1. [FlowNext]_flowVars => UNCHANGED enabled
    BY DEF FlowNext, EngineSteps, Score, CloseBus, ExperimentSteps, WindowSteps, ExperimentsHandle,
       WalkForwardHandles, MonteCarloHandles, ResearchHandles, Cancel, ConsumerEnds, Close, flowVars, worldVars
  <2> QED
    BY <2>1, RunsStep, FlowStep, ScoresStep, WalkStep DEF ResearchInv
<1> QED
  BY <1>1, <1>2, PTL DEF FlowSpec

(* No run is lost, run twice, or run beyond the number of slots, whichever *)
(* worker stops where, and no channel holds more than its room.            *)
THEOREM RunsAlwaysKept == FlowSpec => []RunsKept
<1>1. ResearchInv => RunsKept
  BY RunsThen DEF ResearchInv, RunsKept, FlowTypeOK, FlowInv, BoxesSound, LifeSound
<1> QED
  BY <1>1, ResearchHolds, PTL

(* The first score of a run counts for good, and the ranking has every     *)
(* result once, the best first, whatever workers and reports interleave.   *)
THEOREM ScoresAlwaysCount == FlowSpec => []ScoresCount
<1>1. ResearchInv => ScoresCount
  BY ScoresThen DEF ResearchInv
<1> QED
  BY <1>1, ResearchHolds, PTL

(* The windows cover the data of every plan, one is worked on at a time,   *)
(* and each validates the parameters whose first score in its own training *)
(* is the highest.                                                         *)
THEOREM WindowsAlwaysValidated == FlowSpec => []WindowsValidated
<1>1. ResearchInv => WindowsValidated
  BY WalkThen DEF ResearchInv
<1> QED
  BY <1>1, ResearchHolds, PTL

-----------------------------------------------------------------------------
(***************************************************************************)
(* What SumFunctionOnSet(f, S) of the community modules computes over a    *)
(* finite set S. It is a recursive function over the subsets of S that     *)
(* takes out an element of its choice. That there is one such function,    *)
(* and that the choice does not matter, is shown on a smallest set for     *)
(* which it would not be so.                                               *)
(***************************************************************************)
Chosen(s) == CHOOSE x \in s : TRUE

(* g is the function that adds up f over the subsets of S.                 *)
AddsUp(g, f, S) ==
  g = [s \in SUBSET S |-> IF s = {} THEN 0
                          ELSE f[Chosen(s)] + g[s \ {Chosen(s)}]]

LEMMA ChosenIn == ASSUME NEW s, s # {} PROVE Chosen(s) \in s
BY DEF Chosen

(* A family of subsets of a finite set has a smallest member.              *)
LEMMA Smallest ==
  ASSUME NEW S, IsFiniteSet(S), NEW T, T \subseteq SUBSET S, T # {}
  PROVE  \E t \in T : \A u \in T : ~ (u \subseteq t /\ u # t)
<1>1. IsWellFoundedOn(StrictSubsetOrdering(S), FiniteSubsetsOf(S))
  BY FS_StrictSubsetOrderingWellFounded
<1>2. T \subseteq FiniteSubsetsOf(S)
  BY FS_Subset DEF FiniteSubsetsOf
<1>3. PICK t \in T : \A u \in T : <<u, t>> \notin StrictSubsetOrdering(S)
  BY <1>1, <1>2, WFMin
<1> QED
  BY <1>3 DEF StrictSubsetOrdering

(* The functions that add up f over the subsets of S are the same.         *)
LEMMA OneSum ==
  ASSUME NEW f, NEW S, IsFiniteSet(S), NEW g, NEW h, AddsUp(g, f, S), AddsUp(h, f, S)
  PROVE  g = h
<1> DEFINE T == {t \in SUBSET S : g[t] # h[t]}
<1>1. SUFFICES ASSUME T # {} PROVE FALSE
  BY DEF AddsUp
<1>2. PICK t \in T : \A u \in T : ~ (u \subseteq t /\ u # t)
  <2>1. T \subseteq SUBSET S
    OBVIOUS
  <2> HIDE DEF T
  <2> QED
    BY <1>1, <2>1, Smallest
<1>3. t # {}
  BY DEF AddsUp
<1>4. /\ t \ {Chosen(t)} \subseteq t /\ t \ {Chosen(t)} # t
      /\ t \ {Chosen(t)} \in SUBSET S
  BY <1>3, ChosenIn
<1>5. g[t \ {Chosen(t)}] = h[t \ {Chosen(t)}]
  BY <1>2, <1>4
<1>6. g[t] = f[Chosen(t)] + g[t \ {Chosen(t)}]
  BY <1>3 DEF AddsUp
<1>7. h[t] = f[Chosen(t)] + h[t \ {Chosen(t)}]
  BY <1>3 DEF AddsUp
<1> QED
  BY <1>5, <1>6, <1>7

(* SumFunctionOnSet is such a function's value at S.                       *)
LEMMA SumIsValue ==
  ASSUME NEW f, NEW S
  PROVE  SumFunctionOnSet(f, S) = (CHOOSE g : AddsUp(g, f, S))[S]
BY DEF SumFunctionOnSet, FoldFunctionOnSet, MapThenFoldSet, AddsUp, Chosen

(* The sums over the subsets of a finite set are such a function.          *)
LEMMA SumsAddUp ==
  ASSUME NEW f, NEW S, IsFiniteSet(S)
  PROVE  AddsUp([s \in SUBSET S |-> SumFunctionOnSet(f, s)], f, S)
<1> DEFINE Sums(s) == [t \in SUBSET s |-> SumFunctionOnSet(f, t)]
           T == {s \in SUBSET S : ~ AddsUp(Sums(s), f, s)}
<1>1. SUFFICES ASSUME T # {} PROVE FALSE
  OBVIOUS
<1>2. PICK s \in T : \A u \in T : ~ (u \subseteq s /\ u # s)
  <2>1. T \subseteq SUBSET S
    OBVIOUS
  <2> HIDE DEF T
  <2> QED
    BY <1>1, <2>1, Smallest
<1>3. s \in SUBSET S /\ IsFiniteSet(s) /\ ~ AddsUp(Sums(s), f, s)
  BY FS_Subset
<1>4. ASSUME NEW t \in SUBSET s, t # s
      PROVE  SumFunctionOnSet(f, t) =
               IF t = {} THEN 0
               ELSE f[Chosen(t)] + SumFunctionOnSet(f, t \ {Chosen(t)})
  <2>1. t \in SUBSET S /\ t \notin T
    BY <1>2, <1>3, <1>4
  <2>2. AddsUp(Sums(t), f, t)
    BY <2>1
  <2>3. t \in SUBSET t /\ t \ {Chosen(t)} \in SUBSET t
    OBVIOUS
  <2>4. Sums(t)[t] = IF t = {} THEN 0
                     ELSE f[Chosen(t)] + Sums(t)[t \ {Chosen(t)}]
    BY <2>2, <2>3 DEF AddsUp
  <2> QED
    BY <2>3, <2>4
<1> DEFINE g == [t \in SUBSET s |->
                   IF t = {} THEN 0
                   ELSE f[Chosen(t)] + SumFunctionOnSet(f, t \ {Chosen(t)})]
<1>5. ASSUME NEW t \in SUBSET s, t # {}
      PROVE  g[t \ {Chosen(t)}] = SumFunctionOnSet(f, t \ {Chosen(t)})
  <2>1. t \ {Chosen(t)} \in SUBSET s /\ t \ {Chosen(t)} # s
    BY <1>5, ChosenIn
  <2> QED
    BY <1>4, <2>1
<1>6. AddsUp(g, f, s)
  BY <1>5 DEF AddsUp
<1>7. (CHOOSE h : AddsUp(h, f, s)) = g
  BY <1>3, <1>6, OneSum
<1>8. SumFunctionOnSet(f, s) = g[s]
  BY <1>7, SumIsValue
<1>9. \A t \in SUBSET s : SumFunctionOnSet(f, t) = g[t]
  BY <1>4, <1>8
<1>10. Sums(s) = g
  BY <1>9
<1> QED
  BY <1>3, <1>6, <1>10

LEMMA SumEmpty == \A f : SumFunctionOnSet(f, {}) = 0
<1> TAKE f
<1>1. AddsUp([s \in SUBSET {} |-> SumFunctionOnSet(f, s)], f, {})
  BY SumsAddUp, FS_EmptySet
<1> QED
  BY <1>1 DEF AddsUp

(* The recursion: an element, and the sum over the others.                 *)
LEMMA SumChosen ==
  ASSUME NEW f, NEW S, IsFiniteSet(S), S # {}
  PROVE  /\ Chosen(S) \in S
         /\ SumFunctionOnSet(f, S) =
              f[Chosen(S)] + SumFunctionOnSet(f, S \ {Chosen(S)})
<1> DEFINE g == [s \in SUBSET S |-> SumFunctionOnSet(f, s)]
<1>1. AddsUp(g, f, S)
  BY SumsAddUp
<1>2. S \in SUBSET S /\ S \ {Chosen(S)} \in SUBSET S
  OBVIOUS
<1>3. g[S] = f[Chosen(S)] + g[S \ {Chosen(S)}]
  BY <1>1, <1>2 DEF AddsUp
<1> QED
  BY <1>2, <1>3, ChosenIn

(* Sums of integers are integers.                                          *)
LEMMA SumInt ==
  ASSUME NEW f, NEW S, IsFiniteSet(S), \A x \in S : f[x] \in Int
  PROVE  SumFunctionOnSet(f, S) \in Int
<1> DEFINE T == {s \in SUBSET S : SumFunctionOnSet(f, s) \notin Int}
<1>1. SUFFICES ASSUME T # {} PROVE FALSE
  OBVIOUS
<1>2. PICK s \in T : \A u \in T : ~ (u \subseteq s /\ u # s)
  <2>1. T \subseteq SUBSET S
    OBVIOUS
  <2> HIDE DEF T
  <2> QED
    BY <1>1, <2>1, Smallest
<1>3. s \in SUBSET S /\ IsFiniteSet(s) /\ s # {}
  <2>1. SumFunctionOnSet(f, {}) = 0
    BY SumEmpty
  <2>2. s # {}
    BY <2>1
  <2> QED
    BY <2>2, FS_Subset
<1>4. /\ Chosen(s) \in s
      /\ SumFunctionOnSet(f, s) = f[Chosen(s)] + SumFunctionOnSet(f, s \ {Chosen(s)})
  BY <1>3, SumChosen
<1>5. SumFunctionOnSet(f, s \ {Chosen(s)}) \in Int
  <2>1. /\ s \ {Chosen(s)} \subseteq s /\ s \ {Chosen(s)} # s
        /\ s \ {Chosen(s)} \in SUBSET S
    BY <1>3, <1>4
  <2> QED
    BY <1>2, <2>1
<1> QED
  BY <1>2, <1>3, <1>4, <1>5

(* The sum with any element taken out first, whichever one is chosen.      *)
LEMMA SumRemove ==
  ASSUME NEW f, NEW S, IsFiniteSet(S), \A x \in S : f[x] \in Int, NEW e \in S
  PROVE  SumFunctionOnSet(f, S) = f[e] + SumFunctionOnSet(f, S \ {e})
<1> DEFINE Off(s, x) == SumFunctionOnSet(f, s) # f[x] + SumFunctionOnSet(f, s \ {x})
           T == {s \in SUBSET S : \E x \in s : Off(s, x)}
<1>1. SUFFICES ASSUME T # {} PROVE FALSE
  OBVIOUS
<1>2. PICK s \in T : \A u \in T : ~ (u \subseteq s /\ u # s)
  <2>1. T \subseteq SUBSET S
    OBVIOUS
  <2> HIDE DEF T
  <2> QED
    BY <1>1, <2>1, Smallest
<1>3. s \in SUBSET S /\ IsFiniteSet(s)
  BY FS_Subset
<1>4. PICK x \in s : Off(s, x)
  OBVIOUS
<1> DEFINE c == Chosen(s)
           both == s \ {c, x}
<1>5. c \in s /\ SumFunctionOnSet(f, s) = f[c] + SumFunctionOnSet(f, s \ {c})
  BY <1>3, <1>4, SumChosen
<1>6. c # x
  BY <1>4, <1>5
<1>7. SumFunctionOnSet(f, s \ {c}) = f[x] + SumFunctionOnSet(f, both)
  <2>1. /\ s \ {c} \subseteq s /\ s \ {c} # s /\ s \ {c} \in SUBSET S
        /\ x \in s \ {c} /\ (s \ {c}) \ {x} = both
    BY <1>3, <1>5, <1>6
  <2>2. ~ Off(s \ {c}, x)
    BY <1>2, <2>1
  <2> QED
    BY <2>1, <2>2
<1>8. SumFunctionOnSet(f, s \ {x}) = f[c] + SumFunctionOnSet(f, both)
  <2>1. /\ s \ {x} \subseteq s /\ s \ {x} # s /\ s \ {x} \in SUBSET S
        /\ c \in s \ {x} /\ (s \ {x}) \ {c} = both
    BY <1>3, <1>5, <1>6
  <2>2. ~ Off(s \ {x}, c)
    BY <1>2, <2>1
  <2> QED
    BY <2>1, <2>2
<1>9. f[c] \in Int /\ f[x] \in Int /\ SumFunctionOnSet(f, both) \in Int
  <2>1. both \subseteq S /\ IsFiniteSet(both)
    BY <1>3, FS_Subset
  <2> HIDE DEF both
  <2> QED
    BY <1>3, <1>5, <2>1, SumInt
<1> QED
  BY <1>4, <1>5, <1>7, <1>8, <1>9

(* Only the values on the set count.                                       *)
LEMMA SumSame ==
  ASSUME NEW f, NEW g, NEW S, IsFiniteSet(S), \A x \in S : f[x] = g[x]
  PROVE  SumFunctionOnSet(f, S) = SumFunctionOnSet(g, S)
<1> DEFINE T == {s \in SUBSET S : SumFunctionOnSet(f, s) # SumFunctionOnSet(g, s)}
<1>1. SUFFICES ASSUME T # {} PROVE FALSE
  OBVIOUS
<1>2. PICK s \in T : \A u \in T : ~ (u \subseteq s /\ u # s)
  <2>1. T \subseteq SUBSET S
    OBVIOUS
  <2> HIDE DEF T
  <2> QED
    BY <1>1, <2>1, Smallest
<1>3. s \in SUBSET S /\ IsFiniteSet(s) /\ s # {}
  BY FS_Subset, SumEmpty
<1>4. /\ Chosen(s) \in s
      /\ SumFunctionOnSet(f, s) = f[Chosen(s)] + SumFunctionOnSet(f, s \ {Chosen(s)})
      /\ SumFunctionOnSet(g, s) = g[Chosen(s)] + SumFunctionOnSet(g, s \ {Chosen(s)})
  BY <1>3, SumChosen
<1>5. SumFunctionOnSet(f, s \ {Chosen(s)}) = SumFunctionOnSet(g, s \ {Chosen(s)})
  <2>1. /\ s \ {Chosen(s)} \subseteq s /\ s \ {Chosen(s)} # s
        /\ s \ {Chosen(s)} \in SUBSET S
    BY <1>3, <1>4
  <2> QED
    BY <1>2, <2>1
<1>6. f[Chosen(s)] = g[Chosen(s)]
  BY <1>3, <1>4
<1> QED
  BY <1>2, <1>4, <1>5, <1>6

(* ... and with an element added.                                          *)
LEMMA SumAdd ==
  ASSUME NEW f, NEW S, IsFiniteSet(S), NEW e, e \notin S,
         \A x \in S \union {e} : f[x] \in Int
  PROVE  SumFunctionOnSet(f, S \union {e}) = f[e] + SumFunctionOnSet(f, S)
<1>1. IsFiniteSet(S \union {e}) /\ e \in S \union {e} /\ (S \union {e}) \ {e} = S
  BY FS_AddElement
<1> QED
  BY <1>1, SumRemove

(* A set on which the value is the same throughout adds as many of it.     *)
LEMMA OneMore == ASSUME NEW c \in Int, NEW y \in Int PROVE (c + 1) * y = c * y + y /\ c * y \in Int
OBVIOUS

LEMMA SumWith ==
  ASSUME NEW f, NEW S, IsFiniteSet(S), NEW R, IsFiniteSet(R), \A x \in R : x \notin S,
         NEW y \in Int, \A x \in S : f[x] \in Int, \A x \in R : f[x] = y
  PROVE  SumFunctionOnSet(f, S \union R) = SumFunctionOnSet(f, S) + Cardinality(R) * y
<1> DEFINE Off(r) == SumFunctionOnSet(f, S \union r) # SumFunctionOnSet(f, S) + Cardinality(r) * y
           T == {r \in SUBSET R : Off(r)}
<1>1. SUFFICES ASSUME T # {} PROVE FALSE
  OBVIOUS
<1>2. PICK r \in T : \A u \in T : ~ (u \subseteq r /\ u # r)
  <2>1. T \subseteq SUBSET R
    OBVIOUS
  <2> HIDE DEF T
  <2> QED
    BY <1>1, <2>1, Smallest
<1>3. r \in SUBSET R /\ IsFiniteSet(r) /\ SumFunctionOnSet(f, S) \in Int
  BY FS_Subset, SumInt
<1>4. r # {}
  <2>1. Cardinality({}) = 0 /\ S \union {} = S /\ 0 * y = 0
    BY FS_EmptySet
  <2>2. ~ Off({})
    BY <1>3, <2>1
  <2> QED
    BY <2>2
<1>5. PICK e \in r : TRUE
  BY <1>4
<1>6. /\ IsFiniteSet(r \ {e}) /\ Cardinality(r \ {e}) \in Nat
      /\ Cardinality(r) = Cardinality(r \ {e}) + 1
  <2>1. IsFiniteSet(r \ {e}) /\ Cardinality(r \ {e}) = Cardinality(r) - 1 /\ Cardinality(r) \in Nat
    BY <1>3, <1>5, FS_RemoveElement, FS_CardinalityType
  <2>2. Cardinality(r \ {e}) \in Nat
    BY <2>1, FS_CardinalityType
  <2> QED
    BY <2>1, <2>2
<1>7. SumFunctionOnSet(f, S \union (r \ {e})) = SumFunctionOnSet(f, S) + Cardinality(r \ {e}) * y
  <2>1. r \ {e} \in SUBSET R /\ r \ {e} \subseteq r /\ r \ {e} # r
    BY <1>3, <1>5
  <2>2. ~ Off(r \ {e})
    BY <1>2, <2>1
  <2> QED
    BY <2>2
<1>8. SumFunctionOnSet(f, S \union r) = y + SumFunctionOnSet(f, S \union (r \ {e}))
  <2>1. IsFiniteSet(S \union r) /\ e \in S \union r /\ (S \union r) \ {e} = S \union (r \ {e})
    BY <1>3, <1>5, FS_Union
  <2>2. \A x \in S \union r : f[x] \in Int
    BY <1>3
  <2>3. f[e] = y
    BY <1>3, <1>5
  <2> QED
    BY <2>1, <2>2, <2>3, SumRemove
<1>9. Cardinality(r) * y = Cardinality(r \ {e}) * y + y /\ Cardinality(r \ {e}) * y \in Int
  BY <1>6, OneMore
<1>10. SumFunctionOnSet(f, S \union r) = SumFunctionOnSet(f, S) + Cardinality(r) * y
  <2> DEFINE a == SumFunctionOnSet(f, S)
             b == Cardinality(r \ {e}) * y
  <2>1. a \in Int /\ b \in Int /\ SumFunctionOnSet(f, S \union r) = y + (a + b) /\ Cardinality(r) * y = b + y
    BY <1>3, <1>7, <1>8, <1>9
  <2> HIDE DEF a, b
  <2>2. SumFunctionOnSet(f, S \union r) = a + (b + y)
    BY <2>1
  <2> QED
    BY <2>1, <2>2 DEF a
<1> QED
  BY <1>10

LEMMA SumOfSame ==
  ASSUME NEW f, NEW R, IsFiniteSet(R), NEW y \in Int, \A x \in R : f[x] = y
  PROVE  SumFunctionOnSet(f, R) = Cardinality(R) * y
<1>1. SumFunctionOnSet(f, {} \union R) = SumFunctionOnSet(f, {}) + Cardinality(R) * y
  BY SumWith, FS_EmptySet
<1>2. {} \union R = R /\ SumFunctionOnSet(f, {}) = 0 /\ Cardinality(R) * y \in Int
  BY SumEmpty, FS_CardinalityType, OneMore
<1> QED
  BY <1>1, <1>2

(* The same values in other places.                                        *)
LEMMA SumMoved ==
  ASSUME NEW S, IsFiniteSet(S), NEW f \in [S -> S], \A x, y \in S : f[x] = f[y] => x = y,
         NEW h, \A x \in S : h[x] \in Int, NEW g, \A x \in S : g[x] = h[f[x]]
  PROVE  SumFunctionOnSet(g, S) = SumFunctionOnSet(h, S)
<1> DEFINE To(s) == {f[x] : x \in s}
           T == {s \in SUBSET S : SumFunctionOnSet(g, s) # SumFunctionOnSet(h, To(s))}
<1>1. T = {}
  <2>1. SUFFICES ASSUME T # {} PROVE FALSE
    OBVIOUS
  <2>2. PICK s \in T : \A u \in T : ~ (u \subseteq s /\ u # s)
    <3>1. T \subseteq SUBSET S
      OBVIOUS
    <3> HIDE DEF T
    <3> QED
      BY <2>1, <3>1, Smallest
  <2>3. s \in SUBSET S /\ IsFiniteSet(s)
    BY FS_Subset
  <2>4. s # {}
    <3>1. To({}) = {}
      OBVIOUS
    <3> QED
      BY <3>1, SumEmpty
  <2>5. PICK e \in s : TRUE
    BY <2>4
  <2>6. SumFunctionOnSet(g, s \ {e}) = SumFunctionOnSet(h, To(s \ {e}))
    <3>1. s \ {e} \in SUBSET S /\ s \ {e} \subseteq s /\ s \ {e} # s
      BY <2>3, <2>5
    <3> QED
      BY <2>2, <3>1
  <2>7. SumFunctionOnSet(g, s) = g[e] + SumFunctionOnSet(g, s \ {e})
    <3>1. \A x \in s : g[x] \in Int
      BY <2>3
    <3> QED
      BY <2>3, <2>5, <3>1, SumRemove
  <2>8. SumFunctionOnSet(h, To(s)) = h[f[e]] + SumFunctionOnSet(h, To(s \ {e}))
    <3>1. To(s) = To(s \ {e}) \union {f[e]} /\ f[e] \notin To(s \ {e}) /\ To(s) \subseteq S
      BY <2>3, <2>5
    <3>2. IsFiniteSet(To(s \ {e})) /\ \A x \in To(s \ {e}) \union {f[e]} : h[x] \in Int
      BY <3>1, FS_Subset
    <3> HIDE DEF To
    <3> QED
      BY <3>1, <3>2, SumAdd
  <2>9. g[e] = h[f[e]]
    BY <2>3, <2>5
  <2> QED
    BY <2>6, <2>7, <2>8, <2>9
<1>2. SumFunctionOnSet(g, S) = SumFunctionOnSet(h, To(S))
  BY <1>1
<1>3. To(S) = S
  <2>1. f \in Injection(S, S)
    BY DEF Injection, IsInjective
  <2>2. f \in Surjection(S, S)
    BY <2>1, FS_Injection
  <2> QED
    BY <2>2 DEF Surjection
<1> QED
  BY <1>2, <1>3

(* A finite set of integers has a least and a greatest one.                *)
LEMMA LeastOf ==
  ASSUME NEW S, IsFiniteSet(S), S # {}, S \subseteq Int
  PROVE  /\ \E x \in S : \A y \in S : x <= y
         /\ \E x \in S : \A y \in S : x >= y
<1> DEFINE Ends(s) == (\E x \in s : \A y \in s : x <= y) /\ (\E x \in s : \A y \in s : x >= y)
           T == {s \in SUBSET S : s # {} /\ ~ Ends(s)}
<1>1. SUFFICES ASSUME T # {} PROVE FALSE
  OBVIOUS
<1>2. PICK s \in T : \A u \in T : ~ (u \subseteq s /\ u # s)
  <2>1. T \subseteq SUBSET S
    OBVIOUS
  <2> HIDE DEF T
  <2> QED
    <3>1. IsFiniteSet(S)
      OBVIOUS
    <3> QED
      BY ONLY <1>1, <2>1, <3>1, Smallest
<1>3. PICK e \in s : TRUE
  OBVIOUS
<1>4. s \ {e} # {}
  <2>1. CASE s \ {e} = {}
    <3>1. s = {e} /\ e \in Int
      BY <1>3, <2>1
    <3>2. Ends(s)
      BY <3>1
    <3> QED
      BY <3>2
  <2> QED
    BY <2>1
<1>5. Ends(s \ {e})
  <2>1. s \ {e} \in SUBSET S /\ s \ {e} \subseteq s /\ s \ {e} # s
    BY <1>3
  <2> QED
    BY <1>2, <1>4, <2>1
<1>6. PICK x \in s \ {e} : \A y \in s \ {e} : x <= y
  BY <1>5
<1>7. PICK z \in s \ {e} : \A y \in s \ {e} : z >= y
  BY <1>5
<1>8. s \subseteq Int
  OBVIOUS
<1>9. \E w \in s : \A y \in s : w <= y
  <2>1. CASE e <= x
    <3>1. \A y \in s : e <= y
      BY <1>3, <1>6, <1>8, <2>1
    <3> QED
      BY <1>3, <3>1
  <2>2. CASE ~(e <= x)
    <3>1. \A y \in s : x <= y
      BY <1>3, <1>6, <1>8, <2>2
    <3> QED
      BY <1>6, <3>1
  <2> QED
    BY <2>1, <2>2
<1>10. \E w \in s : \A y \in s : w >= y
  <2>1. CASE e >= z
    <3>1. \A y \in s : e >= y
      BY <1>3, <1>7, <1>8, <2>1
    <3> QED
      BY <1>3, <3>1
  <2>2. CASE ~(e >= z)
    <3>1. \A y \in s : z >= y
      BY <1>3, <1>7, <1>8, <2>2
    <3> QED
      BY <1>7, <3>1
  <2> QED
    BY <2>1, <2>2
<1> QED
  BY <1>9, <1>10

-----------------------------------------------------------------------------
(***************************************************************************)
(* Monte Carlo. The trades that are made up from the totals of a window    *)
(* add up to its profit, and those made up from a profit are all equal.    *)
(***************************************************************************)
LEMMA TimesIs ==
  ASSUME NEW n \in Nat, NEW x \in Int
  PROVE  /\ Times(n, x) \in Seq(Int) /\ Len(Times(n, x)) = n /\ DOMAIN Times(n, x) = 1 .. n
         /\ \A i \in 1 .. n : Times(n, x)[i] = x
BY DEF Times

LEMMA TotalOfTimes ==
  ASSUME NEW n \in Nat, NEW x \in Int
  PROVE  TotalReturn(Times(n, x)) = n * x
<1> DEFINE t == Times(n, x)
<1>1. DOMAIN t = 1 .. n /\ \A i \in 1 .. n : t[i] = x
  BY TimesIs
<1>2. IsFiniteSet(1 .. n) /\ Cardinality(1 .. n) = n
  <2>1. 1 \in Int /\ n \in Int
    OBVIOUS
  <2>2. IsFiniteSet(1 .. n) /\ Cardinality(1 .. n) = IF 1 > n THEN 0 ELSE n - 1 + 1
    BY <2>1, FS_Interval
  <2> QED
    BY <2>2
<1> HIDE DEF t
<1>3. SumFunctionOnSet(t, 1 .. n) = Cardinality(1 .. n) * x
  BY <1>1, <1>2, SumOfSame
<1> QED
  BY <1>1, <1>2, <1>3 DEF TotalReturn, t

TwoPart(t, a, b, x, y) == t = Times(a, x) \o Times(b, y)

LEMMA TwoParts ==
  ASSUME NEW a \in Nat, NEW b \in Nat, NEW x \in Int, NEW y \in Int, NEW t, TwoPart(t, a, b, x, y)
  PROVE  /\ t \in Seq(Int) /\ Len(t) = a + b /\ DOMAIN t = 1 .. a + b
         /\ \A i \in DOMAIN t : t[i] = IF i <= a THEN x ELSE y
         /\ TotalReturn(t) = a * x + b * y
<1> t = Times(a, x) \o Times(b, y)
  BY DEF TwoPart
<1> DEFINE P == 1 .. a
           R == a + 1 .. a + b
<1>1. /\ Times(a, x) \in Seq(Int) /\ Len(Times(a, x)) = a /\ \A i \in 1 .. a : Times(a, x)[i] = x
      /\ Times(b, y) \in Seq(Int) /\ Len(Times(b, y)) = b /\ \A i \in 1 .. b : Times(b, y)[i] = y
  BY TimesIs
<1>2. /\ t \in Seq(Int) /\ Len(t) = a + b /\ DOMAIN t = 1 .. a + b
      /\ \A i \in 1 .. a + b : t[i] = IF i <= a THEN x ELSE y
  <2> DEFINE p == Times(a, x)
             q == Times(b, y)
  <2>1. p \in Seq(Int) /\ q \in Seq(Int) /\ Len(p) = a /\ Len(q) = b
    BY <1>1
  <2>2. /\ p \o q \in Seq(Int) /\ Len(p \o q) = a + b
        /\ \A i \in 1 .. a + b : (p \o q)[i] = IF i <= a THEN p[i] ELSE q[i - a]
    <3> HIDE DEF p, q
    <3> QED
      BY <2>1, ConcatProperties
  <2>3. ASSUME NEW i \in 1 .. a + b PROVE (p \o q)[i] = IF i <= a THEN x ELSE y
    <3>1. CASE i <= a
      BY <1>1, <2>2, <3>1
    <3>2. CASE ~(i <= a)
      <4>1. i - a \in 1 .. b
        BY <3>2
      <4> QED
        BY <1>1, <2>2, <3>2, <4>1
    <3> QED
      BY <3>1, <3>2
  <2>4. DOMAIN (p \o q) = 1 .. a + b
    <3> HIDE DEF p, q
    <3> QED
      BY <2>2
  <2> QED
    BY <2>2, <2>3, <2>4
<1>3. IsFiniteSet(P) /\ Cardinality(P) = a /\ IsFiniteSet(R) /\ Cardinality(R) = b
  <2>1. 1 \in Int /\ a \in Int /\ a + 1 \in Int /\ a + b \in Int
    OBVIOUS
  <2>2. /\ IsFiniteSet(P) /\ Cardinality(P) = IF 1 > a THEN 0 ELSE a - 1 + 1
        /\ IsFiniteSet(R) /\ Cardinality(R) = IF a + 1 > a + b THEN 0 ELSE (a + b) - (a + 1) + 1
    BY <2>1, FS_Interval
  <2> QED
    BY <2>2
<1>4. P \union R = 1 .. a + b /\ (\A i \in P : t[i] = x /\ i \in 1 .. a + b) /\ \A i \in R : t[i] = y /\ i \notin P
  BY <1>2
<1>8. x \in Int /\ y \in Int
  OBVIOUS
<1> HIDE DEF P, R
<1>5. SumFunctionOnSet(t, P \union R) = SumFunctionOnSet(t, P) + Cardinality(R) * y
  BY ONLY <1>3, <1>4, <1>8, SumWith
<1>6. SumFunctionOnSet(t, P) = Cardinality(P) * x
  BY ONLY <1>3, <1>4, <1>8, SumOfSame
<1>7. TotalReturn(t) = a * x + b * y
  BY <1>2, <1>3, <1>4, <1>5, <1>6 DEF TotalReturn
<1> QED
  BY <1>2, <1>7

(* A series of one trade.                                                  *)
LEMMA OneTrade ==
  ASSUME NEW x \in Int
  PROVE  <<x>> \in Seq(Int) /\ Len(<<x>>) = 1 /\ DOMAIN <<x>> = {1} /\ <<x>>[1] = x /\ TotalReturn(<<x>>) = x
<1> DEFINE t == <<x>>
<1>1. t \in Seq(Int) /\ Len(t) = 1 /\ DOMAIN t = {1} /\ t[1] = x
  OBVIOUS
<1> HIDE DEF t
<1>2. IsFiniteSet({1}) /\ Cardinality({1}) = 1
  BY FS_Singleton, Zenon
<1>3. SumFunctionOnSet(t, {1}) = Cardinality({1}) * x /\ 1 * x = x
  BY <1>1, <1>2, SumOfSame
<1>4. TotalReturn(t) = x
  BY <1>1, <1>2, <1>3 DEF TotalReturn
<1> QED
  BY <1>1, <1>4 DEF t

LEMMA Product == ASSUME NEW a \in Int, NEW b \in Int PROVE a * b \in Int
OBVIOUS

LEMMA NoMore == ASSUME NEW n \in Nat, NEW x \in Int, x <= 0 PROVE n * x <= 0
OBVIOUS

LEMMA Distributes ==
  ASSUME NEW a \in Int, NEW b \in Int, NEW n \in Int, n = a + b, NEW x \in Int
  PROVE  n * x - a * x = b * x
OBVIOUS

LEMMA Cancels == ASSUME NEW n \in Nat, n > 0, NEW x \in Int, NEW y \in Int, n * x = n * y PROVE x = y
OBVIOUS

LEMMA TheRest ==
  ASSUME NEW n \in Nat, NEW w \in Nat, NEW l \in Nat, w + l = n, l > 0, NEW x \in Int, NEW c \in Int,
         l * c = n * x - w * x
  PROVE  c = x
<1>1. n * x - w * x = l * x
  BY Distributes
<1> QED
  BY <1>1, Cancels

(* ExtractTradeReturns.                                                    *)
LEMMA MadeUp ==
  ASSUME NEW m \in Metrics, ExtractTradeReturns(m) # <<>>
  PROVE  LET t == ExtractTradeReturns(m)
         IN /\ t \in Seq(Int) /\ DOMAIN t = 1 .. Len(t) /\ Len(t) \in Nat \ {0}
            /\ TotalReturn(t) = m.net
            /\ m.net > 0 => \E x \in Int : x > 0 /\ \A i \in DOMAIN t : t[i] = x
<1> DEFINE t == ExtractTradeReturns(m)
           losses == m.trades - m.wins
           share == m.net \div m.trades
           left == m.net - m.wins * AverageWin(m)
           cost == left \div losses
<1>1. /\ m.trades \in Nat /\ m.wins \in 0 .. m.trades /\ m.net \in Int
      /\ m.trades > 0 => m.trades * share = m.net
      /\ m.wins > 0 /\ losses > 0 => losses * cost = left
  BY TotalsDivide
<1>2. m.wins \in Nat /\ losses \in Nat /\ m.wins + losses = m.trades
  BY <1>1
<1>3. CASE m.trades = 0
  <2>1. t = <<m.net>>
    BY <1>3 DEF ExtractTradeReturns
  <2>2. /\ <<m.net>> \in Seq(Int) /\ Len(<<m.net>>) = 1 /\ DOMAIN <<m.net>> = {1} /\ <<m.net>>[1] = m.net
        /\ TotalReturn(<<m.net>>) = m.net
    BY <1>1, OneTrade
  <2>3. {1} = 1 .. 1
    OBVIOUS
  <2> HIDE DEF t
  <2> QED
    BY <1>1, <2>1, <2>2, <2>3 DEF t
<1>4. CASE m.trades > 0
  <2>1. share \in Int /\ (m.net > 0 => share > 0)
    <3>1. share \in Int
      BY <1>1, <1>4
    <3>2. ASSUME m.net > 0, ~(share > 0) PROVE FALSE
      <4>1. share <= 0
        BY <3>1, <3>2
      <4>2. m.trades * share <= 0
        BY <1>1, <3>1, <4>1, NoMore
      <4> QED
        BY <1>1, <1>4, <3>2, <4>2
    <3> QED
      BY <3>1, <3>2
  <2>2. CASE m.wins = 0 \/ losses = 0
    <3>1. t = Times(m.trades, share)
      <4>1. m.trades # 0
        BY <1>4
      <4> QED
        BY <2>2, <4>1, Zenon DEF ExtractTradeReturns
    <3>2. TotalReturn(Times(m.trades, share)) = m.trades * share
      BY <1>1, <2>1, TotalOfTimes
    <3>3. /\ Times(m.trades, share) \in Seq(Int) /\ Len(Times(m.trades, share)) = m.trades
          /\ DOMAIN Times(m.trades, share) = 1 .. m.trades
          /\ \A i \in 1 .. m.trades : Times(m.trades, share)[i] = share
      BY <1>1, <2>1, TimesIs
    <3> DEFINE u == Times(m.trades, share)
    <3>4. /\ u \in Seq(Int) /\ Len(u) = m.trades /\ DOMAIN u = 1 .. m.trades
          /\ \A i \in DOMAIN u : u[i] = share
          /\ TotalReturn(u) = m.net /\ t = u
      BY <1>1, <1>4, <3>1, <3>2, <3>3
    <3> HIDE DEF t, share, u
    <3>5. DOMAIN u = 1 .. Len(u) /\ Len(u) \in Nat \ {0}
      BY <1>1, <1>4, <3>4
    <3> QED
      BY <2>1, <3>4, <3>5 DEF t
  <2>3. CASE m.wins > 0 /\ losses > 0
    <3> DEFINE gain == AverageWin(m)
    <3>1. gain \in Int /\ (m.net > 0 => gain = share)
      BY <1>1, <1>4, <2>1 DEF AverageWin, Abs
    <3>2. left \in Int /\ losses * cost = left
      BY <1>1, <1>2, <2>3, <3>1, Product
    <3>3. cost \in Int
      BY <1>2, <2>3, <3>2
    <3>4. m.net > 0 => cost = share
      <4> SUFFICES ASSUME m.net > 0 PROVE cost = share
        OBVIOUS
      <4>1. losses * cost = m.trades * share - m.wins * share
        BY <1>1, <1>4, <3>1, <3>2
      <4> HIDE DEF cost, share, losses
      <4> QED
        BY <1>1, <1>2, <2>1, <2>3, <3>3, <4>1, TheRest
    <3>5. t = Times(m.wins, gain) \o Times(losses, cost)
      <4>1. m.trades # 0 /\ ~(m.wins = 0 \/ losses = 0)
        BY <1>2, <1>4, <2>3
      <4> QED
        BY <4>1, Zenon DEF ExtractTradeReturns
    <3>7. m.wins * gain \in Int /\ m.wins * gain + left = m.net
      <4>1. m.wins * gain \in Int
        BY <1>2, <3>1, Product
      <4> QED
        BY <1>1, <4>1
    <3> DEFINE u == Times(m.wins, gain) \o Times(losses, cost)
    <3>12. TwoPart(u, m.wins, losses, gain, cost)
      BY DEF TwoPart
    <3> HIDE DEF gain, cost, losses, left, share, u
    <3>6. /\ u \in Seq(Int) /\ Len(u) = m.wins + losses /\ DOMAIN u = 1 .. m.wins + losses
          /\ \A i \in DOMAIN u : u[i] = IF i <= m.wins THEN gain ELSE cost
          /\ TotalReturn(u) = m.wins * gain + losses * cost
      BY <1>2, <3>1, <3>3, <3>12, TwoParts
    <3> HIDE DEF t
    <3>8. TotalReturn(u) = m.net
      BY <3>2, <3>6, <3>7
    <3>9. m.net > 0 => \A i \in DOMAIN u : u[i] = share
      BY <3>1, <3>4, <3>6
    <3>10. DOMAIN u = 1 .. Len(u) /\ Len(u) \in Nat \ {0}
      BY <1>2, <1>4, <3>6
    <3>11. t = u
      BY <3>5 DEF u
    <3> QED
      BY <2>1, <3>6, <3>8, <3>9, <3>10, <3>11 DEF t
  <2> QED
    BY <1>2, <2>2, <2>3
<1> QED
  BY <1>1, <1>3, <1>4

-----------------------------------------------------------------------------
(* What is counted of the paths, and what their totals lie between.        *)
LEMMA SummaryIs ==
  ASSUME NEW o
  PROVE  LET totals == {o[i].total : i \in DOMAIN o}
         IN /\ Summarize(o).profit = Cardinality({i \in DOMAIN o : o[i].total > 0})
            /\ Summarize(o).loss = Cardinality({i \in DOMAIN o : o[i].total < 0})
            /\ Summarize(o).ruin = Cardinality({i \in DOMAIN o : o[i].ruined})
            /\ Summarize(o).worst = CHOOSE x \in totals : \A i \in DOMAIN o : x <= o[i].total
            /\ Summarize(o).best = CHOOSE x \in totals : \A i \in DOMAIN o : x >= o[i].total
BY DEF Summarize

LEMMA PathCount == IsFiniteSet(0 .. Simulations - 1) /\ Cardinality(0 .. Simulations - 1) = Simulations
<1>1. 0 \in Int /\ Simulations - 1 \in Int /\ Simulations \in Nat \ {0}
  BY SimulationsAreValid
<1>2. IsFiniteSet(0 .. Simulations - 1) /\ Cardinality(0 .. Simulations - 1) = IF 0 > Simulations - 1 THEN 0 ELSE Simulations - 1 - 0 + 1
  BY <1>1, FS_Interval
<1> QED
  BY <1>1, <1>2

LEMMA SharesAddUp ==
  ASSUME NEW o, DOMAIN o = 0 .. Simulations - 1, \A i \in DOMAIN o : o[i].total \in Int
  PROVE  Summarize(o).profit + Summarize(o).loss <= Simulations
<1> DEFINE P == {i \in DOMAIN o : o[i].total > 0}
           L == {i \in DOMAIN o : o[i].total < 0}
<1>1. P \subseteq DOMAIN o /\ L \subseteq DOMAIN o /\ P \intersect L = {}
  OBVIOUS
<1>2. Summarize(o).profit = Cardinality(P) /\ Summarize(o).loss = Cardinality(L)
  BY SummaryIs
<1> HIDE DEF P, L
<1>3. IsFiniteSet(P) /\ IsFiniteSet(L) /\ Cardinality(P) \in Nat /\ Cardinality(L) \in Nat
  BY <1>1, PathCount, FS_Subset, FS_CardinalityType
<1>4. Cardinality(P \union L) = Cardinality(P) + Cardinality(L)
  <2>1. Cardinality(P \union L) = Cardinality(P) + Cardinality(L) - Cardinality(P \intersect L)
    BY <1>3, FS_Union
  <2>2. Cardinality(P \intersect L) = 0
    BY <1>1, FS_EmptySet
  <2> QED
    BY <1>3, <2>1, <2>2
<1>5. Cardinality(P \union L) <= Simulations
  <2> DEFINE both == P \union L
  <2>1. both \in SUBSET (0 .. Simulations - 1)
    BY <1>1
  <2> HIDE DEF both
  <2>2. Cardinality(both) <= Cardinality(0 .. Simulations - 1)
    BY <2>1, PathCount, FS_Subset
  <2> QED
    BY <2>2, PathCount DEF both
<1> QED
  BY <1>2, <1>4, <1>5

LEMMA TotalsLie ==
  ASSUME NEW o, DOMAIN o = 0 .. Simulations - 1, \A i \in DOMAIN o : o[i].total \in Int
  PROVE  \A i \in DOMAIN o : Summarize(o).worst <= o[i].total /\ o[i].total <= Summarize(o).best
<1> DEFINE totals == {o[i].total : i \in DOMAIN o}
<1>1. /\ Summarize(o).worst = CHOOSE x \in totals : \A i \in DOMAIN o : x <= o[i].total
      /\ Summarize(o).best = CHOOSE x \in totals : \A i \in DOMAIN o : x >= o[i].total
  BY SummaryIs
<1>2. totals \subseteq Int /\ totals # {}
  <2>1. 0 \in DOMAIN o
    BY SimulationsAreValid
  <2> QED
    BY <2>1
<1>3. IsFiniteSet(totals)
  <2> DEFINE f == [i \in DOMAIN o |-> o[i].total]
  <2>1. f \in [DOMAIN o -> totals] /\ \A x \in totals : \E i \in DOMAIN o : f[i] = x
    OBVIOUS
  <2> HIDE DEF f, totals
  <2>2. f \in Surjection(DOMAIN o, totals)
    BY <2>1 DEF Surjection
  <2> QED
    BY <2>2, PathCount, FS_Surjection
<1>4. (\E x \in totals : \A y \in totals : x <= y) /\ (\E x \in totals : \A y \in totals : x >= y)
  <2> HIDE DEF totals
  <2> QED
    BY <1>2, <1>3, LeastOf
<1>5. (\E x \in totals : \A i \in DOMAIN o : x <= o[i].total) /\ (\E x \in totals : \A i \in DOMAIN o : x >= o[i].total)
  BY <1>4
<1> HIDE DEF totals
<1> QED
  BY <1>1, <1>5

LEMMA AllGain ==
  ASSUME NEW o, DOMAIN o = 0 .. Simulations - 1, \A i \in DOMAIN o : o[i].total \in Int /\ o[i].total > 0 /\ ~o[i].ruined
  PROVE  Summarize(o).profit = Simulations /\ Summarize(o).loss = 0 /\ Summarize(o).ruin = 0
<1>1. {i \in DOMAIN o : o[i].total > 0} = 0 .. Simulations - 1
  OBVIOUS
<1>2. {i \in DOMAIN o : o[i].total < 0} = {} /\ {i \in DOMAIN o : o[i].ruined} = {}
  OBVIOUS
<1> QED
  BY <1>1, <1>2, SummaryIs, PathCount, FS_EmptySet

LEMMA MoreThan == ASSUME NEW n \in Nat, n > 0, NEW x \in Int, x > 0 PROVE n * x > 0
OBVIOUS

LEMMA NoFall ==
  ASSUME NEW a \in Nat, NEW b \in Nat, a <= b, NEW x \in Int, x > 0, NEW d, d = a * x - b * x
  PROVE  d <= 0 /\ d \in Int
<1>1. (b - a) * x >= 0 /\ (b - a) * x = b * x - a * x /\ a * x \in Int /\ b * x \in Int
  OBVIOUS
<1> QED
  BY <1>1

-----------------------------------------------------------------------------
(* The paths: resampled, of the same trades, and shuffled, which add up to *)
(* what the trades do.                                                     *)
Trades(t) == t \in Seq(Int) /\ DOMAIN t = 1 .. Len(t) /\ Len(t) \in Nat \ {0}

LEMMA PlacesOf == ASSUME NEW t, Trades(t) PROVE IsFiniteSet(DOMAIN t) /\ \A n \in DOMAIN t : t[n] \in Int
<1>1. 1 \in Int /\ Len(t) \in Int
  BY DEF Trades
<1>2. IsFiniteSet(1 .. Len(t))
  BY <1>1, FS_Interval
<1> QED
  BY <1>2 DEF Trades

LEMMA PathsAre ==
  ASSUME NEW t, Trades(t), NEW i \in {0, 1}, NEW p \in PathsOf(t, i)
  PROVE  /\ DOMAIN p = DOMAIN t /\ p \in Seq(Int) /\ Len(p) = Len(t)
         /\ \A n \in DOMAIN p : \E m \in DOMAIN t : p[n] = t[m]
         /\ TotalReturn(p) \in Int
<1>1. DOMAIN p = DOMAIN t /\ \A n \in DOMAIN p : \E m \in DOMAIN t : p[n] = t[m]
  <2>1. CASE p \in BootstrapSamples(t)
    BY <2>1 DEF BootstrapSamples, ToSet
  <2>2. CASE p \in ShuffleOrders(t)
    BY <2>2 DEF ShuffleOrders
  <2> QED
    BY <2>1, <2>2 DEF PathsOf
<1>2. \A n \in DOMAIN p : p[n] \in Int
  BY <1>1, PlacesOf
<1>3. p = [n \in DOMAIN p |-> p[n]]
  <2>1. CASE p \in BootstrapSamples(t)
    BY <2>1 DEF BootstrapSamples
  <2>2. CASE p \in ShuffleOrders(t)
    BY <2>2 DEF ShuffleOrders
  <2> QED
    BY <2>1, <2>2 DEF PathsOf
<1>4. p \in [1 .. Len(t) -> Int] /\ Len(t) \in Nat
  BY <1>1, <1>2, <1>3 DEF Trades
<1>5. p \in Seq(Int) /\ Len(p) = Len(t)
  BY <1>4
<1>6. TotalReturn(p) \in Int
  BY <1>1, <1>2, PlacesOf, SumInt DEF TotalReturn
<1> QED
  BY <1>1, <1>5, <1>6

LEMMA ShufflesAddUp ==
  ASSUME NEW t, Trades(t), NEW p \in PathsOf(t, 1)
  PROVE  TotalReturn(p) = TotalReturn(t)
<1>1. p \in ShuffleOrders(t)
  BY DEF PathsOf
<1>2. PICK f \in [DOMAIN t -> DOMAIN t] :
        (\A m, n \in DOMAIN t : f[m] = f[n] => m = n) /\ p = [n \in DOMAIN t |-> t[f[n]]]
  BY <1>1 DEF ShuffleOrders
<1>3. DOMAIN p = DOMAIN t /\ \A n \in DOMAIN t : p[n] = t[f[n]]
  BY <1>2
<1>4. SumFunctionOnSet(p, DOMAIN t) = SumFunctionOnSet(t, DOMAIN t)
  BY <1>2, <1>3, PlacesOf, SumMoved
<1> QED
  BY <1>3, <1>4 DEF TotalReturn

(* A path of equal gains: it only rises.                                   *)
LEMMA Rises ==
  ASSUME NEW x \in Int, x > 0, NEW p, Trades(p), \A n \in DOMAIN p : p[n] = x
  PROVE  TotalReturn(p) > 0 /\ MaxDrawdown(p) = 0
<1> DEFINE k == Len(p)
           equity == Equity(p)
           ordered == {q \in (DOMAIN equity) \X (DOMAIN equity) : q[1] <= q[2]}
           falls == {equity[q[1]] - equity[q[2]] : q \in ordered}
<1>1. k \in Nat \ {0} /\ DOMAIN p = 1 .. k /\ p \in Seq(Int)
  BY DEF Trades
<1>2. ASSUME NEW n \in 0 .. k PROVE equity[n] = n * x
  <2> DEFINE q == SubSeq(p, 1, n)
  <2>1. DOMAIN q = 1 .. n /\ \A i \in 1 .. n : q[i] = x
    BY <1>1
  <2>2. IsFiniteSet(1 .. n) /\ Cardinality(1 .. n) = n
    <3>1. 1 \in Int /\ n \in Int /\ n \in Nat
      BY <1>1
    <3>2. IsFiniteSet(1 .. n) /\ Cardinality(1 .. n) = IF 1 > n THEN 0 ELSE n - 1 + 1
      BY <3>1, FS_Interval
    <3> QED
      BY <3>1, <3>2
  <2>3. equity[n] = TotalReturn(q)
    BY DEF Equity
  <2> HIDE DEF q, equity
  <2>4. SumFunctionOnSet(q, 1 .. n) = Cardinality(1 .. n) * x
    BY <2>1, <2>2, SumOfSame
  <2> QED
    BY <2>1, <2>2, <2>3, <2>4 DEF TotalReturn
<1>3. DOMAIN equity = 0 .. k
  BY DEF Equity
<1>4. TotalReturn(p) = k * x
  <2>1. IsFiniteSet(1 .. k) /\ Cardinality(1 .. k) = k
    <3>1. 1 \in Int /\ k \in Int /\ k \in Nat
      BY <1>1
    <3>2. IsFiniteSet(1 .. k) /\ Cardinality(1 .. k) = IF 1 > k THEN 0 ELSE k - 1 + 1
      BY <3>1, FS_Interval
    <3> QED
      BY <3>1, <3>2
  <2> HIDE DEF k
  <2>2. SumFunctionOnSet(p, 1 .. k) = Cardinality(1 .. k) * x
    BY <1>1, <2>1, SumOfSame
  <2> QED
    BY <1>1, <2>1, <2>2 DEF TotalReturn
<1>5. k * x > 0
  BY <1>1, MoreThan
<1> HIDE DEF k, equity
<1>6. \A d \in falls : d <= 0 /\ d \in Int
  <2> TAKE d \in falls
  <2>1. PICK q \in ordered : d = equity[q[1]] - equity[q[2]]
    OBVIOUS
  <2>2. q[1] \in 0 .. k /\ q[2] \in 0 .. k /\ q[1] <= q[2]
    BY <1>3
  <2> PICK a : a = q[1]
    OBVIOUS
  <2> PICK b : b = q[2]
    OBVIOUS
  <2>3. a \in Nat /\ b \in Nat /\ a <= b /\ d = a * x - b * x
    BY <1>1, <1>2, <2>1, <2>2
  <2> QED
    BY <2>3, NoFall
<1>7. 0 \in falls
  <2>1. <<0, 0>> \in ordered /\ equity[0] = 0 * x
    BY <1>1, <1>2, <1>3
  <2>2. equity[0] - equity[0] \in falls
    BY <2>1
  <2>3. equity[0] - equity[0] = 0
    BY <2>1
  <2> QED
    BY <2>2, <2>3
<1>8. MaxDrawdown(p) = CHOOSE d \in falls : \A f \in falls : f <= d
  BY DEF MaxDrawdown, equity
<1> HIDE DEF falls
<1>9. \E d \in falls : \A f \in falls : f <= d
  BY <1>6, <1>7
<1>10. PICK d : d = CHOOSE c \in falls : \A f \in falls : f <= c
  OBVIOUS
<1>11. d \in falls /\ \A f \in falls : f <= d
  BY <1>9, <1>10
<1>12. d = 0
  BY <1>6, <1>7, <1>11
<1> QED
  BY <1>4, <1>5, <1>8, <1>10, <1>12

LEMMA OutcomesAre ==
  ASSUME NEW t, Trades(t), NEW o \in Outcomes(t)
  PROVE  /\ DOMAIN o = 0 .. Simulations - 1
         /\ \A i \in DOMAIN o : i % 2 \in {0, 1} /\ \E p \in PathsOf(t, i % 2) : o[i] = Outcome(p, t)
<1> DEFINE of == [i \in {0, 1} |-> {Outcome(p, t) : p \in PathsOf(t, i)}]
<1>1. o \in [0 .. Simulations - 1 -> of[0] \union of[1]] /\ \A i \in DOMAIN o : o[i] \in of[i % 2]
  BY DEF Outcomes
<1>2. DOMAIN o = 0 .. Simulations - 1
  BY <1>1
<1>3. ASSUME NEW i \in DOMAIN o PROVE i % 2 \in {0, 1} /\ \E p \in PathsOf(t, i % 2) : o[i] = Outcome(p, t)
  <2>1. i \in Int
    BY <1>2
  <2>2. i % 2 \in {0, 1}
    BY <2>1
  <2> PICK k : k = i % 2
    OBVIOUS
  <2>3. k \in {0, 1} /\ o[i] \in of[k]
    BY <1>1, <2>2
  <2>4. \E p \in PathsOf(t, k) : o[i] = Outcome(p, t)
    BY <2>3
  <2> QED
    BY <2>2, <2>4
<1> QED
  BY <1>2, <1>3

LEMMA OutcomeIs ==
  \A p, t : Outcome(p, t).total = TotalReturn(p)
            /\ (Outcome(p, t).ruined <=> MaxDrawdown(p) * 100 >= Threshold(t))
BY DEF Outcome

(* Some of the starting capital must be gone for a path to be ruined.      *)
LEMMA RuinIsFar ==
  ASSUME NEW t, Trades(t), NEW x \in Int, x > 0, \A n \in DOMAIN t : t[n] = x
  PROVE  ~(0 * 100 >= Threshold(t))
<1> DEFINE sizes == [n \in DOMAIN t |-> Abs(t[n])]
           k == Len(t)
<1>1. DOMAIN sizes = 1 .. k /\ k \in Nat /\ k > 0 /\ \A n \in 1 .. k : sizes[n] = x
  BY DEF Abs, Trades
<1>2. IsFiniteSet(1 .. k) /\ Cardinality(1 .. k) = k
  <2>1. 1 \in Int /\ k \in Int
    BY <1>1
  <2>2. IsFiniteSet(1 .. k) /\ Cardinality(1 .. k) = IF 1 > k THEN 0 ELSE k - 1 + 1
    BY <2>1, FS_Interval
  <2> QED
    BY <1>1, <2>2
<1>3. SumAbs(t) = TotalReturn(sizes)
  BY DEF SumAbs
<1> HIDE DEF sizes, k
<1>4. SumFunctionOnSet(sizes, 1 .. k) = Cardinality(1 .. k) * x
  BY <1>1, <1>2, SumOfSame
<1>5. SumAbs(t) = k * x /\ k * x > 0 /\ k * x \in Int
  BY <1>1, <1>2, <1>3, <1>4, MoreThan, Product DEF TotalReturn
<1>6. StartingCapital(t) = k * x
  BY <1>5 DEF StartingCapital
<1>7. k * x \in Nat /\ RuinPercent \in Nat \ {0}
  BY <1>5, SimulationsAreValid
<1>8. Threshold(t) > 0
  BY <1>5, <1>6, <1>7, MoreThan DEF Threshold
<1>9. Threshold(t) \in Int
  BY <1>6, <1>7, Product DEF Threshold
<1> QED
  BY <1>8, <1>9

(* What is published of a simulation.                                      *)
LEMMA SimulationTells ==
  ASSUME NEW m \in Metrics, ExtractTradeReturns(m) # <<>>, NEW s \in Simulated[m]
  PROVE  /\ s.profit + s.loss <= Simulations
         /\ Simulations > 1 => s.worst <= m.net /\ m.net <= s.best
         /\ m.net > 0 => s.profit = Simulations /\ s.loss = 0 /\ s.ruin = 0
<1> DEFINE t == ExtractTradeReturns(m)
<1>1. Trades(t) /\ TotalReturn(t) = m.net
  BY MadeUp DEF Trades
<1>2. PICK o \in Outcomes(t) : s = Summarize(o)
  BY DEF Simulated
<1>3. m.net > 0 => \E x \in Int : x > 0 /\ \A i \in DOMAIN t : t[i] = x
  BY MadeUp
<1> HIDE DEF t
<1>4. /\ DOMAIN o = 0 .. Simulations - 1
      /\ \A i \in DOMAIN o : i % 2 \in {0, 1} /\ \E p \in PathsOf(t, i % 2) : o[i] = Outcome(p, t)
  BY <1>1, OutcomesAre
<1>5. \A i \in DOMAIN o : o[i].total \in Int
  <2> TAKE i \in DOMAIN o
  <2>1. PICK k \in {0, 1} : \E p \in PathsOf(t, k) : o[i] = Outcome(p, t)
    BY <1>4
  <2>2. PICK p \in PathsOf(t, k) : o[i] = Outcome(p, t)
    BY <2>1
  <2> QED
    BY <1>1, <2>2, PathsAre, OutcomeIs
<1>6. s.profit + s.loss <= Simulations
  BY <1>2, <1>4, <1>5, SharesAddUp
<1>7. ASSUME Simulations > 1 PROVE s.worst <= m.net /\ m.net <= s.best
  <2>1. 1 \in DOMAIN o /\ 1 % 2 = 1
    BY <1>4, <1>7, SimulationsAreValid
  <2>2. PICK p \in PathsOf(t, 1) : o[1] = Outcome(p, t)
    BY <1>4, <2>1
  <2>3. o[1].total = m.net
    BY <1>1, <2>2, ShufflesAddUp, OutcomeIs
  <2> QED
    BY <1>2, <1>4, <1>5, <2>1, <2>3, TotalsLie
<1>8. ASSUME m.net > 0 PROVE s.profit = Simulations /\ s.loss = 0 /\ s.ruin = 0
  <2>1. PICK x \in Int : x > 0 /\ \A i \in DOMAIN t : t[i] = x
    BY <1>3, <1>8
  <2>2. ASSUME NEW i \in DOMAIN o PROVE o[i].total > 0 /\ ~o[i].ruined
    <3>5. PICK k \in {0, 1} : \E p \in PathsOf(t, k) : o[i] = Outcome(p, t)
      BY <1>4
    <3>1. PICK p \in PathsOf(t, k) : o[i] = Outcome(p, t)
      BY <3>5
    <3>6. /\ DOMAIN p = DOMAIN t /\ p \in Seq(Int) /\ Len(p) = Len(t)
          /\ \A n \in DOMAIN p : \E j \in DOMAIN t : p[n] = t[j]
      BY <1>1, PathsAre
    <3>2. Trades(p) /\ \A n \in DOMAIN p : p[n] = x
      BY <1>1, <2>1, <3>6 DEF Trades
    <3>3. TotalReturn(p) > 0 /\ MaxDrawdown(p) = 0
      BY <2>1, <3>2, Rises
    <3>4. ~(0 * 100 >= Threshold(t))
      BY <1>1, <2>1, RuinIsFar
    <3> QED
      BY <3>1, <3>3, <3>4, OutcomeIs
  <2> QED
    BY <1>2, <1>4, <1>5, <2>2, AllGain
<1> QED
  BY <1>6, <1>7, <1>8

-----------------------------------------------------------------------------
(***************************************************************************)
(* Reports. What is under way to Monte Carlo and to the research engine,   *)
(* what they have stored of it, and the windows that are validated add up, *)
(* event by event, as long as no event is lost and no call fails.          *)
(***************************************************************************)
OfKind(q, type) == {n \in DOMAIN q : q[n].type = type}
News(q, w) == {n \in DOMAIN q : q[n].type = "walkforward" /\ q[n].window = w}
Workable(q) == {n \in DOMAIN q : ~Fails(q[n])}

(* A set of places in a channel when its head is taken, and when something *)
(* is added to its end.                                                    *)
LEMMA TailCount ==
  ASSUME NEW k \in Nat, NEW P \in SUBSET (1 .. k - 1), NEW Q \in SUBSET (1 .. k), k > 0,
         \A n \in 1 .. k - 1 : n \in P <=> n + 1 \in Q
  PROVE  /\ Cardinality(P) \in Nat /\ Cardinality(Q) \in Nat
         /\ Cardinality(Q) = IF 1 \in Q THEN Cardinality(P) + 1 ELSE Cardinality(P)
<1>1. IsFiniteSet(P) /\ IsFiniteSet(Q) /\ Cardinality(P) \in Nat /\ Cardinality(Q) \in Nat
  <2>1. 1 \in Int /\ k \in Int /\ k - 1 \in Int
    OBVIOUS
  <2> QED
    BY <2>1, FS_Interval, FS_Subset, FS_CardinalityType
<1> DEFINE R == Q \ {1}
           f == [n \in P |-> n + 1]
<1>2. IsFiniteSet(R) /\ Cardinality(R) = Cardinality(P)
  <2>1. \A n \in P : n \in Int /\ f[n] \in R
    OBVIOUS
  <2>2. ASSUME NEW r \in R PROVE r - 1 \in P /\ f[r - 1] = r
    <3>1. r - 1 \in 1 .. k - 1 /\ (r - 1) + 1 = r
      OBVIOUS
    <3> QED
      BY <3>1
  <2>3. f \in [P -> R] /\ \A m, n \in P : f[m] = f[n] => m = n
    BY <2>1
  <2> HIDE DEF f, R
  <2>4. f \in Bijection(P, R)
    BY <2>2, <2>3 DEF Bijection, Injection, Surjection, IsInjective
  <2>5. ExistsBijection(P, R)
    BY <2>4 DEF ExistsBijection
  <2> QED
    BY <1>1, <2>5, FS_Bijection
<1>3. CASE 1 \in Q
  BY <1>1, <1>2, <1>3, FS_RemoveElement
<1>4. CASE 1 \notin Q
  <2>1. R = Q
    BY <1>4
  <2> QED
    BY <1>1, <1>2, <1>4, <2>1
<1> QED
  BY <1>1, <1>3, <1>4

LEMMA EndCount ==
  ASSUME NEW k \in Nat, NEW P \in SUBSET (1 .. k), NEW Q \in SUBSET (1 .. k + 1),
         \A n \in 1 .. k : n \in P <=> n \in Q
  PROVE  /\ Cardinality(P) \in Nat /\ Cardinality(Q) \in Nat
         /\ Cardinality(Q) = IF k + 1 \in Q THEN Cardinality(P) + 1 ELSE Cardinality(P)
<1>1. IsFiniteSet(P) /\ Cardinality(P) \in Nat
  <2>1. 1 \in Int /\ k \in Int
    OBVIOUS
  <2> QED
    BY <2>1, FS_Interval, FS_Subset, FS_CardinalityType
<1>2. k + 1 \notin P /\ Q = IF k + 1 \in Q THEN P \union {k + 1} ELSE P
  <2>1. \A n \in Q : n = k + 1 \/ n \in 1 .. k
    OBVIOUS
  <2>2. \A n \in P : n \in 1 .. k /\ n # k + 1
    OBVIOUS
  <2>3. \A n : n \in Q <=> n \in IF k + 1 \in Q THEN P \union {k + 1} ELSE P
    BY <2>1, <2>2
  <2> QED
    BY <2>2, <2>3
<1> QED
  BY <1>1, <1>2, FS_AddElement

(* What a publication of one event, or of none, does to a channel.         *)
Adds(p, q, v) ==
  /\ Len(q) \in Nat /\ Len(p) = Len(q) + 1 /\ DOMAIN q = 1 .. Len(q) /\ DOMAIN p = 1 .. Len(q) + 1
  /\ p[Len(q) + 1] = v /\ \A n \in DOMAIN q : p[n] = q[n]

LEMMA BoxAfter ==
  ASSUME BoxesSound, NEW out, NEW type, OfType(out, type), NEW from, Takes(from),
         Publish(out, from), NEW e \in Engines, NEW v, out \in {<<>>, <<v>>}
  PROVE  /\ out = <<>> \/ type \notin Listening[e] => inbox'[e] = Queue(e, from)
         /\ ~lost' /\ out = <<v>> /\ type \in Listening[e] => Adds(inbox'[e], Queue(e, from), v)
         /\ ~lost' => ~lost
<1> DEFINE q == Queue(e, from)
           w == Wanted(out, Listening[e])
<1>1. /\ inbox'[e] = Offer(q, w) /\ IsSequence(w) /\ w = IF type \in Listening[e] THEN out ELSE <<>>
      /\ ~lost' => ~lost /\ ~(Len(q) + Len(w) > Buffer)
  BY Publishes
<1>2. IsSequence(q) /\ Len(q) <= Buffer
  BY QueueIs
<1> HIDE DEF q, w
<1>3. /\ Len(q) \in Nat /\ DOMAIN q = 1 .. Len(q)
      /\ \A n \in DOMAIN Offer(q, w) :
           \/ n \in DOMAIN q /\ Offer(q, w)[n] = q[n]
           \/ n - Len(q) \in DOMAIN w /\ Offer(q, w)[n] = w[n - Len(q)]
      /\ ~(Len(q) + Len(w) > Buffer) => Len(Offer(q, w)) = Len(q) + Len(w)
      /\ DOMAIN Offer(q, w) = 1 .. Len(Offer(q, w))
      /\ w = <<>> => Offer(q, w) = q
  BY <1>1, <1>2, Offered
<1>4. ASSUME ~lost', out = <<v>>, type \in Listening[e] PROVE Adds(Offer(q, w), q, v)
  <2>1. w = <<v>> /\ Len(w) = 1 /\ DOMAIN w = {1} /\ w[1] = v
    BY <1>1, <1>4, One
  <2> DEFINE p == Offer(q, w)
  <2>2. Len(p) = Len(q) + 1 /\ DOMAIN p = 1 .. Len(q) + 1
    BY <1>1, <1>3, <1>4, <2>1
  <2>3. \A n \in DOMAIN p : \/ n \in DOMAIN q /\ p[n] = q[n]
                            \/ n - Len(q) = 1 /\ p[n] = v
    BY <1>3, <2>1
  <2> HIDE DEF p
  <2>4. Len(q) \in Nat /\ DOMAIN q = 1 .. Len(q)
    BY <1>3
  <2>5. p[Len(q) + 1] = v
    <3>1. Len(q) + 1 \in DOMAIN p /\ Len(q) + 1 \notin DOMAIN q
      BY <2>2, <2>4
    <3> QED
      BY <2>3, <3>1
  <2>6. ASSUME NEW n \in DOMAIN q PROVE p[n] = q[n]
    <3>1. n \in DOMAIN p /\ ~(n - Len(q) = 1)
      BY <2>2, <2>4
    <3> QED
      BY <2>3, <3>1
  <2> QED
    BY <2>2, <2>4, <2>5, <2>6 DEF Adds, p
<1> QED
  BY <1>1, <1>3, <1>4 DEF q

-----------------------------------------------------------------------------
(* A channel that does not want the event, and one that does.              *)
LEMMA Unwanted ==
  ASSUME BoxesSound, NEW out, NEW type, OfType(out, type), NEW from, Takes(from),
         Publish(out, from), NEW e \in Engines, out = <<>> \/ type \notin Listening[e]
  PROVE  inbox'[e] = Queue(e, from)
<1>1. inbox'[e] = Offer(Queue(e, from), <<>>)
  BY Publishes
<1>2. IsSequence(Queue(e, from)) /\ Len(Queue(e, from)) <= Buffer
  BY QueueIs
<1> QED
  BY <1>1, <1>2, None, Offered

LEMMA WantedOne ==
  ASSUME BoxesSound, NEW v, NEW type, v.type = type, NEW from, Takes(from),
         Publish(<<v>>, from), NEW e \in Engines, type \in Listening[e], ~lost'
  PROVE  Adds(inbox'[e], Queue(e, from), v)
<1>1. OfType(<<v>>, type) /\ <<v>> \in {<<>>, <<v>>}
  BY OneOfType
<1> QED
  BY <1>1, BoxAfter

LEMMA NotLost ==
  ASSUME BoxesSound, NEW out, NEW type, OfType(out, type), NEW from, Takes(from), Publish(out, from), ~lost'
  PROVE  ~lost
BY Publishes, EngineNames

(* Rows are only added to a table.                                         *)
Rowed(table) == \A id \in DOMAIN table : IsSequence(table[id])

LEMMA Longer ==
  ASSUME NEW q, IsSequence(q), NEW v
  PROVE  /\ IsSequence(Append(q, v)) /\ Append(q, v) # <<>> /\ Len(q) \in Nat /\ Len(Append(q, v)) = Len(q) + 1
         /\ DOMAIN q = 1 .. Len(q) /\ DOMAIN Append(q, v) = 1 .. Len(q) + 1 /\ Append(q, v)[Len(q) + 1] = v
         /\ \A n \in DOMAIN q : Append(q, v)[n] = q[n]
<1> DEFINE S == {q[n] : n \in DOMAIN q} \union {v}
<1>1. q \in Seq(S) /\ v \in S
  BY SeqMonotonic DEF IsSequence
<1> HIDE DEF S
<1>2. /\ Append(q, v) \in Seq(S) /\ Append(q, v) # <<>> /\ Len(q) \in Nat /\ Len(Append(q, v)) = Len(q) + 1
      /\ DOMAIN q = 1 .. Len(q) /\ DOMAIN Append(q, v) = 1 .. Len(q) + 1 /\ Append(q, v)[Len(q) + 1] = v
      /\ \A n \in DOMAIN q : Append(q, v)[n] = q[n]
  BY <1>1
<1> QED
  BY <1>2, SequenceOver

LEMMA JoinedOne ==
  ASSUME NEW q, IsSequence(q), NEW v
  PROVE  /\ Len(q) \in Nat /\ Len(q \o <<v>>) = Len(q) + 1 /\ DOMAIN q = 1 .. Len(q)
         /\ DOMAIN (q \o <<v>>) = 1 .. Len(q) + 1 /\ (q \o <<v>>)[Len(q) + 1] = v
         /\ \A n \in DOMAIN q : (q \o <<v>>)[n] = q[n]
<1> DEFINE S == {q[n] : n \in DOMAIN q} \union {v}
<1>1. q \in Seq(S) /\ v \in S
  BY SeqMonotonic DEF IsSequence
<1> HIDE DEF S
<1> QED
  BY <1>1

LEMMA RowAdded ==
  ASSUME NEW table, Rowed(table), NEW id, NEW row
  PROVE  /\ Rowed(Inserted(table, id, row)) /\ DOMAIN Inserted(table, id, row) = DOMAIN table \union {id}
         /\ IsSequence(RowsOf(table, id))
<1>1. IsSequence(RowsOf(table, id))
  BY None DEF Rowed, RowsOf
<1> DEFINE more == Inserted(table, id, row)
<1>2. /\ DOMAIN more = DOMAIN table \union {id} /\ more[id] = Append(RowsOf(table, id), row)
      /\ \A i \in DOMAIN table \ {id} : more[i] = table[i]
  BY DEF Inserted
<1> HIDE DEF more
<1>3. Rowed(more)
  <2>1. IsSequence(more[id])
    BY <1>1, <1>2, Longer
  <2>2. \A i \in DOMAIN table \ {id} : IsSequence(more[i])
    BY <1>2 DEF Rowed
  <2> QED
    BY <1>2, <2>1, <2>2 DEF Rowed
<1> QED
  BY <1>1, <1>2, <1>3 DEF more, RowsOf

LEMMA RowsWith ==
  ASSUME NEW table, NEW id, NEW row
  PROVE  RowsOf(Inserted(table, id, row), id) = Append(RowsOf(table, id), row)
BY DEF Inserted, RowsOf

LEMMA RowsBeside ==
  ASSUME NEW table, NEW id, NEW row, NEW i, i # id
  PROVE  RowsOf(Inserted(table, id, row), i) = RowsOf(table, i)
BY DEF Inserted, RowsOf

(* Experiments are only added.                                             *)
LEMMA Upserted ==
  ASSUME NEW id, NEW strategy, UpsertExperiment(id, strategy) \/ EnsureExperiment(id)
  PROVE  DOMAIN experimentRows' = DOMAIN experimentRows \union {id}
<1>1. CASE UpsertExperiment(id, strategy)
  BY <1>1 DEF UpsertExperiment
<1>2. CASE EnsureExperiment(id)
  BY <1>2 DEF EnsureExperiment, UpsertExperiment
<1> QED
  BY <1>1, <1>2

(* A handler whose first n calls succeed.                                  *)
TablesSound == Rowed(walkRows) /\ Rowed(reportRows) /\ PublishedIsStored /\ RowsHaveExperiment

LEMMA CallsSucceed ==
  ASSUME NEW e, e.type \in {"optimization", "walkforward", "montecarlo"}, NEW n \in Succeeds(e)
  PROVE  n \in Nat /\ n <= CallsOf(e) /\ CallsOf(e) \in Nat
BY DEF Succeeds, CallsOf, SimulationCalls

LEMMA StoreKeeps ==
  ASSUME FlowInv, TablesSound, ResearchHandles
  PROVE  TablesSound'
<1> DEFINE e == Next1("research")
<1>1. PICK n \in Succeeds(e) : HandleResearch(e, n)
  BY DEF ResearchHandles
<1>2. e.type \in {"optimization", "walkforward", "montecarlo"}
  <2>1. IsSequence(inbox["research"]) /\ inbox["research"] # <<>>
    BY EngineNames DEF ResearchHandles, Waiting, FlowInv, BoxesSound
  <2>2. e = inbox["research"][1] /\ 1 \in DOMAIN inbox["research"]
    BY <2>1, Tailed DEF Next1
  <2> QED
    BY <2>2, EngineNames DEF FlowInv, BoxesSound
<1>3. n \in Nat
  BY <1>2, CallsSucceed
<1> HIDE DEF e
<1>4. CASE HandleOptimizationResult(e, n)
  <2> DEFINE id == ExperimentOf(e.run)
  <2>1. UNCHANGED <<walkRows, simulationRows, reportRows, published>>
    BY <1>4 DEF HandleOptimizationResult
  <2>2. /\ n >= 1 => DOMAIN experimentRows' = DOMAIN experimentRows \union {id}
        /\ ~(n >= 1) => experimentRows' = experimentRows
        /\ n >= 2 => DOMAIN optimizationRows' = DOMAIN optimizationRows \union {id}
        /\ ~(n >= 2) => optimizationRows' = optimizationRows
    BY <1>4, Upserted DEF HandleOptimizationResult, Inserted
  <2>3. RowsHaveExperiment'
    BY <1>3, <2>1, <2>2 DEF TablesSound, RowsHaveExperiment
  <2> QED
    BY <2>1, <2>3 DEF TablesSound, Rowed, PublishedIsStored, RowsOf
<1>5. CASE HandleWindowResult(e, n)
  <2> DEFINE id == <<"window", e.window>>
  <2>1. UNCHANGED <<optimizationRows, simulationRows, reportRows, published>>
    BY <1>5 DEF HandleWindowResult
  <2>2. /\ n >= 1 => DOMAIN experimentRows' = DOMAIN experimentRows \union {id}
        /\ ~(n >= 1) => experimentRows' = experimentRows
        /\ n >= 2 => walkRows' = Inserted(walkRows, id, e.validation)
        /\ ~(n >= 2) => walkRows' = walkRows
    BY <1>5, Upserted DEF HandleWindowResult
  <2>3. n >= 2 => Rowed(walkRows') /\ DOMAIN walkRows' = DOMAIN walkRows \union {id}
    <3>1. Rowed(walkRows)
      BY DEF TablesSound
    <3>2. ASSUME n >= 2 PROVE walkRows' = Inserted(walkRows, id, e.validation)
      BY <2>2, <3>2
    <3>3. Rowed(Inserted(walkRows, id, e.validation))
            /\ DOMAIN Inserted(walkRows, id, e.validation) = DOMAIN walkRows \union {id}
      BY <3>1, RowAdded
    <3> QED
      BY <3>2, <3>3, Zenon
  <2>4. RowsHaveExperiment'
    BY <1>3, <2>1, <2>2, <2>3 DEF TablesSound, RowsHaveExperiment
  <2>5. Rowed(walkRows)'
    BY <2>2, <2>3 DEF TablesSound, Rowed
  <2> QED
    BY <2>1, <2>4, <2>5 DEF TablesSound, Rowed, PublishedIsStored, RowsOf
<1>6. CASE HandleSimulation(e, n)
  <2> DEFINE id == <<"window", e.window>>
  <2> PICK r : r = Report(id, RowsOf(simulationRows', id))
    OBVIOUS
  <2>1. UNCHANGED <<optimizationRows, walkRows>>
    BY <1>6 DEF HandleSimulation
  <2>2. /\ n >= 1 => DOMAIN experimentRows' = DOMAIN experimentRows \union {id}
        /\ ~(n >= 1) => experimentRows' = experimentRows
        /\ n >= 2 => DOMAIN simulationRows' = DOMAIN simulationRows \union {id}
        /\ ~(n >= 2) => simulationRows' = simulationRows
        /\ n = 9 => reportRows' = Inserted(reportRows, id, r)
        /\ n = 9 => published' = published \o << [type |-> "research", experiment |-> id, report |-> r] >>
        /\ n # 9 => UNCHANGED <<reportRows, published>>
    BY <1>6, Upserted DEF HandleSimulation, Inserted, SimulationCalls, PublishedWhen, Reported
  <2>3. n = 9 => /\ Rowed(reportRows') /\ DOMAIN reportRows' = DOMAIN reportRows \union {id}
                 /\ RowsOf(reportRows', id) = Append(RowsOf(reportRows, id), r) /\ IsSequence(RowsOf(reportRows, id))
                 /\ \A i : i # id => RowsOf(reportRows', i) = RowsOf(reportRows, i)
    <3>1. Rowed(reportRows)
      BY DEF TablesSound
    <3>2. ASSUME n = 9 PROVE reportRows' = Inserted(reportRows, id, r)
      BY <2>2, <3>2
    <3>3. /\ Rowed(Inserted(reportRows, id, r)) /\ DOMAIN Inserted(reportRows, id, r) = DOMAIN reportRows \union {id}
          /\ RowsOf(Inserted(reportRows, id, r), id) = Append(RowsOf(reportRows, id), r)
          /\ IsSequence(RowsOf(reportRows, id))
      <4> HIDE DEF id
      <4> QED
        <5>1. /\ Rowed(Inserted(reportRows, id, r)) /\ IsSequence(RowsOf(reportRows, id))
              /\ DOMAIN Inserted(reportRows, id, r) = DOMAIN reportRows \union {id}
          BY <3>1, RowAdded
        <5>2. RowsOf(Inserted(reportRows, id, r), id) = Append(RowsOf(reportRows, id), r)
          BY RowsWith
        <5> QED
          BY <5>1, <5>2, Zenon
    <3>4. \A i : i # id => RowsOf(Inserted(reportRows, id, r), i) = RowsOf(reportRows, i)
      BY RowsBeside
    <3> QED
      BY <3>2, <3>3, <3>4, Zenon
  <2>4. RowsHaveExperiment'
    BY <1>3, <2>1, <2>2, <2>3 DEF TablesSound, RowsHaveExperiment
  <2>5. Rowed(reportRows)' /\ Rowed(walkRows)'
    BY <2>1, <2>2, <2>3 DEF TablesSound, Rowed
  <2>6. PublishedIsStored'
    <3>1. CASE n # 9
      BY <2>2, <3>1 DEF TablesSound, PublishedIsStored, RowsOf
    <3>2. CASE n = 9
      <4> DEFINE v == [type |-> "research", experiment |-> id, report |-> r]
                 old == RowsOf(reportRows, id)
      <4>1. v.experiment = id /\ v.report = r
        OBVIOUS
      <4>2. published' = published \o <<v>>
        BY <2>2, <3>2
      <4> HIDE DEF v
      <4>3. /\ Len(published) \in Nat /\ DOMAIN published' = 1 .. Len(published) + 1 /\ DOMAIN published = 1 .. Len(published)
            /\ published'[Len(published) + 1] = v /\ \A k \in DOMAIN published : published'[k] = published[k]
        <5>1. IsSequence(published)
          BY DEF FlowInv
        <5> QED
          BY <4>2, <5>1, JoinedOne
      <4>4. RowsOf(reportRows', id) = Append(old, r) /\ IsSequence(old)
        BY <2>3, <3>2
      <4>5. /\ DOMAIN old \subseteq DOMAIN Append(old, r) /\ \A m \in DOMAIN old : Append(old, r)[m] = old[m]
            /\ Len(old) + 1 \in DOMAIN Append(old, r) /\ Append(old, r)[Len(old) + 1] = r
        <5>1. IsSequence(old)
          BY <4>4
        <5> HIDE DEF old
        <5> QED
          BY <5>1, Longer
      <4>6. ASSUME NEW i, NEW m \in DOMAIN RowsOf(reportRows, i)
            PROVE  m \in DOMAIN RowsOf(reportRows', i) /\ RowsOf(reportRows', i)[m] = RowsOf(reportRows, i)[m]
        BY <2>3, <3>2, <4>4, <4>5
      <4>7. \A i : \A m \in DOMAIN RowsOf(reportRows', i) : RowsOf(reportRows', i)[m] = reportRows'[i][m]
        BY None DEF RowsOf
      <4>8. ASSUME NEW k \in DOMAIN published
            PROVE  \E m \in DOMAIN RowsOf(reportRows', published[k].experiment) :
                     reportRows'[published[k].experiment][m].version = published[k].report.version
        <5>1. PICK m \in DOMAIN RowsOf(reportRows, published[k].experiment) :
                reportRows[published[k].experiment][m].version = published[k].report.version
          BY DEF TablesSound, PublishedIsStored
        <5>2. RowsOf(reportRows, published[k].experiment)[m] = reportRows[published[k].experiment][m]
          BY <5>1, None DEF RowsOf
        <5> QED
          BY <4>6, <4>7, <5>1, <5>2
      <4>9. \E m \in DOMAIN RowsOf(reportRows', id) : reportRows'[id][m].version = r.version
        BY <4>4, <4>5, <4>7
      <4> QED
        BY <4>1, <4>3, <4>8, <4>9 DEF PublishedIsStored
    <3> QED
      BY <3>1, <3>2
  <2> QED
    BY <2>4, <2>5, <2>6 DEF TablesSound
<1> QED
  BY <1>1, <1>4, <1>5, <1>6 DEF HandleResearch

-----------------------------------------------------------------------------
(* Before the research engine hears of a simulation, it has stored its     *)
(* window, or hears of it; before Monte Carlo hears of a window, the       *)
(* research engine has, or is about to.                                    *)
Keeps(rows, w) == RowsOf(rows, <<"window", w>>) # <<>>
SimulatedLater(q, rows) ==
  \A n \in OfKind(q, "montecarlo") : Keeps(rows, q[n].window) \/ \E m \in News(q, q[n].window) : m < n
Announced(p, q, rows) == \A n \in DOMAIN p : Keeps(rows, p[n].window) \/ News(q, p[n].window) # {}

LEMMA NewsAdded ==
  ASSUME NEW p, NEW q, NEW v, Adds(p, q, v), NEW w
  PROVE  /\ News(q, w) \subseteq News(p, w)
         /\ News(p, w) = IF v.type = "walkforward" /\ v.window = w THEN News(q, w) \union {Len(q) + 1} ELSE News(q, w)
<1>1. /\ Len(q) \in Nat /\ DOMAIN q = 1 .. Len(q) /\ DOMAIN p = 1 .. Len(q) + 1
      /\ p[Len(q) + 1] = v /\ \A n \in DOMAIN q : p[n] = q[n]
  BY DEF Adds
<1>2. \A n : n \in DOMAIN p <=> n \in DOMAIN q \/ n = Len(q) + 1
  BY <1>1
<1> QED
  BY <1>1, <1>2 DEF News

LEMMA LaterAdded ==
  ASSUME NEW p, NEW q, NEW v, Adds(p, q, v), NEW rows, SimulatedLater(q, rows),
         v.type = "montecarlo" => Keeps(rows, v.window) \/ News(q, v.window) # {}
  PROVE  SimulatedLater(p, rows)
<1>1. /\ Len(q) \in Nat /\ DOMAIN q = 1 .. Len(q) /\ DOMAIN p = 1 .. Len(q) + 1
      /\ p[Len(q) + 1] = v /\ \A n \in DOMAIN q : p[n] = q[n]
  BY DEF Adds
<1>2. \A w : News(q, w) \subseteq News(p, w) /\ News(q, w) \subseteq 1 .. Len(q)
  BY <1>1, NewsAdded DEF News
<1> SUFFICES ASSUME NEW n \in OfKind(p, "montecarlo")
             PROVE  Keeps(rows, p[n].window) \/ \E m \in News(p, p[n].window) : m < n
  BY DEF SimulatedLater
<1>3. CASE n \in DOMAIN q
  <2>1. n \in OfKind(q, "montecarlo") /\ p[n] = q[n]
    BY <1>1, <1>3 DEF OfKind
  <2> QED
    BY <1>2, <2>1 DEF SimulatedLater
<1>4. CASE n = Len(q) + 1
  <2>1. p[n] = v /\ v.type = "montecarlo"
    BY <1>1, <1>4 DEF OfKind
  <2>2. Keeps(rows, v.window) \/ \E m \in News(q, v.window) : m \in 1 .. Len(q)
    BY <1>2, <2>1
  <2>3. \A m \in 1 .. Len(q) : m < n
    BY <1>1, <1>4
  <2> QED
    BY <1>2, <2>1, <2>2, <2>3
<1> QED
  BY <1>1, <1>3, <1>4 DEF OfKind

(* The head of the channel is handled.                                     *)
KeepsAll(rows, more) == \A w : Keeps(rows, w) => Keeps(more, w)
LEMMA NewsTaken ==
  ASSUME NEW q, IsSequence(q), q # <<>>, NEW w
  PROVE  /\ \A n \in DOMAIN Tail(q) : n \in News(Tail(q), w) <=> n + 1 \in News(q, w)
         /\ \A n \in News(q, w) : n = 1 \/ n - 1 \in News(Tail(q), w)
         /\ News(Tail(q), w) # {} \/ 1 \in News(q, w) \/ News(q, w) = {}
<1>1. /\ Len(q) \in Nat /\ DOMAIN q = 1 .. Len(q) /\ DOMAIN Tail(q) = 1 .. Len(q) - 1
      /\ \A n \in DOMAIN Tail(q) : n + 1 \in DOMAIN q /\ Tail(q)[n] = q[n + 1]
  BY Tailed
<1>2. \A n \in DOMAIN Tail(q) : n \in News(Tail(q), w) <=> n + 1 \in News(q, w)
  BY <1>1 DEF News
<1>3. ASSUME NEW n \in News(q, w), n # 1 PROVE n - 1 \in News(Tail(q), w)
  <2>1. n \in 1 .. Len(q)
    BY <1>1 DEF News
  <2>2. n - 1 \in 1 .. Len(q) - 1 /\ (n - 1) + 1 = n
    BY <1>1, <1>3, <2>1
  <2> QED
    BY <1>1, <1>2, <2>2
<1> QED
  BY <1>2, <1>3

LEMMA LaterTaken ==
  ASSUME NEW q, IsSequence(q), q # <<>>, NEW rows, NEW more, KeepsAll(rows, more), SimulatedLater(q, rows),
         Head(q).type = "walkforward" => Keeps(more, Head(q).window)
  PROVE  SimulatedLater(Tail(q), more)
<1>1. /\ Len(q) \in Nat /\ DOMAIN q = 1 .. Len(q) /\ DOMAIN Tail(q) = 1 .. Len(q) - 1 /\ Head(q) = q[1]
      /\ \A n \in DOMAIN Tail(q) : n + 1 \in DOMAIN q /\ Tail(q)[n] = q[n + 1]
  BY Tailed
<1> SUFFICES ASSUME NEW n \in OfKind(Tail(q), "montecarlo")
             PROVE  Keeps(more, Tail(q)[n].window) \/ \E m \in News(Tail(q), Tail(q)[n].window) : m < n
  BY DEF SimulatedLater
<1>2. n \in DOMAIN Tail(q) /\ n + 1 \in OfKind(q, "montecarlo") /\ Tail(q)[n] = q[n + 1] /\ n \in Nat
  BY <1>1 DEF OfKind
<1> DEFINE w == q[n + 1].window
<1>3. CASE Keeps(rows, w)
  BY <1>2, <1>3 DEF KeepsAll
<1>4. CASE \E m \in News(q, w) : m < n + 1
  <2>1. PICK m \in News(q, w) : m < n + 1
    BY <1>4
  <2>2. CASE m = 1
    <3>1. Keeps(more, w)
      BY <1>1, <2>1, <2>2 DEF News
    <3> QED
      BY <1>2, <3>1
  <2>3. CASE m # 1
    <3>1. m - 1 \in News(Tail(q), w)
      BY <2>1, <2>3, NewsTaken
    <3>2. m \in Int
      BY <1>1, <2>1 DEF News
    <3>3. m - 1 < n
      BY <1>2, <2>1, <3>2
    <3> QED
      BY <1>2, <3>1, <3>3
  <2> QED
    BY <2>2, <2>3
<1>5. Keeps(rows, w) \/ \E m \in News(q, w) : m < n + 1
  BY <1>2 DEF SimulatedLater
<1> QED
  BY <1>3, <1>4, <1>5

LEMMA AnnouncedTaken ==
  ASSUME NEW p, NEW q, IsSequence(q), q # <<>>, NEW rows, NEW more, KeepsAll(rows, more), Announced(p, q, rows),
         Head(q).type = "walkforward" => Keeps(more, Head(q).window)
  PROVE  Announced(p, Tail(q), more)
<1> SUFFICES ASSUME NEW n \in DOMAIN p PROVE Keeps(more, p[n].window) \/ News(Tail(q), p[n].window) # {}
  BY DEF Announced
<1> DEFINE w == p[n].window
<1>1. CASE Keeps(rows, w)
  BY <1>1 DEF KeepsAll
<1>2. CASE 1 \in News(q, w)
  <2>1. Head(q) = q[1]
    BY Tailed
  <2> QED
    BY <1>2, <2>1 DEF News
<1>3. CASE News(Tail(q), w) # {}
  BY <1>3
<1> HIDE DEF w
<1>4. Keeps(rows, w) \/ News(q, w) # {}
  BY DEF Announced, w
<1> QED
  BY <1>1, <1>2, <1>3, <1>4, NewsTaken DEF w

-----------------------------------------------------------------------------
(* What the steps do to the channels of Monte Carlo and research.          *)
LEMMA QueueOf ==
  /\ \A from : from # "research" => Queue("research", from) = inbox["research"]
  /\ \A from : from # "montecarlo" => Queue("montecarlo", from) = inbox["montecarlo"]
  /\ Queue("research", "research") = Tail(inbox["research"])
  /\ Queue("montecarlo", "montecarlo") = Tail(inbox["montecarlo"])
BY DEF Queue

LEMMA ListensTo ==
  ASSUME NEW e \in Engines, NEW type
  PROVE  type \in Listening[e] <=> e \in enabled /\ e \notin closed /\ ~busClosed /\ type \in Wants[e]
BY DEF Listening

LEMMA OutsideMoves ==
  ASSUME BoxesSound, NEW v, v.type = "optimization", NEW nobody, nobody \notin Engines, Publish(<<v>>, nobody)
  PROVE  /\ inbox'["montecarlo"] = inbox["montecarlo"]
         /\ ~lost' => ~lost /\ (\/ inbox'["research"] = inbox["research"]
                                \/ Adds(inbox'["research"], inbox["research"], v))
<1> PICK out : out = <<v>>
  OBVIOUS
<1>1. /\ Publish(out, nobody) /\ Takes(nobody) /\ OfType(out, "optimization") /\ out \in {<<>>, <<v>>}
  BY OneOfType DEF Takes
<1>2. /\ "research" \in Engines /\ "montecarlo" \in Engines /\ "optimization" \notin Listening["montecarlo"]
      /\ Queue("research", nobody) = inbox["research"] /\ Queue("montecarlo", nobody) = inbox["montecarlo"]
  BY EngineNames, ListensTo DEF Queue
<1>3. inbox'["montecarlo"] = inbox["montecarlo"]
  BY <1>1, <1>2, Unwanted
<1>4. /\ ~lost' => ~lost
      /\ "optimization" \notin Listening["research"] => inbox'["research"] = inbox["research"]
      /\ ~lost' /\ "optimization" \in Listening["research"] => Adds(inbox'["research"], inbox["research"], v)
  BY <1>1, <1>2, BoxAfter
<1> QED
  BY <1>3, <1>4

LEMMA ScoreMoves ==
  ASSUME FlowInv, Score
  PROVE  \E s \in Scored[enabled] : \E v :
           /\ v.type = "optimization" /\ v.metrics = s.metrics
           /\ inbox'["montecarlo"] = inbox["montecarlo"]
           /\ ~lost' => ~lost /\ (\/ inbox'["research"] = inbox["research"]
                                  \/ Adds(inbox'["research"], inbox["research"], v))
<1>1. PICK run \in Started, s \in Scored[enabled] :
        Publish(<< [type |-> "optimization", run |-> run, strategy |-> "trend_following",
                    score |-> s.score, metrics |-> s.metrics] >>, "")
  BY DEF Score
<1> DEFINE v == [type |-> "optimization", run |-> run, strategy |-> "trend_following",
                 score |-> s.score, metrics |-> s.metrics]
<1>2. v.type = "optimization" /\ v.metrics = s.metrics
  OBVIOUS
<1>3. Publish(<<v>>, "")
  BY <1>1, Zenon
<1> HIDE DEF v
<1>4. /\ inbox'["montecarlo"] = inbox["montecarlo"]
      /\ ~lost' => ~lost /\ (\/ inbox'["research"] = inbox["research"]
                             \/ Adds(inbox'["research"], inbox["research"], v))
  BY <1>2, <1>3, OutsideMoves, EngineNames, Zenon DEF FlowInv
<1> QED
  BY <1>2, <1>4, Zenon

LEMMA WalkForwardMoves ==
  ASSUME FlowInv, WalkForwardHandles
  PROVE  LET e == Next1("walkforward")
             p == inbox["montecarlo"]
             q == inbox["research"]
         IN /\ ~lost' => ~lost
            /\ ~(Accepts(e) /\ e.run.phase = "validation") => inbox'["montecarlo"] = p /\ inbox'["research"] = q
            /\ Accepts(e) /\ e.run.phase = "validation" =>
                 \E v : /\ v.type = "walkforward" /\ v.window = session.window /\ v.validation = e.score /\ v.metrics = e.metrics
                        /\ "walkforward" \notin Listening["montecarlo"] => inbox'["montecarlo"] = p
                        /\ "walkforward" \notin Listening["research"] => inbox'["research"] = q
                        /\ ~lost' /\ "walkforward" \in Listening["montecarlo"] => Adds(inbox'["montecarlo"], p, v)
                        /\ ~lost' /\ "walkforward" \in Listening["research"] => Adds(inbox'["research"], q, v)
<1> DEFINE e == Next1("walkforward")
           x == Validated(e)
           v == [type |-> "walkforward", window |-> x.window, best |-> x.best, training |-> x.training,
                 validation |-> x.validation, metrics |-> x.metrics]
           out == IF Accepts(e) /\ e.run.phase = "validation" THEN <<v>> ELSE <<>>
<1>1. Publish(out, "walkforward") /\ Takes("walkforward") /\ BoxesSound
  BY DEF WalkForwardHandles, Takes, Waiting, WalkForwardUpdates, FlowInv
<1>2. v.type = "walkforward" /\ v.window = session.window /\ v.validation = e.score /\ v.metrics = e.metrics
  BY DEF Validated
<1> HIDE DEF v, x
<1>3. OfType(out, "walkforward") /\ out \in {<<>>, <<v>>}
  BY <1>2, OneOfType, NothingOfType
<1>4. "research" \in Engines /\ "montecarlo" \in Engines
  BY EngineNames
<1>5. Queue("research", "walkforward") = inbox["research"] /\ Queue("montecarlo", "walkforward") = inbox["montecarlo"]
  BY QueueOf
<1> HIDE DEF out, e
<1>6. /\ ~lost' => ~lost
      /\ out = <<>> \/ "walkforward" \notin Listening["research"] => inbox'["research"] = inbox["research"]
      /\ ~lost' /\ out = <<v>> /\ "walkforward" \in Listening["research"] => Adds(inbox'["research"], inbox["research"], v)
  BY <1>1, <1>3, <1>4, <1>5, BoxAfter
<1>7. /\ out = <<>> \/ "walkforward" \notin Listening["montecarlo"] => inbox'["montecarlo"] = inbox["montecarlo"]
      /\ ~lost' /\ out = <<v>> /\ "walkforward" \in Listening["montecarlo"] => Adds(inbox'["montecarlo"], inbox["montecarlo"], v)
  BY <1>1, <1>3, <1>4, <1>5, BoxAfter
<1>8. out = IF Accepts(e) /\ e.run.phase = "validation" THEN <<v>> ELSE <<>>
  BY DEF out
<1>9. Accepts(Next1("walkforward")) /\ Next1("walkforward").run.phase = "validation" => out = <<v>>
  BY <1>8 DEF e
<1>10. ~(Accepts(Next1("walkforward")) /\ Next1("walkforward").run.phase = "validation") => out = <<>>
  BY <1>8 DEF e
<1> QED
  BY <1>2, <1>6, <1>7, <1>9, <1>10 DEF e

LEMMA MonteCarloMoves ==
  ASSUME FlowInv, MonteCarloHandles
  PROVE  LET e == Next1("montecarlo")
             q == inbox["research"]
         IN /\ ~lost' => ~lost
            /\ inbox'["montecarlo"] = Tail(inbox["montecarlo"])
            /\ Fails(e) => mcResults' = mcResults \o <<>> /\ inbox'["research"] = q
            /\ ~Fails(e) =>
                 \E s \in Simulated[e.metrics] : \E v :
                   /\ v = [type |-> "montecarlo", window |-> e.window, metrics |-> e.metrics, profit |-> s.profit,
                           loss |-> s.loss, ruin |-> s.ruin, worst |-> s.worst, best |-> s.best]
                   /\ mcResults' = mcResults \o <<v>>
                   /\ "montecarlo" \notin Listening["research"] => inbox'["research"] = q
                   /\ ~lost' /\ "montecarlo" \in Listening["research"] => Adds(inbox'["research"], q, v)
<1> DEFINE e == Next1("montecarlo")
<1>1. PICK out \in MonteCarloUpdates(e) : HandleWalkForward(out) /\ Publish(out, "montecarlo")
  BY DEF MonteCarloHandles
<1>2. mcResults' = mcResults \o out /\ Takes("montecarlo") /\ BoxesSound
  BY <1>1 DEF MonteCarloHandles, Takes, Waiting, FlowInv, HandleWalkForward
<1>3. /\ "research" \in Engines /\ "montecarlo" \in Engines /\ "montecarlo" \notin Listening["montecarlo"]
      /\ Queue("research", "montecarlo") = inbox["research"]
      /\ Queue("montecarlo", "montecarlo") = Tail(inbox["montecarlo"])
  BY EngineNames, ListensTo, QueueOf
<1>4. CASE Fails(e)
  <2>1. out = <<>> /\ OfType(out, "montecarlo") /\ out \in {<<>>, <<out>>}
    BY <1>1, <1>4, NothingOfType DEF MonteCarloUpdates
  <2>2. /\ ~lost' => ~lost
        /\ inbox'["research"] = inbox["research"]
    BY <1>1, <1>2, <1>3, <2>1, BoxAfter
  <2>3. inbox'["montecarlo"] = Tail(inbox["montecarlo"])
    BY <1>1, <1>2, <1>3, <2>1, BoxAfter
  <2> QED
    BY <1>2, <1>4, <2>1, <2>2, <2>3
<1>5. CASE ~Fails(e)
  <2>1. PICK s \in Simulated[e.metrics] :
          out = << [type |-> "montecarlo", window |-> e.window, metrics |-> e.metrics, profit |-> s.profit,
                    loss |-> s.loss, ruin |-> s.ruin, worst |-> s.worst, best |-> s.best] >>
    BY <1>1, <1>5 DEF MonteCarloUpdates
  <2> DEFINE v == [type |-> "montecarlo", window |-> e.window, metrics |-> e.metrics, profit |-> s.profit,
                   loss |-> s.loss, ruin |-> s.ruin, worst |-> s.worst, best |-> s.best]
  <2>2. out = <<v>> /\ v.type = "montecarlo"
    BY <2>1
  <2> HIDE DEF v
  <2>3. OfType(out, "montecarlo") /\ out \in {<<>>, <<v>>}
    BY <2>2, OneOfType
  <2>4. /\ ~lost' => ~lost
        /\ "montecarlo" \notin Listening["research"] => inbox'["research"] = inbox["research"]
        /\ ~lost' /\ "montecarlo" \in Listening["research"] => Adds(inbox'["research"], inbox["research"], v)
    BY <1>1, <1>2, <1>3, <2>2, <2>3, BoxAfter
  <2>5. inbox'["montecarlo"] = Tail(inbox["montecarlo"])
    <3>1. inbox'["montecarlo"] = Queue("montecarlo", "montecarlo")
      BY <1>1, <1>2, <1>3, <2>3, Unwanted
    <3> QED
      BY <1>3, <3>1, Zenon
  <2>6. mcResults' = mcResults \o <<v>>
    BY <1>2, <2>2
  <2> QED
    BY <1>5, <2>4, <2>5, <2>6 DEF v
<1> QED
  BY <1>4, <1>5

LEMMA ResearchMoves ==
  ASSUME FlowInv, ResearchHandles
  PROVE  /\ ~lost' => ~lost
         /\ inbox'["research"] = Tail(inbox["research"]) /\ inbox'["montecarlo"] = inbox["montecarlo"]
<1> DEFINE e == Next1("research")
           out == SubSeq(published', Len(published) + 1, Len(published'))
<1>1. PICK n \in Succeeds(e) : HandleResearch(e, n) /\ Publish(out, "research")
  BY DEF ResearchHandles
<1>2. Takes("research") /\ BoxesSound
  BY DEF ResearchHandles, Takes, Waiting, FlowInv
<1>3. \E v : OfType(out, "research") /\ out \in {<<>>, <<v>>}
  <2>1. \/ published' = published
        \/ published' = published \o Reported(<<"window", e.window>>)
    BY <1>1 DEF HandleResearch, HandleOptimizationResult, HandleWindowResult, HandleSimulation
  <2> DEFINE v == [type |-> "research", experiment |-> <<"window", e.window>>,
                   report |-> Report(<<"window", e.window>>, RowsOf(simulationRows', <<"window", e.window>>))]
  <2>2. published' = published \/ published' = published \o <<v>>
    BY <2>1 DEF Reported
  <2>3. v.type = "research"
    OBVIOUS
  <2> HIDE DEF v
  <2>4. IsSequence(published) /\ IsSequence(<<v>>)
    BY One DEF FlowInv
  <2>5. CASE published' = published
    BY <2>4, <2>5, Joined, NothingOfType
  <2>6. CASE published' = published \o <<v>>
    <3>1. out = <<v>>
      BY <2>4, <2>6, Joined
    <3>2. OfType(<<v>>, "research")
      BY <2>3, OneOfType
    <3> QED
      BY <3>1, <3>2
  <2> QED
    BY <2>2, <2>5, <2>6
<1>4. PICK v : OfType(out, "research") /\ out \in {<<>>, <<v>>}
  BY <1>3
<1> HIDE DEF out, e
<1>5. /\ "research" \in Engines /\ "montecarlo" \in Engines
      /\ "research" \notin Listening["montecarlo"] /\ "research" \notin Listening["research"]
      /\ Queue("research", "research") = Tail(inbox["research"])
      /\ Queue("montecarlo", "research") = inbox["montecarlo"]
  BY EngineNames, ListensTo, QueueOf
<1>6. (~lost' => ~lost) /\ inbox'["research"] = Tail(inbox["research"])
  <2>1. (~lost' => ~lost) /\ inbox'["research"] = Queue("research", "research")
    BY <1>1, <1>2, <1>4, <1>5, Unwanted, NotLost
  <2> QED
    BY <1>5, <2>1, Zenon
<1>7. inbox'["montecarlo"] = inbox["montecarlo"]
  BY <1>1, <1>2, <1>4, <1>5, Unwanted, NotLost
<1> QED
  BY <1>6, <1>7

LEMMA ExperimentsMove ==
  ASSUME FlowInv, ExperimentsHandle
  PROVE  (~lost' => ~lost) /\ inbox'["research"] = inbox["research"] /\ inbox'["montecarlo"] = inbox["montecarlo"]
<1> DEFINE e == Next1("experiments")
           out == ExperimentUpdates(e)
<1>1. Publish(out, "experiments") /\ Takes("experiments") /\ BoxesSound
  BY DEF ExperimentsHandle, Takes, Waiting, FlowInv
<1>2. \E v : OfType(out, "experiment") /\ out \in {<<>>, <<v>>}
  BY NothingOfType, OneOfType DEF ExperimentUpdates
<1>3. PICK v : OfType(out, "experiment") /\ out \in {<<>>, <<v>>}
  BY <1>2
<1> HIDE DEF out, e
<1>4. /\ "research" \in Engines /\ "montecarlo" \in Engines
      /\ "experiment" \notin Listening["montecarlo"] /\ "experiment" \notin Listening["research"]
      /\ Queue("research", "experiments") = inbox["research"]
      /\ Queue("montecarlo", "experiments") = inbox["montecarlo"]
  BY EngineNames, ListensTo, QueueOf
<1>5. (~lost' => ~lost) /\ inbox'["research"] = inbox["research"]
  BY <1>1, <1>3, <1>4, BoxAfter
<1>6. inbox'["montecarlo"] = inbox["montecarlo"]
  BY <1>1, <1>3, <1>4, BoxAfter
<1> QED
  BY <1>5, <1>6

-----------------------------------------------------------------------------
(* As long as no event is lost and no call fails: the order of the         *)
(* channels, and what it gives the reports.                                *)
OpenSound == faults \in Nat /\ (~busClosed => cancelled = {})
Undisturbed == faults = 0 /\ ~lost
InTime ==
  Undisturbed =>
    /\ SimulatedLater(inbox["research"], walkRows)
    /\ "research" \in enabled /\ ~busClosed => Announced(inbox["montecarlo"], inbox["research"], walkRows)

LEMMA OpenStep ==
  ASSUME OpenSound, [FlowNext]_flowVars
  PROVE  OpenSound' /\ (faults' = 0 => faults = 0) /\ (~busClosed' => ~busClosed) /\ enabled' = enabled
<1>1. CASE Score \/ ExperimentsHandle \/ WalkForwardHandles \/ MonteCarloHandles
           \/ (\E e \in Engines : ConsumerEnds(e) \/ Close(e)) \/ UNCHANGED flowVars
  <2>1. UNCHANGED <<faults, busClosed, cancelled, enabled>>
    BY <1>1 DEF Score, ExperimentsHandle, WalkForwardHandles, MonteCarloHandles, ConsumerEnds, Close,
       flowVars, lifeVars, worldVars
  <2> QED
    BY <2>1 DEF OpenSound
<1>2. CASE ExperimentSteps \/ WindowSteps \/ ResearchHandles
  <2>1. UNCHANGED <<busClosed, cancelled, enabled>> /\ faults' \in {faults, faults + 1}
    BY <1>2 DEF ExperimentSteps, WindowSteps, ResearchHandles, MayFail, lifeVars
  <2> QED
    BY <2>1 DEF OpenSound
<1>3. CASE CloseBus
  BY <1>3 DEF CloseBus, OpenSound, worldVars
<1>4. CASE Cancel
  BY <1>4 DEF Cancel, OpenSound, worldVars
<1> QED
  BY <1>1, <1>2, <1>3, <1>4 DEF FlowNext, EngineSteps

(* Where no call failed, all were made.                                    *)
LEMMA HeadIs ==
  ASSUME FlowInv, NEW e \in Engines, inbox[e] # <<>>
  PROVE  /\ IsSequence(inbox[e]) /\ 1 \in DOMAIN inbox[e] /\ Next1(e) = inbox[e][1]
         /\ Next1(e).type \in Wants[e]
<1>1. IsSequence(inbox[e])
  BY DEF FlowInv, BoxesSound
<1>2. Next1(e) = inbox[e][1] /\ 1 \in DOMAIN inbox[e]
  BY <1>1, Tailed DEF Next1
<1> QED
  BY <1>1, <1>2 DEF FlowInv, BoxesSound

LEMMA CallsMade ==
  ASSUME FlowInv, OpenSound, ResearchHandles, faults' = 0
  PROVE  /\ Next1("research").type \in {"optimization", "walkforward", "montecarlo"}
         /\ HandleResearch(Next1("research"), CallsOf(Next1("research")))
<1> DEFINE e == Next1("research")
<1>1. e.type \in {"optimization", "walkforward", "montecarlo"}
  BY HeadIs, EngineNames DEF ResearchHandles, Waiting
<1>2. PICK n \in Succeeds(e) :
        HandleResearch(e, n) /\ faults' = IF n < CallsOf(e) THEN faults + 1 ELSE faults
  BY DEF ResearchHandles
<1>3. n \in Nat /\ n <= CallsOf(e) /\ CallsOf(e) \in Nat
  BY <1>1, CallsSucceed
<1>4. n = CallsOf(e)
  BY <1>2, <1>3 DEF OpenSound
<1> QED
  BY <1>1, <1>2, <1>4

LEMMA WindowStored ==
  ASSUME FlowInv, OpenSound, ResearchHandles, faults' = 0, Next1("research").type = "walkforward"
  PROVE  /\ walkRows' = Inserted(walkRows, <<"window", Next1("research").window>>, Next1("research").validation)
         /\ UNCHANGED <<published, reportRows>>
<1>1. HandleResearch(Next1("research"), 2)
  BY CallsMade DEF CallsOf
<1> QED
  BY <1>1 DEF HandleResearch, HandleOptimizationResult, HandleWindowResult, HandleSimulation

LEMMA SimulationStored ==
  ASSUME FlowInv, OpenSound, ResearchHandles, faults' = 0, Next1("research").type = "montecarlo"
  PROVE  /\ walkRows' = walkRows
         /\ \E v, r : /\ published' = published \o <<v>>
                      /\ reportRows' = Inserted(reportRows, <<"window", Next1("research").window>>, r)
                      /\ r.validations = RowsOf(walkRows, <<"window", Next1("research").window>>)
<1> DEFINE e == Next1("research")
           id == <<"window", e.window>>
           r == Report(id, RowsOf(simulationRows', id))
<1>1. HandleSimulation(e, 9)
  BY CallsMade DEF CallsOf, SimulationCalls, HandleResearch
<1>2. /\ walkRows' = walkRows /\ published' = published \o Reported(id)
      /\ reportRows' = Inserted(reportRows, id, r)
  BY <1>1 DEF HandleSimulation, SimulationCalls, PublishedWhen
<1>3. r.validations = RowsOf(walkRows, id)
  BY DEF Report
<1> HIDE DEF r
<1>4. \E v : published' = published \o <<v>>
  BY <1>2 DEF Reported
<1> QED
  BY <1>2, <1>3, <1>4

LEMMA ScoreStored ==
  ASSUME FlowInv, OpenSound, ResearchHandles, faults' = 0, Next1("research").type = "optimization"
  PROVE  UNCHANGED <<walkRows, published, reportRows>>
BY CallsMade DEF HandleResearch, HandleOptimizationResult

LEMMA KeepsMore ==
  ASSUME Rowed(walkRows), FlowInv, OpenSound, ResearchHandles, faults' = 0
  PROVE  /\ KeepsAll(walkRows, walkRows')
         /\ Next1("research").type = "walkforward" => Keeps(walkRows', Next1("research").window)
<1> DEFINE e == Next1("research")
           id == <<"window", e.window>>
<1>1. CASE e.type # "walkforward"
  <2>1. e.type \in {"optimization", "montecarlo"}
    BY <1>1, CallsMade
  <2>2. walkRows' = walkRows
    BY <2>1, ScoreStored, SimulationStored
  <2> QED
    BY <1>1, <2>2 DEF KeepsAll, Keeps
<1>2. CASE e.type = "walkforward"
  <2>1. walkRows' = Inserted(walkRows, id, e.validation)
    BY <1>2, WindowStored
  <2>2. RowsOf(Inserted(walkRows, id, e.validation), id) # <<>>
    <3>1. IsSequence(RowsOf(walkRows, id))
      BY RowAdded
    <3>2. Append(RowsOf(walkRows, id), e.validation) # <<>>
      BY <3>1, Longer
    <3> QED
      BY <3>2, RowsWith
  <2>3. \A i : i # id => RowsOf(Inserted(walkRows, id, e.validation), i) = RowsOf(walkRows, i)
    BY RowsBeside
  <2>4. Keeps(walkRows', e.window)
    BY <2>1, <2>2 DEF Keeps
  <2>5. ASSUME NEW w, Keeps(walkRows, w) PROVE Keeps(walkRows', w)
    <3>1. CASE <<"window", w>> = id
      BY <2>1, <2>2, <3>1 DEF Keeps
    <3>2. CASE <<"window", w>> # id
      BY <2>1, <2>3, <2>5, <3>2 DEF Keeps
    <3> QED
      BY <3>1, <3>2
  <2> QED
    BY <2>4, <2>5 DEF KeepsAll
<1> QED
  BY <1>1, <1>2

LEMMA AnnouncedMore ==
  ASSUME NEW p, NEW q, NEW more, NEW rows, NEW v, Adds(more, q, v), Announced(p, q, rows)
  PROVE  Announced(p, more, rows)
<1>1. \A w : News(q, w) \subseteq News(more, w)
  BY NewsAdded
<1> QED
  BY <1>1 DEF Announced

LEMMA InTimeStep ==
  ASSUME FlowInv, TablesSound, OpenSound, InTime, [FlowNext]_flowVars
  PROVE  InTime'
<1> DEFINE p == inbox["montecarlo"]
           q == inbox["research"]
           open == "research" \in enabled /\ ~busClosed
<1> SUFFICES ASSUME faults' = 0, ~lost'
             PROVE  /\ SimulatedLater(q', walkRows')
                    /\ open' => Announced(p', q', walkRows')
  BY DEF InTime, Undisturbed
<1>1. faults = 0 /\ (open' => open)
  BY OpenStep
<1>2. open => \A type : type \in Listening["research"] <=> type \in {"optimization", "walkforward", "montecarlo"}
  <2>1. ~busClosed => closed = {}
    BY DEF OpenSound, FlowInv, LifeSound
  <2> QED
    BY <2>1, ListensTo, EngineNames
<1>3. \A type \in Listening["research"] : open
  BY ListensTo, EngineNames
<1>4. CASE ~lost /\ UNCHANGED <<p, q, walkRows>>
  BY <1>1, <1>4 DEF InTime, Undisturbed
<1>5. CASE Score
  <2>1. walkRows' = walkRows
    BY <1>5 DEF Score, researchVars, tableVars
  <2>2. PICK v : /\ v.type = "optimization" /\ p' = p
                 /\ ~lost /\ (q' = q \/ Adds(q', q, v))
    BY <1>5, ScoreMoves
  <2>3. SimulatedLater(q, walkRows) /\ (open => Announced(p, q, walkRows))
    BY <1>1, <2>2 DEF InTime, Undisturbed
  <2>4. CASE q' = q
    BY <1>1, <2>1, <2>2, <2>3, <2>4
  <2>5. CASE Adds(q', q, v)
    <3>1. SimulatedLater(q', walkRows)
      BY <2>2, <2>3, <2>5, LaterAdded
    <3>2. open => Announced(p, q', walkRows)
      BY <2>3, <2>5, AnnouncedMore
    <3> QED
      BY <1>1, <2>1, <2>2, <3>1, <3>2
  <2> QED
    BY <2>2, <2>4, <2>5
<1>6. CASE WalkForwardHandles
  <2>1. walkRows' = walkRows
    BY <1>6 DEF WalkForwardHandles, researchVars, tableVars
  <2>2. CASE p' = p /\ q' = q
    <3>1. ~lost
      BY <1>6, WalkForwardMoves
    <3> QED
      BY <1>4, <2>1, <2>2, <3>1
  <2>3. CASE ~(p' = p /\ q' = q)
    <3> DEFINE e == Next1("walkforward")
    <3>1. PICK v : /\ v.type = "walkforward" /\ v.window = session.window
                   /\ "walkforward" \notin Listening["montecarlo"] => p' = p
                   /\ "walkforward" \notin Listening["research"] => q' = q
                   /\ "walkforward" \in Listening["montecarlo"] => Adds(p', p, v)
                   /\ "walkforward" \in Listening["research"] => Adds(q', q, v)
      BY <1>6, <2>3, WalkForwardMoves
    <3>2. ~lost
      BY <1>6, WalkForwardMoves
    <3>3. SimulatedLater(q, walkRows) /\ (open => Announced(p, q, walkRows))
      BY <1>1, <3>2 DEF InTime, Undisturbed
    <3>4. SimulatedLater(q', walkRows)
      <4>1. CASE "walkforward" \in Listening["research"]
        BY <3>1, <3>3, <4>1, LaterAdded
      <4>2. CASE "walkforward" \notin Listening["research"]
        BY <3>1, <3>3, <4>2
      <4> QED
        BY <4>1, <4>2
    <3>5. ASSUME open PROVE Announced(p', q', walkRows)
      <4>1. Adds(q', q, v)
        BY <1>2, <3>1, <3>5
      <4>2. Announced(p, q', walkRows)
        BY <3>3, <3>5, <4>1, AnnouncedMore
      <4>3. News(q', v.window) # {}
        <5>1. News(q', v.window) = News(q, v.window) \union {Len(q) + 1}
          BY <3>1, <4>1, NewsAdded
        <5> QED
          BY <5>1
      <4>4. CASE p' = p
        BY <4>2, <4>4
      <4>5. CASE Adds(p', p, v)
        <5>1. \A n \in DOMAIN p' : (n \in DOMAIN p /\ p'[n] = p[n]) \/ p'[n] = v
          BY <4>5 DEF Adds
        <5> QED
          BY <4>2, <4>3, <5>1 DEF Announced
      <4> QED
        BY <3>1, <4>4, <4>5
    <3> QED
      BY <1>1, <2>1, <3>4, <3>5
  <2> QED
    BY <2>2, <2>3
<1>7. CASE MonteCarloHandles
  <2> DEFINE e == Next1("montecarlo")
  <2>1. walkRows' = walkRows
    BY <1>7 DEF MonteCarloHandles, researchVars, tableVars
  <2>2. ~lost /\ p' = Tail(p)
    BY <1>7, MonteCarloMoves
  <2>3. PICK v : /\ v.type = "montecarlo" /\ v.window = e.window
                 /\ q' = q \/ ("montecarlo" \in Listening["research"] /\ Adds(q', q, v))
    <3>1. CASE q' = q
      <4>1. \E v : v = [type |-> "montecarlo", window |-> e.window]
        OBVIOUS
      <4>2. PICK v : v = [type |-> "montecarlo", window |-> e.window]
        BY <4>1
      <4>3. v.type = "montecarlo" /\ v.window = e.window
        BY <4>2
      <4> QED
        BY <3>1, <4>3
    <3>2. CASE q' # q
      <4>1. PICK s, v :
              /\ v = [type |-> "montecarlo", window |-> e.window, metrics |-> e.metrics, profit |-> s.profit,
                      loss |-> s.loss, ruin |-> s.ruin, worst |-> s.worst, best |-> s.best]
              /\ "montecarlo" \notin Listening["research"] => q' = q
              /\ "montecarlo" \in Listening["research"] => Adds(q', q, v)
        BY <1>7, <3>2, MonteCarloMoves
      <4>2. v.type = "montecarlo" /\ v.window = e.window
        BY <4>1
      <4> QED
        BY <3>2, <4>1, <4>2
    <3> QED
      BY <3>1, <3>2
  <2>4. SimulatedLater(q, walkRows) /\ (open => Announced(p, q, walkRows))
    BY <1>1, <2>2 DEF InTime, Undisturbed
  <2>5. p # <<>> /\ IsSequence(p) /\ e = p[1] /\ 1 \in DOMAIN p
    BY <1>7, HeadIs, EngineNames DEF MonteCarloHandles, Waiting
  <2>6. open => Announced(Tail(p), q, walkRows)
    BY <2>4, <2>5, Tailed DEF Announced
  <2>7. CASE q' = q
    BY <1>1, <2>1, <2>2, <2>4, <2>6, <2>7
  <2>8. CASE "montecarlo" \in Listening["research"] /\ Adds(q', q, v)
    <3>1. open /\ (Keeps(walkRows, e.window) \/ News(q, e.window) # {})
      BY <1>3, <2>4, <2>5, <2>8 DEF Announced
    <3>2. SimulatedLater(q', walkRows)
      BY <2>3, <2>4, <2>8, <3>1, LaterAdded
    <3>3. Announced(Tail(p), q', walkRows)
      BY <2>6, <2>8, <3>1, AnnouncedMore
    <3> QED
      BY <2>1, <2>2, <3>2, <3>3
  <2> QED
    BY <2>3, <2>7, <2>8
<1>8. CASE ResearchHandles
  <2>1. ~lost /\ q' = Tail(q) /\ p' = p
    BY <1>8, ResearchMoves
  <2>2. SimulatedLater(q, walkRows) /\ (open => Announced(p, q, walkRows))
    BY <1>1, <2>1 DEF InTime, Undisturbed
  <2>3. q # <<>> /\ IsSequence(q)
    BY <1>8, HeadIs, EngineNames DEF ResearchHandles, Waiting
  <2> PICK more : more = walkRows'
    OBVIOUS
  <2>4. KeepsAll(walkRows, more) /\ (Head(q).type = "walkforward" => Keeps(more, Head(q).window))
    BY <1>8, KeepsMore DEF TablesSound, Next1
  <2>5. SimulatedLater(Tail(q), more)
    BY <2>2, <2>3, <2>4, LaterTaken
  <2>6. open => Announced(p, Tail(q), more)
    BY <2>2, <2>3, <2>4, AnnouncedTaken
  <2> QED
    BY <1>1, <2>1, <2>5, <2>6
<1>9. CASE \E e \in Engines : Close(e)
  <2>1. PICK e \in Engines : Close(e)
    BY <1>9
  <2>2. /\ lost' = lost /\ e \in cancelled /\ inbox' = [inbox EXCEPT ![e] = <<>>]
        /\ UNCHANGED <<walkRows, busClosed>>
    BY <2>1 DEF Close, researchVars, tableVars
  <2>3. DOMAIN inbox = Engines /\ "research" \in Engines
    BY EngineNames DEF FlowInv, BoxesSound
  <2>4. q' = q \/ q' = <<>>
    BY <2>2, <2>3
  <2>5. SimulatedLater(q, walkRows)
    BY <1>1, <2>2 DEF InTime, Undisturbed
  <2>6. SimulatedLater(q', walkRows)
    <3>1. OfKind(<<>>, "montecarlo") = {}
      BY None DEF OfKind
    <3> QED
      BY <2>4, <2>5, <3>1 DEF SimulatedLater
  <2>7. ~open'
    BY <2>2 DEF OpenSound
  <2> QED
    BY <2>2, <2>6, <2>7
<1>10. CASE ExperimentsHandle
  <2>1. walkRows' = walkRows
    BY <1>10 DEF ExperimentsHandle, researchVars, tableVars
  <2> QED
    BY <1>4, <1>10, <2>1, ExperimentsMove
<1>11. CASE ExperimentSteps \/ WindowSteps \/ CloseBus \/ Cancel \/ (\E e \in Engines : ConsumerEnds(e))
            \/ UNCHANGED flowVars
  <2>1. UNCHANGED <<inbox, lost, walkRows>>
    BY <1>11 DEF ExperimentSteps, WindowSteps, CloseBus, Cancel, ConsumerEnds, flowVars, busVars, researchVars, tableVars
  <2> QED
    BY <1>4, <2>1
<1> QED
  BY <1>5, <1>6, <1>7, <1>8, <1>9, <1>10, <1>11 DEF FlowNext, EngineSteps

(* No step takes back a loss.                                              *)
LEMMA LossStays ==
  ASSUME FlowInv, [FlowNext]_flowVars, ~lost'
  PROVE  ~lost
<1>1. CASE Score \/ ExperimentsHandle \/ WalkForwardHandles \/ MonteCarloHandles \/ ResearchHandles
  BY <1>1, ScoreMoves, ExperimentsMove, WalkForwardMoves, MonteCarloMoves, ResearchMoves
<1>2. CASE ExperimentSteps \/ WindowSteps \/ CloseBus \/ Cancel \/ (\E e \in Engines : ConsumerEnds(e) \/ Close(e))
            \/ UNCHANGED flowVars
  BY <1>2 DEF ExperimentSteps, WindowSteps, CloseBus, Cancel, ConsumerEnds, Close, flowVars, busVars
<1> QED
  BY <1>1, <1>2 DEF FlowNext, EngineSteps

LEMMA CompleteStep ==
  ASSUME FlowInv, TablesSound, OpenSound, InTime, ReportIsComplete, [FlowNext]_flowVars
  PROVE  ReportIsComplete'
<1> SUFFICES ASSUME faults' = 0, ~lost'
             PROVE  \A id \in DOMAIN reportRows' : \A n \in DOMAIN reportRows'[id] :
                      reportRows'[id][n].validations # <<>>
  BY DEF ReportIsComplete
<1>1. faults = 0 /\ ~lost
  BY OpenStep, LossStays
<1>2. \A id \in DOMAIN reportRows : \A n \in DOMAIN reportRows[id] : reportRows[id][n].validations # <<>>
  BY <1>1 DEF ReportIsComplete
<1>3. CASE reportRows' = reportRows
  BY <1>2, <1>3
<1>4. CASE ResearchHandles /\ reportRows' # reportRows
  <2> DEFINE q == inbox["research"]
             e == Next1("research")
  <2>1. e.type = "montecarlo"
    BY <1>4, CallsMade, WindowStored, ScoreStored
  <2>2. PICK r : /\ reportRows' = Inserted(reportRows, <<"window", e.window>>, r)
                 /\ r.validations = RowsOf(walkRows, <<"window", e.window>>)
    BY <1>4, <2>1, SimulationStored
  <2>3. r.validations # <<>>
    <3>1. IsSequence(q) /\ 1 \in DOMAIN q /\ e = q[1]
      BY <1>4, HeadIs, EngineNames DEF ResearchHandles, Waiting
    <3>2. Keeps(walkRows, e.window) \/ \E m \in News(q, e.window) : m < 1
      BY <1>1, <2>1, <3>1 DEF InTime, Undisturbed, SimulatedLater, OfKind
    <3>3. \A m \in News(q, e.window) : ~(m < 1)
      <4>1. DOMAIN q = 1 .. Len(q)
        BY <3>1, Tailed, None
      <4> QED
        BY <4>1 DEF News
    <3> QED
      BY <2>2, <3>2, <3>3 DEF Keeps
  <2> PICK id : id = <<"window", e.window>>
    OBVIOUS
  <2> DEFINE more == Inserted(reportRows, id, r)
             old == RowsOf(reportRows, id)
  <2>4. /\ DOMAIN more = DOMAIN reportRows \union {id} /\ IsSequence(old)
        /\ \A i \in DOMAIN reportRows : i # id => more[i] = reportRows[i]
    BY RowAdded DEF TablesSound, Inserted
  <2>5. more[id] = Append(old, r)
    BY DEF Inserted
  <2> HIDE DEF more, old
  <2>6. \A n \in DOMAIN Append(old, r) : (n \in DOMAIN old /\ Append(old, r)[n] = old[n]) \/ Append(old, r)[n] = r
    <3>1. /\ Len(old) \in Nat /\ DOMAIN old = 1 .. Len(old) /\ DOMAIN Append(old, r) = 1 .. Len(old) + 1
          /\ Append(old, r)[Len(old) + 1] = r /\ \A n \in DOMAIN old : Append(old, r)[n] = old[n]
      BY <2>4, Longer
    <3> QED
      BY <3>1
  <2>7. \A n \in DOMAIN old : old[n].validations # <<>>
    BY <1>2, None DEF old, RowsOf
  <2>8. \A n \in DOMAIN more[id] : more[id][n].validations # <<>>
    BY <2>3, <2>5, <2>6, <2>7
  <2>9. \A i \in DOMAIN more : \A n \in DOMAIN more[i] : more[i][n].validations # <<>>
    BY <1>2, <2>4, <2>8
  <2> QED
    BY <2>2, <2>9 DEF more
<1>5. CASE ~ResearchHandles
  <2>1. reportRows' = reportRows
    BY <1>5 DEF FlowNext, EngineSteps, Score, CloseBus, ExperimentSteps, WindowSteps, ExperimentsHandle,
       WalkForwardHandles, MonteCarloHandles, Cancel, ConsumerEnds, Close, flowVars, researchVars, tableVars
  <2> QED
    BY <1>3, <2>1
<1> QED
  BY <1>3, <1>4, <1>5

-----------------------------------------------------------------------------
(* Each validated window is stored, once, or is about to be.               *)
Sole(rows, w, x) == RowsOf(rows, <<"window", w>>) = <<x>>
NoRow(rows, w) == RowsOf(rows, <<"window", w>>) = <<>>
Expected(q, w, x) == \E n \in DOMAIN q : News(q, w) = {n} /\ q[n].validation = x
FiledOnce(w, q, rows, done) ==
  IF w \in DOMAIN done
  THEN \/ Sole(rows, w, done[w].validation) /\ News(q, w) = {}
       \/ NoRow(rows, w) /\ Expected(q, w, done[w].validation)
  ELSE NoRow(rows, w) /\ News(q, w) = {}

LEMMA FiledAdded ==
  ASSUME NEW more, NEW q, NEW v, Adds(more, q, v), v.type # "walkforward", NEW w, NEW rows, NEW done,
         FiledOnce(w, q, rows, done)
  PROVE  FiledOnce(w, more, rows, done)
<1>1. News(more, w) = News(q, w) /\ \A n \in DOMAIN q : n \in DOMAIN more /\ more[n] = q[n]
  BY NewsAdded DEF Adds
<1> QED
  BY <1>1 DEF FiledOnce, Expected

LEMMA FiledNew ==
  ASSUME NEW more, NEW q, NEW v, Adds(more, q, v), v.type = "walkforward",
         NEW done, NEW x, v.window \notin DOMAIN done, v.validation = x.validation,
         NEW w, NEW rows, FiledOnce(w, q, rows, done)
  PROVE  FiledOnce(w, more, rows, Stored(done, v.window, x))
<1> DEFINE after == Stored(done, v.window, x)
<1>1. /\ DOMAIN after = DOMAIN done \union {v.window} /\ after[v.window] = x
      /\ \A i \in DOMAIN done : after[i] = done[i]
  BY DEF Stored
<1> HIDE DEF after
<1>2. /\ Len(q) \in Nat /\ \A n \in DOMAIN q : n \in DOMAIN more /\ more[n] = q[n]
      /\ Len(q) + 1 \in DOMAIN more /\ more[Len(q) + 1] = v
  BY DEF Adds
<1>3. CASE w # v.window
  <2>1. News(more, w) = News(q, w)
    BY <1>3, NewsAdded
  <2> QED
    BY <1>1, <1>2, <1>3, <2>1 DEF FiledOnce, Expected, after
<1>4. CASE w = v.window
  <2>1. NoRow(rows, w) /\ News(q, w) = {}
    BY <1>4 DEF FiledOnce
  <2>2. News(more, w) = {Len(q) + 1}
    BY <1>4, <2>1, NewsAdded
  <2>3. Expected(more, w, x.validation)
    BY <1>2, <2>2 DEF Expected
  <2> QED
    BY <1>1, <1>4, <2>1, <2>3 DEF FiledOnce, after
<1> QED
  BY <1>3, <1>4

(* Taking the head out of the channel.                                     *)
LEMMA ExpectedTaken ==
  ASSUME NEW q, IsSequence(q), q # <<>>, NEW w
  PROVE  /\ News(q, w) = {} => News(Tail(q), w) = {}
         /\ \A x : Expected(q, w, x) /\ 1 \notin News(q, w) => Expected(Tail(q), w, x)
         /\ \A x : Expected(q, w, x) /\ 1 \in News(q, w) => News(Tail(q), w) = {} /\ Head(q).validation = x
<1>1. /\ Len(q) \in Nat /\ DOMAIN q = 1 .. Len(q) /\ DOMAIN Tail(q) = 1 .. Len(q) - 1 /\ Head(q) = q[1]
      /\ \A n \in DOMAIN Tail(q) : n + 1 \in DOMAIN q /\ Tail(q)[n] = q[n + 1]
  BY Tailed
<1>2. /\ \A n \in DOMAIN Tail(q) : n \in News(Tail(q), w) <=> n + 1 \in News(q, w)
      /\ \A n \in News(q, w) : n = 1 \/ n - 1 \in News(Tail(q), w)
      /\ News(Tail(q), w) \subseteq DOMAIN Tail(q) /\ News(q, w) \subseteq DOMAIN q
  BY NewsTaken DEF News
<1>3. ASSUME NEW x, Expected(q, w, x), 1 \notin News(q, w) PROVE Expected(Tail(q), w, x)
  <2>1. PICK n \in DOMAIN q : News(q, w) = {n} /\ q[n].validation = x
    BY <1>3 DEF Expected
  <2>2. n # 1 /\ n - 1 \in News(Tail(q), w) /\ n - 1 \in DOMAIN Tail(q) /\ (n - 1) + 1 = n
    BY <1>1, <1>2, <1>3, <2>1
  <2>3. Tail(q)[n - 1] = q[n]
    BY <1>1, <2>2
  <2>4. \A m \in News(Tail(q), w) : m = n - 1
    <3> TAKE m \in News(Tail(q), w)
    <3>1. m \in Int /\ m + 1 = n
      BY <1>1, <1>2, <2>1
    <3> QED
      BY <3>1
  <2> QED
    BY <2>1, <2>2, <2>3, <2>4 DEF Expected
<1>4. ASSUME NEW x, Expected(q, w, x), 1 \in News(q, w) PROVE News(Tail(q), w) = {} /\ Head(q).validation = x
  <2>1. News(q, w) = {1} /\ q[1].validation = x
    BY <1>4 DEF Expected
  <2>2. \A m \in DOMAIN Tail(q) : m + 1 # 1
    BY <1>1
  <2> QED
    BY <1>1, <1>2, <2>1, <2>2
<1>5. News(q, w) = {} => News(Tail(q), w) = {}
  BY <1>2
<1> QED
  BY <1>3, <1>4, <1>5

LEMMA FiledTaken ==
  ASSUME NEW q, IsSequence(q), q # <<>>, NEW w, NEW rows, Rowed(rows), NEW more, NEW done,
         \/ Head(q).type # "walkforward" /\ more = rows
         \/ Head(q).type = "walkforward" /\ more = Inserted(rows, <<"window", Head(q).window>>, Head(q).validation),
         FiledOnce(w, q, rows, done)
  PROVE  FiledOnce(w, Tail(q), more, done)
<1>1. Head(q) = q[1] /\ 1 \in DOMAIN q
  BY Tailed
<1>2. CASE 1 \notin News(q, w)
  <2>1. RowsOf(more, <<"window", w>>) = RowsOf(rows, <<"window", w>>)
    <3>1. CASE Head(q).type = "walkforward"
      <4>1. w # Head(q).window
        BY <1>1, <1>2, <3>1 DEF News
      <4>2. <<"window", w>> # <<"window", Head(q).window>>
        BY <4>1
      <4> QED
        BY <3>1, <4>2, RowsBeside
    <3> QED
      BY <3>1
  <2> QED
    BY <1>2, <2>1, ExpectedTaken DEF FiledOnce, Sole, NoRow
<1>3. CASE 1 \in News(q, w)
  <2>1. Head(q).type = "walkforward" /\ Head(q).window = w
    BY <1>1, <1>3 DEF News
  <2>2. w \in DOMAIN done /\ NoRow(rows, w) /\ Expected(q, w, done[w].validation)
    BY <1>3 DEF FiledOnce
  <2>3. News(Tail(q), w) = {} /\ Head(q).validation = done[w].validation
    BY <1>3, <2>2, ExpectedTaken
  <2>4. more = Inserted(rows, <<"window", w>>, done[w].validation)
    BY <2>1, <2>3
  <2>5. RowsOf(more, <<"window", w>>) = Append(RowsOf(rows, <<"window", w>>), done[w].validation)
    BY <2>4, RowsWith
  <2>6. Sole(more, w, done[w].validation)
    BY <2>2, <2>5 DEF Sole, NoRow
  <2> QED
    BY <2>2, <2>3, <2>6 DEF FiledOnce
<1> QED
  BY <1>2, <1>3

-----------------------------------------------------------------------------
(* What is validated, simulated and reported, and what is on its way, add  *)
(* up.                                                                     *)
Settled == Undisturbed /\ enabled = {"walkforward", "montecarlo", "research"} /\ ~busClosed
Worth(done) == {i \in DOMAIN done : ~Fails(done[i])}
Tally(p, q, sims, told, done) ==
  /\ Len(told) + Cardinality(OfKind(q, "montecarlo")) = Len(sims)
  /\ Len(sims) + Cardinality(Workable(p)) = Cardinality(Worth(done))
AllFiled == Settled => \A w : FiledOnce(w, inbox["research"], walkRows, wfResults)
AllTold == Settled => Tally(inbox["montecarlo"], inbox["research"], mcResults, published, wfResults)

LEMMA SettledWas ==
  ASSUME FlowInv, OpenSound, [FlowNext]_flowVars, Settled'
  PROVE  /\ Settled /\ ~lost' /\ faults' = 0
         /\ Listening["montecarlo"] = {"walkforward"}
         /\ Listening["research"] = {"optimization", "walkforward", "montecarlo"}
<1>1. Settled /\ ~lost' /\ faults' = 0
  BY OpenStep, LossStays DEF Settled, Undisturbed
<1>2. closed = {} /\ ~busClosed /\ "montecarlo" \in enabled /\ "research" \in enabled
  BY <1>1 DEF Settled, OpenSound, FlowInv, LifeSound
<1> QED
  BY <1>1, <1>2, EngineNames DEF Listening

(* How many of the events in a channel are of interest.                    *)
LEMMA KindAdded ==
  ASSUME NEW more, NEW q, NEW v, Adds(more, q, v), NEW type
  PROVE  /\ Cardinality(OfKind(q, type)) \in Nat
         /\ Cardinality(OfKind(more, type)) =
              IF v.type = type THEN Cardinality(OfKind(q, type)) + 1 ELSE Cardinality(OfKind(q, type))
<1> DEFINE k == Len(q)
           P == OfKind(q, type)
           Q == OfKind(more, type)
<1>1. /\ k \in Nat /\ DOMAIN q = 1 .. k /\ DOMAIN more = 1 .. k + 1 /\ more[k + 1] = v
      /\ \A n \in DOMAIN q : more[n] = q[n]
  BY DEF Adds
<1>2. /\ P \in SUBSET (1 .. k) /\ Q \in SUBSET (1 .. k + 1) /\ \A n \in 1 .. k : n \in P <=> n \in Q
      /\ k + 1 \in Q <=> v.type = type
  BY <1>1 DEF OfKind
<1> HIDE DEF P, Q, k
<1>3. /\ Cardinality(P) \in Nat
      /\ Cardinality(Q) = IF k + 1 \in Q THEN Cardinality(P) + 1 ELSE Cardinality(P)
  BY <1>1, <1>2, EndCount
<1> QED
  BY <1>2, <1>3 DEF P, Q

LEMMA WorkAdded ==
  ASSUME NEW more, NEW q, NEW v, Adds(more, q, v)
  PROVE  /\ Cardinality(Workable(q)) \in Nat
         /\ Cardinality(Workable(more)) =
              IF ~Fails(v) THEN Cardinality(Workable(q)) + 1 ELSE Cardinality(Workable(q))
<1> DEFINE k == Len(q)
           P == Workable(q)
           Q == Workable(more)
<1>1. /\ k \in Nat /\ DOMAIN q = 1 .. k /\ DOMAIN more = 1 .. k + 1 /\ more[k + 1] = v
      /\ \A n \in DOMAIN q : more[n] = q[n]
  BY DEF Adds
<1>2. /\ P \in SUBSET (1 .. k) /\ Q \in SUBSET (1 .. k + 1) /\ \A n \in 1 .. k : n \in P <=> n \in Q
      /\ k + 1 \in Q <=> ~Fails(v)
  BY <1>1 DEF Workable
<1> HIDE DEF P, Q, k
<1>3. /\ Cardinality(P) \in Nat
      /\ Cardinality(Q) = IF k + 1 \in Q THEN Cardinality(P) + 1 ELSE Cardinality(P)
  BY <1>1, <1>2, EndCount
<1> QED
  BY <1>2, <1>3 DEF P, Q

LEMMA KindTaken ==
  ASSUME NEW q, IsSequence(q), q # <<>>, NEW type
  PROVE  /\ Cardinality(OfKind(Tail(q), type)) \in Nat
         /\ Cardinality(OfKind(q, type)) =
              IF Head(q).type = type THEN Cardinality(OfKind(Tail(q), type)) + 1 ELSE Cardinality(OfKind(Tail(q), type))
<1> DEFINE k == Len(q)
           P == OfKind(Tail(q), type)
           Q == OfKind(q, type)
<1>1. /\ k \in Nat /\ DOMAIN q = 1 .. k /\ DOMAIN Tail(q) = 1 .. k - 1 /\ Head(q) = q[1] /\ 1 \in DOMAIN q
      /\ \A n \in DOMAIN Tail(q) : n + 1 \in DOMAIN q /\ Tail(q)[n] = q[n + 1]
  BY Tailed
<1>2. /\ k > 0 /\ P \in SUBSET (1 .. k - 1) /\ Q \in SUBSET (1 .. k)
      /\ \A n \in 1 .. k - 1 : n \in P <=> n + 1 \in Q
      /\ 1 \in Q <=> Head(q).type = type
  BY <1>1 DEF OfKind
<1> HIDE DEF P, Q, k
<1>3. /\ Cardinality(P) \in Nat
      /\ Cardinality(Q) = IF 1 \in Q THEN Cardinality(P) + 1 ELSE Cardinality(P)
  BY <1>1, <1>2, TailCount
<1> QED
  BY <1>2, <1>3 DEF P, Q

LEMMA WorkTaken ==
  ASSUME NEW q, IsSequence(q), q # <<>>
  PROVE  /\ Cardinality(Workable(Tail(q))) \in Nat
         /\ Cardinality(Workable(q)) =
              IF ~Fails(Head(q)) THEN Cardinality(Workable(Tail(q))) + 1 ELSE Cardinality(Workable(Tail(q)))
<1> DEFINE k == Len(q)
           P == Workable(Tail(q))
           Q == Workable(q)
<1>1. /\ k \in Nat /\ DOMAIN q = 1 .. k /\ DOMAIN Tail(q) = 1 .. k - 1 /\ Head(q) = q[1] /\ 1 \in DOMAIN q
      /\ \A n \in DOMAIN Tail(q) : n + 1 \in DOMAIN q /\ Tail(q)[n] = q[n + 1]
  BY Tailed
<1>2. /\ k > 0 /\ P \in SUBSET (1 .. k - 1) /\ Q \in SUBSET (1 .. k)
      /\ \A n \in 1 .. k - 1 : n \in P <=> n + 1 \in Q
      /\ 1 \in Q <=> ~Fails(Head(q))
  BY <1>1 DEF Workable
<1> HIDE DEF P, Q, k
<1>3. /\ Cardinality(P) \in Nat
      /\ Cardinality(Q) = IF 1 \in Q THEN Cardinality(P) + 1 ELSE Cardinality(P)
  BY <1>1, <1>2, TailCount
<1> QED
  BY <1>2, <1>3 DEF P, Q

(* The windows are those the plan gave, finitely many.                     *)
FewWindows == IsFiniteSet(DOMAIN wfWindows)

LEMMA FewStart == FlowInit => FewWindows
<1> SUFFICES ASSUME FlowInit PROVE FewWindows
  OBVIOUS
<1>1. DOMAIN wfWindows \subseteq GenerateWindows(wfPlan) /\ wfPlan.days \in Nat
  BY PlansAreValid DEF FlowInit, WalkForwardInit
<1>2. DOMAIN wfWindows \subseteq 0 .. wfPlan.days
  BY <1>1 DEF GenerateWindows
<1>3. 0 \in Int /\ wfPlan.days \in Int
  BY <1>1
<1>4. IsFiniteSet(0 .. wfPlan.days)
  BY <1>3, FS_Interval, Zenon
<1> QED
  BY <1>2, <1>4, FS_Subset DEF FewWindows

LEMMA FewStep == ASSUME FewWindows, [FlowNext]_flowVars PROVE FewWindows'
<1>1. CASE WalkForwardHandles
  BY <1>1 DEF FewWindows, WalkForwardHandles, DispatchOptimization, walkVars, NextTraining, StartValidation,
     FinishWindow, MarkedAs
<1>2. CASE WindowSteps
  BY <1>2 DEF FewWindows, WindowSteps, TakeWindow, AwaitEnds, QuitWindows, WindowExecuted, FailWindow, MarkedAs
<1>3. CASE ~WalkForwardHandles /\ ~WindowSteps
  BY <1>3 DEF FewWindows, FlowNext, EngineSteps, Score, CloseBus, ExperimentSteps, ExperimentsHandle,
     MonteCarloHandles, ResearchHandles, Cancel, ConsumerEnds, Close, flowVars, walkVars
<1> QED
  BY <1>1, <1>2, <1>3

(* A window that is validated was not before.                              *)
LEMMA WindowIsNew ==
  ASSUME WalkInv, FewWindows, WalkForwardHandles
  PROVE  LET e == Next1("walkforward")
             w == session.window
         IN IF Accepts(e) /\ e.run.phase = "validation"
            THEN /\ wfResults' = Stored(wfResults, w, Validated(e)) /\ w \notin DOMAIN wfResults
                 /\ IsFiniteSet(Worth(wfResults))
                 /\ Validated(e).validation = e.score /\ Validated(e).metrics = e.metrics
            ELSE wfResults' = wfResults
<1> DEFINE e == Next1("walkforward")
           w == session.window
<1>1. CASE ~Accepts(e)
  BY <1>1 DEF WalkForwardHandles, DispatchOptimization, walkVars
<1>2. CASE Accepts(e) /\ e.run.phase # "validation"
  BY <1>2 DEF WalkForwardHandles, DispatchOptimization, NextTraining, StartValidation, FinishWindow
<1>3. CASE Accepts(e) /\ e.run.phase = "validation"
  <2>1. FinishWindow(e)
    BY <1>3 DEF WalkForwardHandles, DispatchOptimization, NextTraining, StartValidation
  <2>2. wfResults' = Stored(wfResults, w, Validated(e))
    BY <2>1 DEF FinishWindow
  <2>3. w \notin DOMAIN wfResults
    <3>1. Busy
      BY DEF WalkForwardHandles, Busy
    <3>2. w \in DOMAIN wfWindows /\ wfWindows[w] # "COMPLETED"
      BY <3>1 DEF WalkInv, SessionSound, StatusOf
    <3> QED
      BY <3>2 DEF WalkInv, WindowsTyped
  <2>4. IsFiniteSet(Worth(wfResults))
    <3>1. Worth(wfResults) \subseteq DOMAIN wfWindows
      BY DEF WalkInv, WindowsTyped, Worth
    <3> QED
      BY <3>1, FS_Subset DEF FewWindows
  <2>5. Validated(e).validation = e.score /\ Validated(e).metrics = e.metrics
    BY DEF Validated
  <2> QED
    BY <1>3, <2>2, <2>3, <2>4, <2>5
<1> QED
  BY <1>1, <1>2, <1>3

(* While everything is in order: steps that none of it is about.           *)
LEMMA ElsewhereMoves ==
  ASSUME FlowInv, OpenSound, [FlowNext]_flowVars, Settled',
         ~Score, ~WalkForwardHandles, ~MonteCarloHandles, ~ResearchHandles
  PROVE  /\ inbox'["research"] = inbox["research"] /\ inbox'["montecarlo"] = inbox["montecarlo"]
         /\ UNCHANGED <<walkRows, wfResults, mcResults, published>>
<1>1. cancelled = {}
  BY SettledWas DEF Settled, OpenSound
<1>2. CASE ExperimentsHandle
  BY <1>2, ExperimentsMove DEF ExperimentsHandle, walkVars, researchVars, tableVars
<1>3. CASE WindowSteps
  BY <1>3 DEF WindowSteps, TakeWindow, AwaitEnds, QuitWindows, WindowExecuted, FailWindow, busVars,
     researchVars, tableVars
<1>4. CASE ~ExperimentsHandle /\ ~WindowSteps
  BY <1>1, <1>4 DEF FlowNext, EngineSteps, CloseBus, ExperimentSteps, Cancel, ConsumerEnds, Close, flowVars,
     walkVars, researchVars, tableVars, busVars
<1> QED
  BY <1>2, <1>3, <1>4

LEMMA FiledStep ==
  ASSUME FlowInv, OpenSound, TablesSound, WalkInv, FewWindows, AllFiled, [FlowNext]_flowVars
  PROVE  AllFiled'
<1> DEFINE q == inbox["research"]
<1> SUFFICES ASSUME Settled', NEW w PROVE FiledOnce(w, q', walkRows', wfResults')
  BY DEF AllFiled
<1>1. FiledOnce(w, q, walkRows, wfResults)
  BY SettledWas DEF AllFiled
<1>2. ~lost' /\ faults' = 0 /\ Listening["research"] = {"optimization", "walkforward", "montecarlo"}
  BY SettledWas
<1>3. CASE Score
  <2>1. UNCHANGED <<walkRows, wfResults>>
    BY <1>3 DEF Score, walkVars, researchVars, tableVars
  <2>2. PICK v : v.type = "optimization" /\ (q' = q \/ Adds(q', q, v))
    BY <1>2, <1>3, ScoreMoves
  <2>3. Adds(q', q, v) => FiledOnce(w, q', walkRows, wfResults)
    BY <1>1, <2>2, FiledAdded
  <2>4. FiledOnce(w, q', walkRows, wfResults)
    BY <1>1, <2>2, <2>3
  <2> QED
    BY <2>1, <2>4
<1>4. CASE WalkForwardHandles
  <2> DEFINE e == Next1("walkforward")
  <2>1. walkRows' = walkRows
    BY <1>4 DEF WalkForwardHandles, researchVars, tableVars
  <2>2. CASE ~(Accepts(e) /\ e.run.phase = "validation")
    <3>1. q' = q /\ wfResults' = wfResults
      BY <1>4, <2>2, WalkForwardMoves, WindowIsNew
    <3> QED
      BY <1>1, <2>1, <3>1
  <2>3. CASE Accepts(e) /\ e.run.phase = "validation"
    <3>1. PICK v : /\ v.type = "walkforward" /\ v.window = session.window /\ v.validation = e.score
                   /\ Adds(q', q, v)
      BY <1>2, <1>4, <2>3, WalkForwardMoves
    <3> PICK x : x = Validated(e)
      OBVIOUS
    <3>2. /\ wfResults' = Stored(wfResults, session.window, x) /\ session.window \notin DOMAIN wfResults
          /\ x.validation = e.score
      BY <1>4, <2>3, WindowIsNew
    <3>3. FiledOnce(w, q', walkRows, Stored(wfResults, v.window, x))
      BY <1>1, <3>1, <3>2, FiledNew
    <3> QED
      BY <2>1, <3>1, <3>2, <3>3
  <2> QED
    BY <2>2, <2>3
<1>5. CASE MonteCarloHandles
  <2> DEFINE e == Next1("montecarlo")
  <2>1. UNCHANGED <<walkRows, wfResults>>
    BY <1>5 DEF MonteCarloHandles, walkVars, researchVars, tableVars
  <2>2. CASE q' = q
    BY <1>1, <2>1, <2>2
  <2>3. CASE q' # q
    <3>1. PICK s, v :
            /\ v = [type |-> "montecarlo", window |-> e.window, metrics |-> e.metrics, profit |-> s.profit,
                    loss |-> s.loss, ruin |-> s.ruin, worst |-> s.worst, best |-> s.best]
            /\ Adds(q', q, v)
      BY <1>2, <1>5, <2>3, MonteCarloMoves
    <3>2. v.type # "walkforward"
      BY <3>1
    <3>3. FiledOnce(w, q', walkRows, wfResults)
      BY <1>1, <3>1, <3>2, FiledAdded
    <3> QED
      BY <2>1, <3>3
  <2> QED
    BY <2>2, <2>3
<1>6. CASE ResearchHandles
  <2> DEFINE e == Next1("research")
  <2>1. q' = Tail(q) /\ wfResults' = wfResults
    BY <1>6, ResearchMoves DEF ResearchHandles, walkVars
  <2>2. IsSequence(q) /\ q # <<>> /\ e = Head(q) /\ e.type \in {"optimization", "walkforward", "montecarlo"}
    BY <1>6, HeadIs, EngineNames DEF ResearchHandles, Waiting, Next1
  <2> PICK more : more = walkRows'
    OBVIOUS
  <2>3. \/ e.type # "walkforward" /\ more = walkRows
        \/ e.type = "walkforward" /\ more = Inserted(walkRows, <<"window", e.window>>, e.validation)
    BY <1>2, <1>6, <2>2, WindowStored, SimulationStored, ScoreStored
  <2>4. FiledOnce(w, Tail(q), more, wfResults)
    BY <1>1, <2>2, <2>3, FiledTaken DEF TablesSound
  <2> QED
    BY <2>1, <2>4
<1>7. CASE ~Score /\ ~WalkForwardHandles /\ ~MonteCarloHandles /\ ~ResearchHandles
  BY <1>1, <1>7, ElsewhereMoves
<1> QED
  BY <1>3, <1>4, <1>5, <1>6, <1>7

(* One more validated window, worth a simulation or not.                   *)
LEMMA WorthGrows ==
  ASSUME NEW done, IsFiniteSet(Worth(done)), NEW w, w \notin DOMAIN done, NEW x
  PROVE  Cardinality(Worth(Stored(done, w, x))) =
           IF ~Fails(x) THEN Cardinality(Worth(done)) + 1 ELSE Cardinality(Worth(done))
<1> DEFINE after == Stored(done, w, x)
<1>1. /\ DOMAIN after = DOMAIN done \union {w} /\ after[w] = x
      /\ \A i \in DOMAIN done : after[i] = done[i]
  BY DEF Stored
<1> HIDE DEF after
<1>2. Worth(after) = IF ~Fails(x) THEN Worth(done) \union {w} ELSE Worth(done)
  <2>1. \A i : i \in Worth(after) <=> i \in IF ~Fails(x) THEN Worth(done) \union {w} ELSE Worth(done)
    BY <1>1 DEF Worth
  <2> QED
    BY <2>1
<1>3. w \notin Worth(done)
  BY DEF Worth
<1> QED
  BY <1>2, <1>3, FS_AddElement DEF after

LEMMA LengthGrows ==
  ASSUME NEW q, IsSequence(q)
  PROVE  Len(q) \in Nat /\ Len(q \o <<>>) = Len(q) /\ \A v : Len(q \o <<v>>) = Len(q) + 1
<1>1. Len(q) \in Nat
  BY SequenceOver DEF IsSequence
<1>2. Len(q \o <<>>) = Len(q)
  BY <1>1, Joined, None
<1>3. \A v : Len(q \o <<v>>) = Len(q) + 1
  BY Joined, One
<1> QED
  BY <1>1, <1>2, <1>3

(* The validated windows that Monte Carlo can simulate have been, or are   *)
(* on their way to it.                                                     *)
LEMMA SimulatedStep ==
  ASSUME FlowInv, OpenSound, WalkInv, FewWindows, IsSequence(mcResults), [FlowNext]_flowVars, Settled',
         Len(mcResults) + Cardinality(Workable(inbox["montecarlo"])) = Cardinality(Worth(wfResults))
  PROVE  Len(mcResults') + Cardinality(Workable(inbox'["montecarlo"])) = Cardinality(Worth(wfResults'))
<1> DEFINE p == inbox["montecarlo"]
<1>1. ~lost' /\ Listening["montecarlo"] = {"walkforward"}
  BY SettledWas
<1>2. Len(mcResults) \in Nat
  BY LengthGrows
<1>3. CASE Score
  <2>1. UNCHANGED <<mcResults, wfResults>>
    BY <1>3 DEF Score, walkVars
  <2>2. p' = p
    BY <1>3, ScoreMoves
  <2> QED
    BY <2>1, <2>2
<1>4. CASE WalkForwardHandles
  <2> DEFINE e == Next1("walkforward")
  <2>1. mcResults' = mcResults
    BY <1>4 DEF WalkForwardHandles
  <2>2. CASE ~(Accepts(e) /\ e.run.phase = "validation")
    <3>1. p' = p /\ wfResults' = wfResults
      BY <1>4, <2>2, WalkForwardMoves, WindowIsNew
    <3> QED
      BY <2>1, <3>1
  <2>3. CASE Accepts(e) /\ e.run.phase = "validation"
    <3>1. PICK v : v.metrics = e.metrics /\ Adds(p', p, v)
      BY <1>1, <1>4, <2>3, WalkForwardMoves
    <3> PICK x : x = Validated(e)
      OBVIOUS
    <3> PICK w : w = session.window
      OBVIOUS
    <3>2. /\ wfResults' = Stored(wfResults, w, x) /\ w \notin DOMAIN wfResults
          /\ x.metrics = e.metrics /\ IsFiniteSet(Worth(wfResults))
      BY <1>4, <2>3, WindowIsNew
    <3>3. Fails(v) = Fails(x)
      BY <3>1, <3>2 DEF Fails
    <3>4. /\ Cardinality(Workable(p)) \in Nat
          /\ Cardinality(Workable(p')) = IF ~Fails(v) THEN Cardinality(Workable(p)) + 1 ELSE Cardinality(Workable(p))
      BY <3>1, WorkAdded
    <3>5. Cardinality(Worth(wfResults')) =
            IF ~Fails(x) THEN Cardinality(Worth(wfResults)) + 1 ELSE Cardinality(Worth(wfResults))
      BY <3>2, WorthGrows
    <3> QED
      BY <1>2, <2>1, <3>3, <3>4, <3>5
  <2> QED
    BY <2>2, <2>3
<1>5. CASE MonteCarloHandles
  <2> DEFINE e == Next1("montecarlo")
  <2>1. p' = Tail(p) /\ wfResults' = wfResults
    BY <1>5, MonteCarloMoves DEF MonteCarloHandles, walkVars
  <2>2. IsSequence(p) /\ p # <<>> /\ e = Head(p)
    BY <1>5, HeadIs, EngineNames DEF MonteCarloHandles, Waiting, Next1
  <2>3. Len(mcResults') = IF ~Fails(e) THEN Len(mcResults) + 1 ELSE Len(mcResults)
    BY <1>5, MonteCarloMoves, LengthGrows
  <2>4. /\ Cardinality(Workable(Tail(p))) \in Nat
        /\ Cardinality(Workable(p)) =
             IF ~Fails(e) THEN Cardinality(Workable(Tail(p))) + 1 ELSE Cardinality(Workable(Tail(p)))
    BY <2>2, WorkTaken
  <2> QED
    BY <1>2, <2>1, <2>3, <2>4
<1>6. CASE ResearchHandles
  BY <1>6, ResearchMoves DEF ResearchHandles, walkVars
<1>7. CASE ~Score /\ ~WalkForwardHandles /\ ~MonteCarloHandles /\ ~ResearchHandles
  BY <1>7, ElsewhereMoves
<1> QED
  BY <1>3, <1>4, <1>5, <1>6, <1>7

(* A simulation has been reported, or is on its way to be.                 *)
LEMMA ReportedStep ==
  ASSUME FlowInv, OpenSound, IsSequence(mcResults), [FlowNext]_flowVars, Settled',
         Len(published) + Cardinality(OfKind(inbox["research"], "montecarlo")) = Len(mcResults)
  PROVE  Len(published') + Cardinality(OfKind(inbox'["research"], "montecarlo")) = Len(mcResults')
<1> DEFINE q == inbox["research"]
           Count(box) == Cardinality(OfKind(box, "montecarlo"))
<1>1. ~lost' /\ faults' = 0 /\ Listening["research"] = {"optimization", "walkforward", "montecarlo"}
  BY SettledWas
<1>2. Len(mcResults) \in Nat /\ Len(published) \in Nat
  BY LengthGrows DEF FlowInv
<1>3. ASSUME NEW v, Adds(q', q, v)
      PROVE  Count(q) \in Nat /\ Count(q') = IF v.type = "montecarlo" THEN Count(q) + 1 ELSE Count(q)
  BY <1>3, KindAdded
<1>4. CASE Score
  <2>1. UNCHANGED <<mcResults, published>>
    BY <1>4 DEF Score, researchVars
  <2>2. PICK v : v.type = "optimization" /\ (q' = q \/ Adds(q', q, v))
    BY <1>1, <1>4, ScoreMoves
  <2>3. Count(q') = Count(q)
    BY <1>3, <2>2
  <2> QED
    BY <2>1, <2>3
<1>5. CASE WalkForwardHandles
  <2> DEFINE e == Next1("walkforward")
  <2>1. UNCHANGED <<mcResults, published>>
    BY <1>5 DEF WalkForwardHandles, researchVars
  <2>2. CASE ~(Accepts(e) /\ e.run.phase = "validation")
    <3>1. q' = q
      BY <1>5, <2>2, WalkForwardMoves
    <3> QED
      BY <2>1, <3>1
  <2>3. CASE Accepts(e) /\ e.run.phase = "validation"
    <3>1. PICK v : v.type = "walkforward" /\ Adds(q', q, v)
      BY <1>1, <1>5, <2>3, WalkForwardMoves
    <3>2. Count(q') = Count(q)
      BY <1>3, <3>1
    <3> QED
      BY <2>1, <3>2
  <2> QED
    BY <2>2, <2>3
<1>6. CASE MonteCarloHandles
  <2> DEFINE e == Next1("montecarlo")
  <2>1. published' = published
    BY <1>6 DEF MonteCarloHandles, researchVars
  <2>2. CASE Fails(e)
    <3>1. Len(mcResults') = Len(mcResults) /\ q' = q
      BY <1>6, <2>2, MonteCarloMoves, LengthGrows
    <3> QED
      BY <2>1, <3>1
  <2>3. CASE ~Fails(e)
    <3>1. PICK s, v :
            /\ v = [type |-> "montecarlo", window |-> e.window, metrics |-> e.metrics, profit |-> s.profit,
                    loss |-> s.loss, ruin |-> s.ruin, worst |-> s.worst, best |-> s.best]
            /\ mcResults' = mcResults \o <<v>> /\ Adds(q', q, v)
      BY <1>1, <1>6, <2>3, MonteCarloMoves
    <3>2. v.type = "montecarlo"
      BY <3>1
    <3>3. Count(q) \in Nat /\ Count(q') = Count(q) + 1
      BY <1>3, <3>1, <3>2
    <3>4. Len(mcResults') = Len(mcResults) + 1
      BY <3>1, LengthGrows
    <3> QED
      BY <1>2, <2>1, <3>3, <3>4
  <2> QED
    BY <2>2, <2>3
<1>7. CASE ResearchHandles
  <2> DEFINE e == Next1("research")
  <2>1. q' = Tail(q) /\ mcResults' = mcResults
    BY <1>7, ResearchMoves DEF ResearchHandles
  <2>2. IsSequence(q) /\ q # <<>> /\ e = Head(q) /\ e.type \in {"optimization", "walkforward", "montecarlo"}
    BY <1>7, HeadIs, EngineNames DEF ResearchHandles, Waiting, Next1
  <2>3. /\ Count(Tail(q)) \in Nat
        /\ Count(q) = IF e.type = "montecarlo" THEN Count(Tail(q)) + 1 ELSE Count(Tail(q))
    BY <2>2, KindTaken
  <2>4. CASE e.type = "montecarlo"
    <3>1. PICK v : published' = published \o <<v>>
      BY <1>1, <1>7, <2>4, SimulationStored
    <3>2. Len(published') = Len(published) + 1
      BY <3>1, LengthGrows DEF FlowInv
    <3> QED
      BY <1>2, <2>1, <2>3, <2>4, <3>2
  <2>5. CASE e.type # "montecarlo"
    <3>1. published' = published
      BY <1>1, <1>7, <2>2, <2>5, WindowStored, ScoreStored
    <3> QED
      BY <1>2, <2>1, <2>3, <2>5, <3>1
  <2> QED
    BY <2>4, <2>5
<1>8. CASE ~Score /\ ~WalkForwardHandles /\ ~MonteCarloHandles /\ ~ResearchHandles
  BY <1>8, ElsewhereMoves
<1> QED
  BY <1>4, <1>5, <1>6, <1>7, <1>8

LEMMA ToldStep ==
  ASSUME FlowInv, OpenSound, WalkInv, FewWindows, IsSequence(mcResults), AllTold, [FlowNext]_flowVars
  PROVE  AllTold'
BY SettledWas, SimulatedStep, ReportedStep DEF AllTold, Tally

-----------------------------------------------------------------------------
StoringInv ==
  /\ TablesSound /\ OpenSound /\ FewWindows /\ IsSequence(mcResults)
  /\ InTime /\ ReportIsComplete /\ AllFiled /\ AllTold

LEMMA StoringStart == FlowInit => StoringInv
<1> SUFFICES ASSUME FlowInit PROVE StoringInv
  OBVIOUS
<1>1. /\ walkRows = <<>> /\ reportRows = <<>> /\ optimizationRows = <<>> /\ simulationRows = <<>>
      /\ experimentRows = <<>> /\ published = <<>> /\ mcResults = <<>> /\ wfResults = <<>>
      /\ faults = 0 /\ cancelled = {}
  BY DEF FlowInit, ResearchInit, MonteCarloInit, WalkForwardInit
<1>2. "research" \in Engines /\ "montecarlo" \in Engines
  BY EngineNames
<1>3. inbox["research"] = <<>> /\ inbox["montecarlo"] = <<>>
  BY <1>2 DEF FlowInit
<1>4. TablesSound /\ OpenSound /\ FewWindows /\ IsSequence(mcResults)
  BY <1>1, None, FewStart DEF TablesSound, Rowed, PublishedIsStored, RowsHaveExperiment, OpenSound
<1>5. InTime /\ ReportIsComplete
  BY <1>1, <1>3, None DEF InTime, SimulatedLater, OfKind, Announced, ReportIsComplete
<1>6. AllFiled
  <2>1. \A w : NoRow(walkRows, w) /\ News(<<>>, w) = {}
    BY <1>1, None DEF NoRow, RowsOf, News
  <2> QED
    BY <1>1, <1>3, <2>1, None DEF AllFiled, FiledOnce
<1>7. AllTold
  <2>1. OfKind(<<>>, "montecarlo") = {} /\ Workable(<<>>) = {} /\ Worth(<<>>) = {}
    BY None DEF OfKind, Workable, Worth
  <2>2. Tally(<<>>, <<>>, <<>>, <<>>, <<>>)
    <3>1. Cardinality({}) = 0
      BY FS_EmptySet, Zenon
    <3>2. /\ Cardinality(OfKind(<<>>, "montecarlo")) = 0 /\ Cardinality(Workable(<<>>)) = 0
          /\ Cardinality(Worth(<<>>)) = 0
      BY <2>1, <3>1, Zenon
    <3> QED
      BY <3>2, None DEF Tally
  <2> QED
    BY <1>1, <1>3, <2>2, Zenon DEF AllTold
<1> QED
  BY <1>4, <1>5, <1>6, <1>7 DEF StoringInv

LEMMA TablesStep ==
  ASSUME FlowInv, TablesSound, [FlowNext]_flowVars
  PROVE  TablesSound'
<1>1. CASE ResearchHandles
  BY <1>1, StoreKeeps
<1>2. CASE ~ResearchHandles
  <2>1. UNCHANGED researchVars
    BY <1>2 DEF FlowNext, EngineSteps, Score, CloseBus, ExperimentSteps, WindowSteps, ExperimentsHandle,
       WalkForwardHandles, MonteCarloHandles, Cancel, ConsumerEnds, Close, flowVars
  <2> QED
    BY <2>1 DEF researchVars, tableVars, TablesSound, Rowed, PublishedIsStored, RowsHaveExperiment, RowsOf
<1> QED
  BY <1>1, <1>2

LEMMA SimulationsStep ==
  ASSUME FlowInv, IsSequence(mcResults), [FlowNext]_flowVars
  PROVE  IsSequence(mcResults')
<1>1. CASE MonteCarloHandles
  <2>1. mcResults' = mcResults \o <<>> \/ \E v : mcResults' = mcResults \o <<v>>
    BY <1>1, MonteCarloMoves
  <2>2. PICK w : mcResults' = mcResults \o w /\ IsSequence(w)
    BY <2>1, None, One
  <2>3. IsSequence(mcResults \o w)
    BY <2>2, Joined
  <2> QED
    BY <2>2, <2>3
<1>2. CASE ~MonteCarloHandles
  BY <1>2 DEF FlowNext, EngineSteps, Score, CloseBus, ExperimentSteps, WindowSteps, ExperimentsHandle,
     WalkForwardHandles, ResearchHandles, Cancel, ConsumerEnds, Close, flowVars
<1> QED
  BY <1>1, <1>2

LEMMA StoringStep ==
  ASSUME ResearchInv, StoringInv, [FlowNext]_flowVars
  PROVE  StoringInv'
<1>1. FlowInv /\ WalkInv
  BY DEF ResearchInv
<1>2. TablesSound' /\ OpenSound' /\ FewWindows' /\ IsSequence(mcResults')
  BY <1>1, TablesStep, OpenStep, FewStep, SimulationsStep DEF StoringInv
<1>3. InTime' /\ ReportIsComplete'
  BY <1>1, InTimeStep, CompleteStep DEF StoringInv
<1>4. AllFiled' /\ AllTold'
  BY <1>1, FiledStep, ToldStep DEF StoringInv
<1> QED
  BY <1>2, <1>3, <1>4 DEF StoringInv

(* Where nothing is under way, what is known is stored.                    *)
LEMMA StoringThen == FlowInv /\ StoringInv => ResearchStored
<1> SUFFICES ASSUME FlowInv, StoringInv, Quiet, faults = 0,
                    enabled = {"walkforward", "montecarlo", "research"}, ~busClosed
             PROVE  /\ \A i \in DOMAIN wfResults : RowsOf(walkRows, <<"window", i>>) = <<wfResults[i].validation>>
                    /\ Len(published) = Len(mcResults)
                    /\ Len(mcResults) = Cardinality({i \in DOMAIN wfResults : ~Fails(wfResults[i])})
  BY DEF ResearchStored
<1>1. Settled
  BY DEF Settled, Undisturbed, Quiet
<1>2. inbox["research"] = <<>> /\ inbox["montecarlo"] = <<>>
  BY EngineNames DEF Quiet
<1>3. OfKind(<<>>, "montecarlo") = {} /\ Workable(<<>>) = {} /\ \A w, x : ~Expected(<<>>, w, x)
  BY None DEF OfKind, Workable, Expected
<1>4. \A i \in DOMAIN wfResults : Sole(walkRows, i, wfResults[i].validation)
  BY <1>1, <1>2, <1>3 DEF StoringInv, AllFiled, FiledOnce
<1>5. /\ Len(published) + 0 = Len(mcResults) /\ Len(mcResults) + 0 = Cardinality(Worth(wfResults))
      /\ Len(published) \in Nat /\ Len(mcResults) \in Nat
  BY <1>1, <1>2, <1>3, FS_EmptySet, LengthGrows DEF StoringInv, AllTold, Tally, FlowInv
<1> QED
  BY <1>4, <1>5 DEF Sole, Worth

-----------------------------------------------------------------------------
(* What the engines are sent of a run has the totals that were reported of *)
(* it, and so every simulation is made from such totals.                   *)
HasTotals(q) == \A n \in DOMAIN q : q[n].metrics \in Metrics
TotalsSound == HasTotals(inbox["walkforward"]) /\ HasTotals(inbox["montecarlo"])

Tells(r) ==
  /\ r.profit + r.loss <= Simulations
  /\ Simulations > 1 => r.worst <= r.metrics.net /\ r.metrics.net <= r.best
  /\ r.metrics.net > 0 => r.profit = Simulations /\ r.loss = 0 /\ r.ruin = 0
ResultsTell == \A n \in DOMAIN mcResults : Tells(mcResults[n])

LEMMA TotalsArrive ==
  ASSUME BoxesSound, NEW out, NEW type, OfType(out, type), NEW from, Takes(from), Publish(out, from),
         NEW e \in Engines, HasTotals(inbox[e]), type \in Listening[e] => HasTotals(out)
  PROVE  HasTotals(inbox'[e])
<1> DEFINE q == Queue(e, from)
           w == Wanted(out, Listening[e])
<1>1. /\ IsSequence(q) /\ Len(q) <= Buffer
      /\ \A n \in DOMAIN q : \E m \in DOMAIN inbox[e] : q[n] = inbox[e][m]
  BY QueueIs
<1>2. HasTotals(q)
  <2> HIDE DEF q
  <2> QED
    BY <1>1 DEF HasTotals
<1>3. IsSequence(w) /\ inbox'[e] = Offer(q, w) /\ w = IF type \in Listening[e] THEN out ELSE <<>>
  BY Publishes
<1> HIDE DEF q, w
<1>4. HasTotals(w)
  BY <1>3, None DEF HasTotals
<1>5. \A n \in DOMAIN Offer(q, w) :
        \/ n \in DOMAIN q /\ Offer(q, w)[n] = q[n]
        \/ n - Len(q) \in DOMAIN w /\ Offer(q, w)[n] = w[n - Len(q)]
  BY <1>1, <1>3, Offered
<1> PICK o : o = Offer(q, w)
  OBVIOUS
<1>6. HasTotals(o)
  BY <1>2, <1>4, <1>5 DEF HasTotals
<1> QED
  BY <1>3, <1>6

(* Scores that are sent from outside, and what the others publish, which   *)
(* the walk-forward engine does not listen to.                             *)
LEMMA ScoreTotals ==
  ASSUME FlowInv, enabled \in Configurations, TotalsSound, Score
  PROVE  TotalsSound'
<1>1. PICK run \in Started, s \in Scored[enabled] :
        Publish(<< [type |-> "optimization", run |-> run, strategy |-> "trend_following",
                    score |-> s.score, metrics |-> s.metrics] >>, "")
  BY DEF Score
<1> DEFINE v == [type |-> "optimization", run |-> run, strategy |-> "trend_following",
                 score |-> s.score, metrics |-> s.metrics]
<1>2. v.type = "optimization" /\ v.metrics \in Metrics
  BY ScoresHaveTotals
<1>3. Publish(<<v>>, "")
  BY <1>1, Zenon
<1> HIDE DEF v
<1>4. OfType(<<v>>, "optimization") /\ HasTotals(<<v>>)
  BY <1>2, One, OneOfType DEF HasTotals
<1>5. Takes("")
  BY EngineNames, Zenon DEF Takes
<1>6. \A e \in {"walkforward", "montecarlo"} : e \in Engines /\ HasTotals(inbox[e])
  BY EngineNames DEF TotalsSound
<1>7. \A e \in {"walkforward", "montecarlo"} : HasTotals(inbox'[e])
  <2> DEFINE out == <<v>>
             nobody == ""
  <2>1. OfType(out, "optimization") /\ HasTotals(out) /\ Takes(nobody) /\ Publish(out, nobody) /\ BoxesSound
    BY <1>3, <1>4, <1>5, Zenon DEF FlowInv
  <2> HIDE DEF out, nobody
  <2> QED
    BY <1>6, <2>1, TotalsArrive
<1> QED
  BY <1>7 DEF TotalsSound

LEMMA OtherTotals ==
  ASSUME FlowInv, TotalsSound, NEW from, PublishesOther(from)
  PROVE  HasTotals(inbox'["walkforward"])
<1>1. PICK out, type : OfType(out, type) /\ type # "optimization" /\ Publish(out, from)
  BY DEF PublishesOther
<1>2. "walkforward" \in Engines /\ type \notin Listening["walkforward"]
  BY <1>1, EngineNames, ListensTo
<1>3. Takes(from) /\ BoxesSound /\ HasTotals(inbox["walkforward"])
  BY DEF PublishesOther, FlowInv, TotalsSound
<1> QED
  BY <1>1, <1>2, <1>3, TotalsArrive

LEMMA WindowTotals ==
  ASSUME FlowInv, TotalsSound, WalkForwardHandles
  PROVE  HasTotals(inbox'["montecarlo"])
<1> DEFINE e == Next1("walkforward")
           x == Validated(e)
           v == [type |-> "walkforward", window |-> x.window, best |-> x.best, training |-> x.training,
                 validation |-> x.validation, metrics |-> x.metrics]
           out == IF Accepts(e) /\ e.run.phase = "validation" THEN <<v>> ELSE <<>>
<1>1. Publish(out, "walkforward") /\ Takes("walkforward") /\ BoxesSound
  BY DEF WalkForwardHandles, Takes, Waiting, WalkForwardUpdates, FlowInv
<1>2. v.type = "walkforward" /\ v.metrics = e.metrics
  BY DEF Validated
<1>3. e.metrics \in Metrics
  BY HeadIs, EngineNames DEF WalkForwardHandles, Waiting, TotalsSound, HasTotals
<1> HIDE DEF v, x, e
<1>4. OfType(out, "walkforward") /\ HasTotals(out)
  BY <1>2, <1>3, One, None, OneOfType, NothingOfType DEF HasTotals
<1> HIDE DEF out
<1>5. "montecarlo" \in Engines /\ HasTotals(inbox["montecarlo"])
  BY EngineNames DEF TotalsSound
<1> QED
  BY <1>1, <1>4, <1>5, TotalsArrive

LEMMA TotalsStep ==
  ASSUME FlowInv, enabled \in Configurations, TotalsSound, [FlowNext]_flowVars
  PROVE  TotalsSound'
<1>1. CASE Score
  BY <1>1, ScoreTotals
<1>2. CASE ExperimentsHandle \/ WalkForwardHandles \/ MonteCarloHandles \/ ResearchHandles
  <2>1. HasTotals(inbox'["walkforward"])
    BY <1>2, OtherTotals, ExperimentsHandleOther, WalkForwardHandlesOther, MonteCarloHandlesOther, ResearchHandlesOther
  <2>2. CASE WalkForwardHandles
    BY <2>1, <2>2, WindowTotals DEF TotalsSound
  <2>3. CASE MonteCarloHandles
    <3>1. inbox'["montecarlo"] = Tail(inbox["montecarlo"])
      BY <2>3, MonteCarloMoves
    <3>2. IsSequence(inbox["montecarlo"]) /\ inbox["montecarlo"] # <<>>
      BY <2>3, HeadIs, EngineNames DEF MonteCarloHandles, Waiting
    <3>3. HasTotals(Tail(inbox["montecarlo"]))
      BY <3>2, Tailed DEF TotalsSound, HasTotals
    <3> QED
      BY <2>1, <3>1, <3>3 DEF TotalsSound
  <2>4. CASE ExperimentsHandle \/ ResearchHandles
    BY <2>1, <2>4, ExperimentsMove, ResearchMoves DEF TotalsSound
  <2> QED
    BY <1>2, <2>2, <2>3, <2>4
<1>3. CASE \E e \in Engines : Close(e)
  <2>1. PICK e \in Engines : inbox' = [inbox EXCEPT ![e] = <<>>]
    BY <1>3 DEF Close
  <2>2. \A d \in {"walkforward", "montecarlo"} : inbox'[d] = inbox[d] \/ inbox'[d] = <<>>
    BY <2>1, EngineNames DEF FlowInv, BoxesSound
  <2>3. HasTotals(<<>>)
    BY None DEF HasTotals
  <2> QED
    BY <2>2, <2>3 DEF TotalsSound
<1>4. CASE ExperimentSteps \/ WindowSteps \/ CloseBus \/ Cancel \/ (\E e \in Engines : ConsumerEnds(e))
            \/ UNCHANGED flowVars
  <2>1. inbox' = inbox
    BY <1>4 DEF ExperimentSteps, WindowSteps, CloseBus, Cancel, ConsumerEnds, flowVars, busVars
  <2> QED
    BY <2>1 DEF TotalsSound
<1> QED
  BY <1>1, <1>2, <1>3, <1>4 DEF FlowNext, EngineSteps

LEMMA ResultsStep ==
  ASSUME FlowInv, TotalsSound, IsSequence(mcResults), ResultsTell, [FlowNext]_flowVars
  PROVE  ResultsTell'
<1>1. CASE MonteCarloHandles
  <2> DEFINE e == Next1("montecarlo")
  <2>1. e.metrics \in Metrics
    BY <1>1, HeadIs, EngineNames DEF MonteCarloHandles, Waiting, TotalsSound, HasTotals
  <2>2. CASE Fails(e)
    <3>1. mcResults' = mcResults \o <<>>
      BY <1>1, <2>2, MonteCarloMoves
    <3>2. mcResults \o <<>> = mcResults
      BY DEF IsSequence
    <3> QED
      BY <3>1, <3>2 DEF ResultsTell
  <2>3. CASE ~Fails(e)
    <3>1. PICK s, v :
            /\ s \in Simulated[e.metrics]
            /\ v = [type |-> "montecarlo", window |-> e.window, metrics |-> e.metrics, profit |-> s.profit,
                    loss |-> s.loss, ruin |-> s.ruin, worst |-> s.worst, best |-> s.best]
            /\ mcResults' = mcResults \o <<v>>
      BY <1>1, <2>3, MonteCarloMoves
    <3>2. /\ v.metrics = e.metrics /\ v.profit = s.profit /\ v.loss = s.loss /\ v.ruin = s.ruin
          /\ v.worst = s.worst /\ v.best = s.best
      BY <3>1
    <3> PICK m : m = e.metrics
      OBVIOUS
    <3>3. m \in Metrics /\ ExtractTradeReturns(m) # <<>> /\ s \in Simulated[m]
      BY <2>1, <2>3, <3>1 DEF Fails
    <3>4. Tells(v)
      BY <3>2, <3>3, SimulationTells DEF Tells
    <3> DEFINE more == mcResults \o <<v>>
    <3>5. \A n \in DOMAIN more : (n \in DOMAIN mcResults /\ more[n] = mcResults[n]) \/ more[n] = v
      <4>1. /\ Len(mcResults) \in Nat /\ DOMAIN mcResults = 1 .. Len(mcResults)
            /\ DOMAIN more = 1 .. Len(mcResults) + 1 /\ more[Len(mcResults) + 1] = v
            /\ \A n \in DOMAIN mcResults : more[n] = mcResults[n]
        BY JoinedOne
      <4> HIDE DEF more
      <4> QED
        BY <4>1
    <3> HIDE DEF more
    <3>6. \A n \in DOMAIN more : Tells(more[n])
      BY <3>4, <3>5 DEF ResultsTell
    <3> QED
      BY <3>1, <3>6 DEF ResultsTell, more
  <2> QED
    BY <2>2, <2>3
<1>2. CASE ~MonteCarloHandles
  <2>1. mcResults' = mcResults
    BY <1>2 DEF FlowNext, EngineSteps, Score, CloseBus, ExperimentSteps, WindowSteps, ExperimentsHandle,
       WalkForwardHandles, ResearchHandles, Cancel, ConsumerEnds, Close, flowVars
  <2> QED
    BY <2>1 DEF ResultsTell
<1> QED
  BY <1>1, <1>2

LEMMA SimulatingStart == FlowInit => TotalsSound /\ ResultsTell
<1> SUFFICES ASSUME FlowInit PROVE TotalsSound /\ ResultsTell
  OBVIOUS
<1>1. mcResults = <<>> /\ inbox["walkforward"] = <<>> /\ inbox["montecarlo"] = <<>>
  BY EngineNames DEF FlowInit, MonteCarloInit
<1> QED
  BY <1>1, None DEF TotalsSound, HasTotals, ResultsTell

ReportsInv == ResearchInv /\ StoringInv /\ TotalsSound /\ ResultsTell

LEMMA ReportsHold == FlowSpec => []ReportsInv
<1>1. ResearchInv /\ FlowInit => ReportsInv
  BY StoringStart, SimulatingStart DEF ReportsInv
<1>2. ReportsInv /\ ResearchInv' /\ [FlowNext]_flowVars => ReportsInv'
  <2> SUFFICES ASSUME ReportsInv, ResearchInv', [FlowNext]_flowVars PROVE ReportsInv'
    OBVIOUS
  <2>1. FlowInv /\ enabled \in Configurations /\ IsSequence(mcResults)
    BY DEF ReportsInv, ResearchInv, StoringInv
  <2>2. StoringInv' /\ TotalsSound' /\ ResultsTell'
    BY <2>1, StoringStep, TotalsStep, ResultsStep DEF ReportsInv
  <2> QED
    BY <2>2 DEF ReportsInv
<1> QED
  BY <1>1, <1>2, ResearchHolds, PTL DEF FlowSpec

(* What is published of an experiment is stored, complete, and true of the *)
(* window it came from, whatever call fails and whenever the engines are   *)
(* closed. The net profit lies between the worst and the best path if one  *)
(* of them is shuffled: Config.Validate admits a single path, and that one *)
(* is resampled.                                                           *)
THEOREM ReportsAlwaysTell == ASSUME Simulations > 1 PROVE FlowSpec => []ReportsTell
<1>1. ReportsInv => ReportsTell
  <2> SUFFICES ASSUME ReportsInv PROVE ReportsTell
    OBVIOUS
  <2>1. ReconcilesToNet /\ ProfitIsCertain
    BY DEF ReportsInv, ResultsTell, Tells, ReconcilesToNet, ProfitIsCertain
  <2>2. PublishedIsStored /\ RowsHaveExperiment /\ ReportIsComplete
    BY DEF ReportsInv, StoringInv, TablesSound
  <2>3. ResearchStored
    BY StoringThen DEF ReportsInv, ResearchInv
  <2> QED
    BY <2>1, <2>2, <2>3 DEF ReportsTell
<1> QED
  BY <1>1, ReportsHold, PTL
==============================================================================
