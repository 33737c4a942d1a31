---------------------------- MODULE Experiments -----------------------------
(***************************************************************************)
(* The engines that run experiments: the experiment engine, and the walk-  *)
(* forward engine, which runs the matrix of experiments once per window.   *)
(***************************************************************************)
EXTENDS Integers, Sequences, FiniteSets, SequencesExt

(***************************************************************************)
(* The experiment engine: a matrix of parameters is turned into runs, a    *)
(* goroutine feeds them to a bounded queue, workers execute them under a   *)
(* semaphore, and the optimization updates that name a run complete and    *)
(* rank it. What executing a run does is in Backtest; here it ends, with   *)
(* or without an error.                                                    *)
(***************************************************************************)
CONSTANTS
  Dimensions,        \* Config.ParameterRanges: dimension -> its values
  RunSymbols,        \* Config.Symbols
  RunTimeframes,     \* Config.Timeframes
  Workers,           \* the goroutines of Scheduler.Start, ParallelWorkers of them
  MaxConcurrentRuns

VARIABLES
  expRuns,      \* Cache.runs: run -> status
  pending,      \* Cache.pending
  results,      \* Cache.completed: run -> score
  rankings,     \* Cache.rankings, the best first
  toQueue,      \* what the goroutine of Scheduler.Enqueue has yet to send
  runQueue,     \* Scheduler.queue
  running,      \* Scheduler.running
  slots,        \* how many have sent to Scheduler.semaphore
  workers       \* worker -> where it is, and its run

cacheVars == <<expRuns, pending, results, rankings>>
schedulerVars == <<toQueue, runQueue, running, slots, workers>>
experimentVars == <<cacheVars, schedulerVars>>

(* The cartesian product of the dimensions that have values.               *)
GenerateMatrix ==
  LET active == {d \in DOMAIN Dimensions : Dimensions[d] # {}}
      combos == {f \in [active -> UNION {Dimensions[d] : d \in active}] :
                   \A d \in active : f[d] \in Dimensions[d]}
  IN [symbol : RunSymbols, timeframe : RunTimeframes, parameters : combos]

(* The matrix is a list, made once; the workers are a number of goroutines *)
(* and at least one run may execute.                                       *)
ASSUME ExperimentConfig ==
  IsFiniteSet(GenerateMatrix) /\ IsFiniteSet(Workers) /\ MaxConcurrentRuns \in Nat \ {0}

(* Runs have identifiers of their own, which no other run of any engine    *)
(* has: here the phase, the window and a number.                           *)
RunId(phase, window, n) == [phase |-> phase, window |-> window, n |-> n]
RunsOf(phase, window) == [n \in 1 .. Cardinality(GenerateMatrix) |-> RunId(phase, window, n)]
Idle == [at |-> "idle", run |-> RunId("", 0, 0), failed |-> FALSE]

(* Engine.Start of an engine that is enabled: the runs are registered and  *)
(* the workers start.                                                      *)
ExperimentsInit(enabled) ==
  LET runs == IF enabled THEN RunsOf("experiment", 0) ELSE <<>>
  IN /\ expRuns = [r \in ToSet(runs) |-> "QUEUED"]
     /\ toQueue = runs
     /\ pending = {} /\ results = <<>> /\ rankings = <<>>
     /\ runQueue = <<>> /\ running = {} /\ slots = 0
     /\ workers = [w \in Workers |-> IF enabled THEN Idle ELSE [Idle EXCEPT !.at = "gone"]]

Enqueue ==
  /\ toQueue # <<>> /\ Len(runQueue) < 4 * Cardinality(Workers)
  /\ runQueue' = Append(runQueue, Head(toQueue)) /\ toQueue' = Tail(toQueue)
  /\ UNCHANGED <<cacheVars, running, slots, workers>>

(* A worker takes a run. One that runs already is skipped.                 *)
Take(w) ==
  /\ workers[w].at = "idle" /\ runQueue # <<>>
  /\ runQueue' = Tail(runQueue)
  /\ LET run == Head(runQueue)
     IN IF run \in running THEN UNCHANGED <<running, workers>>
        ELSE /\ running' = running \union {run}
             /\ workers' = [workers EXCEPT ![w] = [@ EXCEPT !.at = "taken", !.run = run]]
  /\ UNCHANGED <<cacheVars, toQueue, slots>>

SlotAlways == TRUE
SlotFree == slots < MaxConcurrentRuns

(* It waits for the semaphore, and MarkRunning. Then the runner executes.  *)
Acquire(w) ==
  /\ workers[w].at = "taken" /\ SlotFree
  /\ slots' = slots + 1
  /\ expRuns' = [expRuns EXCEPT ![workers[w].run] = "RUNNING"]
  /\ pending' = pending \union {workers[w].run}
  /\ workers' = [workers EXCEPT ![w].at = "executing"]
  /\ UNCHANGED <<results, rankings, toQueue, runQueue, running>>

GiveUp(w, stopped) ==
  /\ workers[w].at = "taken" /\ stopped
  /\ running' = running \ {workers[w].run}
  /\ workers' = [workers EXCEPT ![w] = [Idle EXCEPT !.at = "gone"]]
  /\ UNCHANGED <<cacheVars, toQueue, runQueue, slots>>

(* Execute returns: the slot and the run are released, and then the engine *)
(* is told whether it failed.                                              *)
Executed(w, failed) ==
  /\ workers[w].at = "executing"
  /\ slots' = slots - 1
  /\ running' = running \ {workers[w].run}
  /\ workers' = [workers EXCEPT ![w] = [@ EXCEPT !.at = "executed", !.failed = failed]]
  /\ UNCHANGED <<cacheVars, toQueue, runQueue>>

OnRunComplete(w) ==
  /\ workers[w].at = "executed"
  /\ workers' = [workers EXCEPT ![w] = Idle]
  /\ IF workers[w].failed
     THEN /\ expRuns' = [expRuns EXCEPT ![workers[w].run] = "FAILED"]
          /\ pending' = pending \ {workers[w].run}
     ELSE UNCHANGED <<expRuns, pending>>
  /\ UNCHANGED <<results, rankings, toQueue, runQueue, running, slots>>

Quit(w, stopped) ==
  /\ workers[w].at = "idle" /\ stopped
  /\ workers' = [workers EXCEPT ![w].at = "gone"]
  /\ UNCHANGED <<cacheVars, toQueue, runQueue, running, slots>>

WorkerSteps(w, stopped) ==
  Take(w) \/ Acquire(w) \/ GiveUp(w, stopped) \/ OnRunComplete(w) \/ Quit(w, stopped)

(* A map with one more entry, or another value of one.                     *)
Stored(map, key, value) ==
  [k \in DOMAIN map \union {key} |-> IF k = key THEN value ELSE map[k]]

(* Identifiers are random: which of two is first is any order, the same    *)
(* one every time.                                                         *)
Better(scores, r, s) == scores[r] > scores[s] \/ (scores[r] = scores[s] /\ r.n < s.n)
Ranked(scores) ==
  CHOOSE q \in [1 .. Cardinality(DOMAIN scores) -> DOMAIN scores] :
    \A m, n \in DOMAIN q : m < n => Better(scores, q[m], q[n])

StillPending(run) == pending
NoLongerPending(run) == pending \ {run}

(* The first update of a pending run is its result. What is published has  *)
(* the rank it has then.                                                   *)
Completes(e) == e.run \in pending
HandleOptimization(e) ==
  IF Completes(e)
  THEN /\ expRuns' = [expRuns EXCEPT ![e.run] = "COMPLETED"]
       /\ pending' = NoLongerPending(e.run)
       /\ results' = Stored(results, e.run, e.score)
       /\ rankings' = Ranked(Stored(results, e.run, e.score))
  ELSE UNCHANGED cacheVars
ExperimentUpdates(e) ==
  IF ~Completes(e) THEN <<>>
  ELSE LET scores == Stored(results, e.run, e.score)
           ranked == Ranked(scores)
       IN << [type |-> "experiment", run |-> e.run, score |-> e.score,
              rank |-> CHOOSE n \in DOMAIN ranked : ranked[n] = e.run] >>

-----------------------------------------------------------------------------
ExperimentsTypeOK ==
  /\ \A r \in DOMAIN expRuns : expRuns[r] \in {"QUEUED", "RUNNING", "COMPLETED", "FAILED"}
  /\ \A w \in Workers : workers[w].at \in {"idle", "taken", "executing", "executed", "gone"}
  /\ Len(runQueue) <= 4 * Cardinality(Workers)

(* No more runs execute at once than are allowed, each by one worker.      *)
ConcurrencyLimit ==
  LET executing == {w \in Workers : workers[w].at = "executing"}
  IN /\ Cardinality(executing) <= MaxConcurrentRuns
     /\ \A v, w \in executing : workers[v].run = workers[w].run => v = w

(* Every run is somewhere, once: to be queued, queued, with a worker, or   *)
(* done with.                                                              *)
RunsAccounted ==
  LET waiting == toQueue \o runQueue
  IN /\ \A m, n \in DOMAIN waiting : m < n => waiting[m] # waiting[n]
     /\ \A r \in ToSet(waiting) : expRuns[r] = "QUEUED" /\ r \notin running
     /\ running = {workers[w].run : w \in {v \in Workers : workers[v].at \in {"taken", "executing"}}}

(* The ranking has every result, once, the best first.                     *)
RankingTells ==
  /\ ToSet(rankings) = DOMAIN results /\ Len(rankings) = Cardinality(DOMAIN results)
  /\ \A m, n \in DOMAIN rankings : m < n => results[rankings[m]] >= results[rankings[n]]

(* A run that failed is not ranked.                                        *)
FailedIsUnranked == \A n \in DOMAIN rankings : expRuns[rankings[n]] # "FAILED"

-----------------------------------------------------------------------------
(***************************************************************************)
(* The walk-forward engine: one worker that for each window in turn runs   *)
(* the matrix of experiments over its training period, awaits the score of *)
(* each, and runs the best parameters over its validation period. It reads *)
(* its subscription only while it awaits a score.                          *)
(***************************************************************************)
VARIABLES
  wfPlan,       \* Config: the days of data, training, validation and step
  wfWindows,    \* Cache.windows: index -> status
  wfQueue,      \* the windows Scheduler.Enqueue has yet to hand over
  session,      \* the worker: where it is, the run it executes or awaits, and what it collected
  wfResults     \* Cache.completed: index -> WindowResult

walkVars == <<wfPlan, wfWindows, wfQueue, session, wfResults>>

(* GenerateWindows, of days: training and validation that follows it,      *)
(* moved by the step while the validation ends within the data.            *)
Window(plan, i) == [trainStart |-> i * plan.step, trainEnd |-> i * plan.step + plan.train,
                    validationEnd |-> i * plan.step + plan.train + plan.validate]
Fits(plan, i) == Window(plan, i).validationEnd <= plan.days
GenerateWindows(plan) == {i \in 0 .. plan.days : Fits(plan, i)}

NoSession == [at |-> "idle", window |-> 0, run |-> RunId("", 0, 0), collected |-> <<>>]
InOrder(indexes) == [n \in 1 .. Cardinality(indexes) |-> n - 1]

(* Engine.Start, with data for one window at least.                        *)
WalkForwardInit(enabled, plans) ==
  /\ wfPlan \in plans
  /\ LET windows == IF enabled THEN GenerateWindows(wfPlan) ELSE {}
     IN /\ wfWindows = [i \in windows |-> "QUEUED"]
        /\ wfQueue = InOrder(windows)
  /\ session = IF enabled THEN NoSession ELSE [NoSession EXCEPT !.at = "gone"]
  /\ wfResults = <<>>

MarkedAs(status) == wfWindows' = [wfWindows EXCEPT ![session.window] = status]

TakeWindow ==
  /\ session.at = "idle" /\ wfQueue # <<>>
  /\ wfQueue' = Tail(wfQueue)
  /\ session' = [NoSession EXCEPT !.at = "executing", !.window = Head(wfQueue),
                                  !.run = RunId("training", Head(wfQueue), 1)]
  /\ wfWindows' = [wfWindows EXCEPT ![Head(wfQueue)] = "TRAINING"]
  /\ UNCHANGED <<wfPlan, wfResults>>

QuitWindows(stopped) ==
  /\ session.at = "idle" /\ stopped
  /\ session' = [session EXCEPT !.at = "gone"]
  /\ UNCHANGED <<wfPlan, wfWindows, wfQueue, wfResults>>

(* Execute returns, or awaiting the score ends without one: the context is *)
(* cancelled, or two minutes are over.                                     *)
FailWindow ==
  /\ MarkedAs("FAILED")
  /\ session' = NoSession
  /\ UNCHANGED <<wfPlan, wfQueue, wfResults>>
WindowExecuted(failed) ==
  /\ session.at = "executing"
  /\ IF failed THEN FailWindow
     ELSE session' = [session EXCEPT !.at = "awaiting"] /\ UNCHANGED <<wfPlan, wfWindows, wfQueue, wfResults>>
AwaitForever ==
  /\ session.at = "waits" /\ FailWindow

AwaitEnds ==
  /\ session.at = "awaiting"
  /\ FailWindow

(* SelectBest of what was collected. Of equal scores the smaller of two    *)
(* random identifiers.                                                     *)
SelectFirst(collected) == {Head(collected)}
SelectBest(collected) ==
  {c \in ToSet(collected) : \A d \in ToSet(collected) : c.score >= d.score}

(* windowSession.handle: an update counts for the phase and the window its *)
(* metadata name, the first of a run that is awaited.                      *)
Accepts(e) == e.run = session.run
Collected(e) == Append(session.collected, [n |-> e.run.n, score |-> e.score])

Validated(e) ==
  LET best == CHOOSE c \in ToSet(session.collected) : c.n = e.run.n
  IN [window |-> session.window, best |-> e.run.n, training |-> best.score,
      validation |-> e.score, metrics |-> e.metrics]

(* What the worker does with an update it awaited: the next training run,  *)
(* the validation of the best, or the result of the window.                *)
NextTraining(e) ==
  /\ e.run.phase = "training" /\ e.run.n < Cardinality(GenerateMatrix)
  /\ session' = [session EXCEPT !.at = "executing", !.run.n = e.run.n + 1, !.collected = Collected(e)]
  /\ UNCHANGED <<wfPlan, wfWindows, wfQueue, wfResults>>
StartValidation(e) ==
  /\ e.run.phase = "training" /\ e.run.n = Cardinality(GenerateMatrix)
  /\ \E best \in SelectBest(Collected(e)) :
       session' = [session EXCEPT !.at = "executing", !.collected = Collected(e),
                                  !.run = RunId("validation", session.window, best.n)]
  /\ MarkedAs("VALIDATING")
  /\ UNCHANGED <<wfPlan, wfQueue, wfResults>>
FinishWindow(e) ==
  /\ e.run.phase = "validation"
  /\ wfResults' = Stored(wfResults, session.window, Validated(e))
  /\ MarkedAs("COMPLETED")
  /\ session' = NoSession
  /\ UNCHANGED <<wfPlan, wfQueue>>
DispatchOptimization(e) ==
  IF ~Accepts(e) THEN UNCHANGED walkVars
  ELSE NextTraining(e) \/ StartValidation(e) \/ FinishWindow(e)
WalkForwardUpdates(e) ==
  LET v == Validated(e)
  IN IF Accepts(e) /\ e.run.phase = "validation"
     THEN << [type |-> "walkforward", window |-> v.window, best |-> v.best, training |-> v.training,
              validation |-> v.validation, metrics |-> v.metrics] >>
     ELSE <<>>

-----------------------------------------------------------------------------
(* The windows cover the data: the validation of each is within it, after  *)
(* its training, no window is left out, and none is repeated.              *)
WindowsFit ==
  LET n == Cardinality(DOMAIN wfWindows)
  IN /\ DOMAIN wfWindows = 0 .. n - 1
     /\ \A i \in DOMAIN wfWindows : Window(wfPlan, i).validationEnd <= wfPlan.days
     /\ n > 0 => Window(wfPlan, n).validationEnd > wfPlan.days

(* One window at a time, in order: those before it are done, and those     *)
(* after it wait.                                                          *)
OneWindowAtATime ==
  LET active == {i \in DOMAIN wfWindows : wfWindows[i] \in {"TRAINING", "VALIDATING"}}
  IN /\ active = IF session.at \in {"executing", "awaiting"} THEN {session.window} ELSE {}
     /\ {i \in DOMAIN wfWindows : wfWindows[i] = "QUEUED"} = ToSet(wfQueue)
     /\ {i \in DOMAIN wfWindows : wfWindows[i] = "COMPLETED"} = DOMAIN wfResults
=============================================================================
