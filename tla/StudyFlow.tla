------------------------------ MODULE StudyFlow ------------------------------
(***************************************************************************)
(* Historical research as composed by the container: studies are executed  *)
(* as backtest sessions, a session replays candles into the gateway, the   *)
(* intelligence chain turns them into documents later on, and what studies *)
(* come to is reported and packed. Without a configured backtest a session *)
(* makes an engine of its own; with one, the sessions, the runtime, and the*)
(* runners of the experiment and walk-forward engines share it.            *)
(***************************************************************************)
EXTENDS EngineBus, Backtest, Laboratory

CONSTANTS
  Configurations,   \* sets of what is configured, of Features
  BacktestConfig,   \* the configured backtest: symbols and period
  CallersRequest,   \* what callers of the runner ask for
  Outcomes,         \* candle -> what the platform may make of it, as events; nothing of others
  Bounds,           \* per configuration: sessions, studies and their requests, the laboratory's
                    \* callers and their contexts, comparisons, turns
  SessionLimit,     \* Config.ConcurrentSessions, per configuration
  StudyLimit        \* Config.ConcurrentStudies

Features == {"backtest", "auto", "callers", "laboratory", "others", "cancels", "closes"}
ASSUME FeaturesKnown == \A c \in Configurations : c \subseteq Features

ASSUME OutcomesTyped ==
  \A c \in DOMAIN Outcomes : \A out \in Outcomes[c] :
    /\ out \in Seq(ToSet(out))
    /\ \A n \in DOMAIN out : out[n].type = "delivery" => out[n].doc.confidence \in Int /\ out[n].doc.return \in Int
ASSUME SessionsAdmitted == \A c \in Configurations : SessionLimit[c] \in Nat \ {0}
ASSUME CallersKnown == IsFiniteSet(Callers) /\ \A c \in Configurations : Bounds[c].callers \subseteq Callers

VARIABLES
  config,           \* what is configured
  active,           \* the engine the provider manager has, 0: a live provider
  reading,          \* the engine whose channel the gateway waits on
  analysing,        \* candles in the engines between gateway and delivery
  delivered,        \* the delivery repository: identifier -> document
  analysed,         \* history: what has been analysed
  ctxDone,          \* the contexts that are cancelled
  closing,          \* how far Container.Close is
  ended,            \* consumers that have returned
  turns             \* bound: executions by other runners and of studies

marketVars == <<active, reading, analysing, delivered, analysed>>
lifeVars == <<ctxDone, closing, ended, turns, config>>
flowVars == <<replayVars, sessionVars, laboratoryVars, reportVars, busVars, marketVars, lifeVars>>

Shared == "backtest" \in config
EngineFor(r) == NewEngine(FilterCandles(r.symbols, r.from, r.to))

(* Container.Close, in its order.                                          *)
Stages == <<"open", "gateway", "runner", "aicontext", "airesearch", "laboratory", "manager", "closed">>
StageOf(what) == CHOOSE n \in DOMAIN Stages : Stages[n] = what
ClosedUpTo(what) == closing >= StageOf(what)
BusClosed == ClosedUpTo("gateway")
AreClosed(e) == ClosedUpTo(e)

Consumers == {"airesearch", "aicontext"}
Listening == [e \in Consumers |-> IF BusClosed THEN {}
                                  ELSE IF e = "airesearch" THEN {"study.completed"} ELSE {"study.ai.completed"}]
Publish(out, from) == PublishTo(out, from, Listening)

FlowInit ==
  /\ config \in Configurations
  /\ ReplayInit(IF Shared THEN <<EngineFor(BacktestConfig)>> ELSE <<>>)
  /\ SessionsInit /\ LaboratoryInit /\ ReportsInit
  /\ inbox = [e \in Consumers |-> <<>>] /\ lost = FALSE
  /\ active = IF Shared THEN 1 ELSE 0
  /\ reading = IF Shared THEN 1 ELSE 0
  /\ analysing = <<>> /\ delivered = <<>> /\ analysed = {}
  /\ ctxDone = {} /\ closing = 1 /\ ended = {} /\ turns = 0

-----------------------------------------------------------------------------
(* Sessions: the runner's own, and those of callers with a context.        *)
AutoStart ==
  /\ "auto" \in config /\ Admits(SessionLimit[config])
  /\ \A s \in DOMAIN sessionRuns : sessionRuns[s].ctx # "runner"
  /\ StartSession(BacktestConfig, "runner")
  /\ UNCHANGED <<replayVars, laboratoryVars, reportVars, busVars, marketVars, lifeVars>>
CallerStarts ==
  /\ "callers" \in config /\ (Shared => turns > 0 /\ clients["runtime"].at # "connected")
  /\ Admits(SessionLimit[config]) /\ Len(sessionRuns) < Bounds[config].sessions
  /\ StartSession(CallersRequest, "caller")
  /\ UNCHANGED <<replayVars, laboratoryVars, reportVars, busVars, marketVars, lifeVars>>

(* The factory, BindProvider and Connect.                                  *)
SessionReplays(s) ==
  /\ IF Shared THEN BeginsReplay(s, engines, 1, {}) /\ active' = 1
     ELSE /\ BeginsReplay(s, Append(engines, EngineFor(sessionRuns[s].request)), Len(engines) + 1, {})
          /\ active' = Len(engines) + 1
  /\ UNCHANGED <<laboratoryVars, reportVars, busVars, reading, analysing, delivered, analysed, lifeVars>>
SessionSteps(s) ==
  /\ \/ Replays(s, sessionRuns[s].ctx \in ctxDone)
     \/ UNCHANGED replayVars /\ Files(s, delivered)
  /\ UNCHANGED <<laboratoryVars, reportVars, busVars, marketVars, lifeVars>>
ReplayLoops ==
  /\ \E l \in DOMAIN loops : LoopSteps(l)
  /\ UNCHANGED <<sessionVars, laboratoryVars, reportVars, busVars, marketVars, lifeVars>>

(* The runtime connects the configured backtest when it starts, and the    *)
(* container disconnects what the manager has when it closes.              *)
RuntimeConnects ==
  /\ Shared /\ closing = 1 /\ turns = 0 /\ Connects("runtime", engines, 1, {})
  /\ turns' = 1
  /\ UNCHANGED <<sessionVars, laboratoryVars, reportVars, busVars, marketVars, ctxDone, closing, ended, config>>
RuntimeSteps ==
  /\ \/ Subscribes("runtime", BacktestConfig.symbols)
     \/ Disconnects("runtime") \/ Waits("runtime") \/ Disconnected("runtime")
  /\ UNCHANGED <<sessionVars, laboratoryVars, reportVars, busVars, marketVars, lifeVars>>

(* SharedEngineRunner.Execute of the experiments and of walk-forward.      *)
OtherRunners ==
  /\ "others" \in config
  /\ \E c \in {"experiments", "walkforward"} :
       \/ turns < Bounds[config].turns /\ turns' = turns + 1 /\ Connects(c, engines, 1, {})
       \/ /\ turns' = turns
          /\ \/ Subscribes(c, BacktestConfig.symbols) \/ Returns(c, FALSE)
             \/ Disconnects(c) \/ Waits(c) \/ Disconnected(c)
  /\ UNCHANGED <<sessionVars, laboratoryVars, reportVars, busVars, marketVars, ctxDone, closing, ended, config>>

-----------------------------------------------------------------------------
(* The gateway waits on the channel of the provider the session had when   *)
(* it last looked, and looks again after an event.                         *)
GatewayTakes ==
  /\ ~BusClosed /\ reading # 0 /\ engines[reading].channel # <<>>
  /\ engines' = [engines EXCEPT ![reading].channel = Tail(@)]
  /\ analysing' = Append(analysing, Head(engines[reading].channel))
  /\ reading' = active
  /\ UNCHANGED <<loops, clients, crashed, sessionVars, laboratoryVars, reportVars, busVars, active, delivered,
                 analysed, lifeVars>>
LiveEvent ==
  /\ ~BusClosed /\ reading = 0 /\ active # 0 /\ reading' = active
  /\ UNCHANGED <<replayVars, sessionVars, laboratoryVars, reportVars, busVars, active, analysing, delivered,
                 analysed, lifeVars>>
MadeOf(candle) == IF candle \in DOMAIN Outcomes THEN Outcomes[candle] ELSE {<<>>}
Analyse ==
  /\ ~BusClosed /\ analysing # <<>>
  /\ \E out \in MadeOf(Head(analysing)) :
       /\ delivered' = Documents(delivered, out)
       /\ Hears(out)
  /\ analysing' = Tail(analysing)
  /\ analysed' = analysed \union {Head(analysing)}
  /\ UNCHANGED <<replayVars, sessions, activeSessions, runnerClosed, laboratoryVars, reportVars, busVars,
                 active, reading, lifeVars>>

-----------------------------------------------------------------------------
(* The laboratory's callers.                                               *)
LaboratoryCalls ==
  /\ "laboratory" \in config
  /\ \E c \in Bounds[config].callers :
       \/ /\ turns < Bounds[config].turns /\ turns' = turns + 1
          /\ \E s \in DOMAIN studies, ctx \in Bounds[config].contexts : ReadsStudy(c, s, ctx)
       \/ /\ turns' = turns
          /\ \/ /\ Len(studies) + Cardinality({d \in Callers : calls[d].at = "creating"}) < Bounds[config].studies
                /\ CreateStudy(c, Bounds[config].requests) \/ CreateVersion(c)
             \/ SavesNew(c) \/ Refused(c, StudyLimit) \/ Runs(c, StudyLimit)
             \/ \E s \in DOMAIN studies : /\ Len(comparisons) < Bounds[config].comparisons
                                          /\ CompareStudies([strategy |-> studies[s].strategy])
  /\ UNCHANGED <<replayVars, sessionVars, reportVars, busVars, marketVars, ctxDone, closing, ended, config>>
RequestOf(study) == [symbols |-> study.symbols, from |-> study.from, to |-> study.to]
StudyCompleted(c) == <<[type |-> "study.completed", study |-> calls[c].id]>>
StudyStarts(c) ==
  /\ calls[c].at = "starting" /\ Admits(SessionLimit[config])
  /\ StartSession(RequestOf(calls[c].study), calls[c].ctx) /\ Started(c, Len(sessionRuns) + 1)
  /\ UNCHANGED <<replayVars, reportVars, busVars, marketVars, lifeVars>>
StudyEnds(c) ==
  /\ \/ /\ calls[c].at = "starting" /\ ~Admits(SessionLimit[config])
        /\ Finishes(c, 0, TRUE, <<>>)
     \/ /\ calls[c].at = "waiting" /\ ~Open(calls[c].session)
        /\ Finishes(c, calls[c].session, sessions[calls[c].session].status = "FAILED",
                    sessions[calls[c].session].summary)
  /\ Publish(StudyCompleted(c), "")
  /\ UNCHANGED <<replayVars, sessionVars, reportVars, marketVars, lifeVars>>

AIResearch ==
  /\ Waiting("airesearch") /\ "airesearch" \notin ended
  /\ LET id == Next1("airesearch").study IN
       /\ HandleStudy(id, studies[id], AreClosed("airesearch"))
       /\ Publish(IF reports' = reports THEN <<>> ELSE StudyAICompleted(id), "airesearch")
  /\ UNCHANGED <<replayVars, sessionVars, laboratoryVars, contexts, marketVars, lifeVars>>
AIContext ==
  /\ Waiting("aicontext") /\ "aicontext" \notin ended
  /\ HandleReport(Next1("aicontext"), studies[Next1("aicontext").study], AreClosed("aicontext"))
  /\ Publish(<<>>, "aicontext")
  /\ UNCHANGED <<replayVars, sessionVars, laboratoryVars, reports, marketVars, lifeVars>>

-----------------------------------------------------------------------------
(* A caller gives up.                                                      *)
CallerCancels ==
  /\ "cancels" \in config /\ "caller" \notin ctxDone
  /\ \E s \in DOMAIN sessionRuns : Open(s) /\ sessionRuns[s].ctx = "caller"
  /\ ctxDone' = ctxDone \union {"caller"}
  /\ UNCHANGED <<replayVars, sessionVars, laboratoryVars, reportVars, busVars, marketVars, closing, ended, turns,
                 config>>

(* Each engine's Close first marks it closed and cancels, and then waits:  *)
(* the runner for its own session, the consumers for their goroutine, the  *)
(* laboratory for nobody.                                                  *)
AutoDone == \A s \in DOMAIN sessionRuns : sessionRuns[s].ctx = "runner" => ~Open(s)
MayLeave(stage) ==
  CASE stage = "runner" -> AutoDone
    [] stage \in Consumers -> stage \in ended
    [] stage = "manager" -> clients["runtime"].at = "idle"
    [] OTHER -> TRUE
CloseStep ==
  /\ "closes" \in config /\ closing < Len(Stages) /\ MayLeave(Stages[closing])
  /\ closing' = closing + 1
  /\ runnerClosed' = (closing' >= StageOf("runner"))
  /\ laboratoryClosed' = (closing' >= StageOf("laboratory"))
  /\ ctxDone' = ctxDone \union (IF Stages[closing'] \in {"runner", "laboratory"} THEN {Stages[closing']} ELSE {})
  /\ IF Stages[closing'] = "manager" /\ active # 0 /\ clients["runtime"].at \in {"idle", "polling"}
     THEN clients' = [clients EXCEPT !["runtime"] = [at |-> "disconnecting", engine |-> active]]
     ELSE clients' = clients
  /\ UNCHANGED <<engines, loops, crashed, sessionRuns, sessions, activeSessions, studies, byStatus, calls,
                 activeStudies, comparisons, reportVars, busVars, marketVars, ended, turns, config>>
ConsumerEnds(e) ==
  /\ e \notin ended /\ BusClosed /\ inbox[e] = <<>>
  /\ ended' = ended \union {e}
  /\ UNCHANGED <<replayVars, sessionVars, laboratoryVars, reportVars, busVars, marketVars, ctxDone, closing, turns,
                 config>>

Progress ==
  \/ \E s \in DOMAIN sessionRuns : (sessionRuns[s].at = "replay" /\ SessionReplays(s)) \/ SessionSteps(s)
  \/ ReplayLoops \/ RuntimeSteps \/ GatewayTakes \/ Analyse
  \/ \E c \in Callers : StudyStarts(c) \/ StudyEnds(c)
  \/ AIResearch \/ AIContext
  \/ closing > 1 /\ CloseStep
  \/ \E e \in Consumers : ConsumerEnds(e)
FlowNext ==
  \/ Progress \/ AutoStart \/ CallerStarts \/ RuntimeConnects \/ OtherRunners
  \/ LaboratoryCalls \/ CallerCancels \/ LiveEvent \/ CloseStep

(* Goroutines run, polls come round; a live provider may stay silent.      *)
FlowSpec == FlowInit /\ [][FlowNext]_flowVars /\ WF_flowVars(Progress)

-----------------------------------------------------------------------------
FlowTypeOK ==
  /\ \A e \in DOMAIN engines : engines[e].status \in {"IDLE", "RUNNING", "COMPLETED", "STOPPED"}
                               /\ Len(engines[e].channel) <= ReplayBuffer
  /\ active \in 0 .. Len(engines) /\ reading \in 0 .. Len(engines)
  /\ \A s \in DOMAIN studies : studies[s].status \in Statuses
  /\ \A e \in Consumers : Len(inbox[e]) <= Buffer

Sessions == SlotsMatchSessions(SessionLimit[config])

(* Where only sessions and the runtime's start use an engine, and until the*)
(* container disconnects it, one goroutine at a time replays it.           *)
BeforeTheEnd == closing < StageOf("manager") /\ "others" \notin config
OneReplayAtATime == BeforeTheEnd => OneReplayLoop /\ ~crashed
EachCandleSentOnce == BeforeTheEnd => EachCandleOnce

(* A replay that completed has sent every candle its engine has, or had    *)
(* before: of a shared engine only the first session gets any.             *)
CompletedIsReplayed ==
  \A s \in DOMAIN sessions : LET e == engines[sessionRuns[s].engine] IN
    sessions[s].status = "COMPLETED" /\ BeforeTheEnd => e.sent = e.candles

(* When all is handled the last report of a study is about the study as it *)
(* is, and so is the last context, which goes with that report.            *)
LastOf(seq, id) == LET of == {n \in DOMAIN seq : seq[n].study = id} IN IF of = {} THEN 0 ELSE Max(of)
Quiet == (\A e \in Consumers : inbox[e] = <<>>) /\ Executing = {} /\ ~lost /\ ~BusClosed
ReportsConverge ==
  Quiet => \A id \in DOMAIN studies : studies[id].status \in {"COMPLETED", "FAILED"} =>
             LastOf(reports, id) # 0 /\ reports[LastOf(reports, id)].of = studies[id]
ContextsConverge ==
  Quiet => \A id \in DOMAIN studies : LastOf(reports, id) # 0 =>
             /\ contexts[LastOf(contexts, id)].of = studies[id]
             /\ contexts[LastOf(contexts, id)].report = LastOf(reports, id)

(* When the runner is closed its own session has ended, whoever holds the  *)
(* replay, and no other begins.                                            *)
AutoQuiet ==
  closing > StageOf("runner") => \A s \in DOMAIN sessionRuns : sessionRuns[s].ctx = "runner" => ~Open(s)

(* In the end every session is filed, or waits for a gateway that reads    *)
(* another provider's channel or none, or for the session that does.       *)
Starved(s) == BusClosed \/ reading # sessionRuns[s].engine
SessionsEnd == <>[](\A s \in DOMAIN sessionRuns : Open(s) => sessionRuns[s].at = "replay" \/ Starved(s))

(* Close returns.                                                          *)
ClosesDown == BusClosed ~> (Stages[closing] = "closed")

(* A session waits for the platform to work through its candles.           *)
SummaryIsComplete ==
  \A s \in DOMAIN sessions : sessions[s].status = "COMPLETED" =>
    \A n \in DOMAIN engines[sessionRuns[s].engine].candles : engines[sessionRuns[s].engine].candles[n] \in analysed

(* Sessions share engines and the lock of the replay: candles are replayed *)
(* once and by one goroutine, slots are given back, and what is filed is   *)
(* true of what was replayed.                                              *)
SessionsSound ==
  /\ FlowTypeOK
  /\ EachCandleSentOnce
  /\ OneReplayAtATime
  /\ CompletedIsReplayed
  /\ Sessions
  /\ SummariesAddUp
  /\ TradesAreCounted
  /\ AutoQuiet

(* Studies are where their status says, are numbered without gaps and have *)
(* the output of their own session, whoever executes and defines them at a *)
(* time.                                                                   *)
StudiesFiled == StudiesFound /\ VersionsConsecutive /\ CompletedHasOutput

(* When all is handled, the last report and the last context are about the *)
(* study as it is, with a verdict it justifies.                            *)
StudiesReported == ReportsConverge /\ ContextsConverge /\ VerdictsJustified

(* A session ends unless its replay is starved by the gateway, and closing *)
(* ends.                                                                   *)
StudiesEnd == SessionsEnd /\ ClosesDown
==============================================================================
