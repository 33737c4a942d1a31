------------------------------ MODULE Backtest ------------------------------
(***************************************************************************)
(* Historical replay, and the runner whose sessions replay.                *)
(***************************************************************************)
EXTENDS Integers, Sequences, FiniteSets, SequencesExt

(***************************************************************************)
(* Historical replay. A backtest engine holds the candles its configuration*)
(* selects and a provider that replays them: Connect starts a goroutine    *)
(* that sends the candles from the position on, Disconnect stops it and    *)
(* waits. Clients connect, subscribe, poll the status until the replay is  *)
(* over, and disconnect. One engine may have several clients.              *)
(***************************************************************************)
CONSTANTS
  File,          \* the candles of the data path, in file order
  ReplayBuffer,  \* capacity of ReplayProvider.events
  Clients        \* who connects providers

VARIABLES
  engines,       \* the engines made, each with its provider
  loops,         \* the replay goroutines started
  clients,       \* client -> where it is in a use of an engine
  crashed        \* whether a WaitGroup went negative, which panics

replayVars == <<engines, loops, clients, crashed>>

(* FilterCandles: by symbol and time, in the order of the closing times.   *)
FilterCandles(symbols, from, to) ==
  SortSeq(SelectSeq(File, LAMBDA c : c.symbol \in symbols /\ from <= c.at /\ c.at <= to),
          LAMBDA c, d : c.at < d.at)

(* `stop` numbers the stop channels: Connect makes one, Disconnect closes  *)
(* it. `count` and `waiters` are the provider's WaitGroup, and `parked` the*)
(* clients that sleep in its Wait. `sent` is a history.                    *)
NewEngine(candles) ==
  [candles |-> candles, connected |-> FALSE, subscribed |-> {}, channel |-> <<>>, position |-> 0,
   status |-> "IDLE", stop |-> 0, count |-> 0, waiters |-> 0, parked |-> {}, sent |-> <<>>]
Away == [at |-> "idle", engine |-> 0]

ReplayInit(made) ==
  /\ engines = made /\ loops = <<>> /\ crashed = FALSE
  /\ clients = [c \in Clients |-> Away]

Closed(e, stop) == stop < engines[e].stop \/ ~engines[e].connected

-----------------------------------------------------------------------------
(* Connect of a connected provider is none. The WaitGroup is made anew,    *)
(* whoever waits on it.                                                    *)
Connect(all, e) ==
  IF all[e].connected THEN all
  ELSE [all EXCEPT ![e].connected = TRUE, ![e].stop = @ + 1, ![e].status = "RUNNING",
                   ![e].count = 1, ![e].waiters = 0]
Connects(c, all, e, recovered) ==
  /\ clients[c].at = "idle"
  /\ engines' = [Connect(all, e) EXCEPT ![e].subscribed = @ \union recovered]
  /\ loops' = IF Connect(all, e)[e].stop = all[e].stop THEN loops
              ELSE Append(loops, [engine |-> e, at |-> "starting", stop |-> 0])
  /\ clients' = [clients EXCEPT ![c] = [at |-> "connected", engine |-> e]]
  /\ UNCHANGED crashed
Subscribes(c, symbols) ==
  /\ clients[c].at = "connected"
  /\ engines' = [engines EXCEPT ![clients[c].engine].subscribed = @ \union symbols]
  /\ clients' = [clients EXCEPT ![c].at = "polling"]
  /\ UNCHANGED <<loops, crashed>>

Over(e) == engines[e].status \in {"COMPLETED", "STOPPED"}
ReturnsWhenOver(c, cancelled) ==
  /\ clients[c].at = "polling" /\ Over(clients[c].engine)
  /\ clients' = [clients EXCEPT ![c].at = "disconnecting"]
  /\ UNCHANGED <<engines, loops, crashed>>

Returns(c, cancelled) ==
  /\ clients[c].at = "polling" /\ (Over(clients[c].engine) \/ cancelled)
  /\ clients' = [clients EXCEPT ![c].at = "disconnecting"]
  /\ UNCHANGED <<engines, loops, crashed>>

(* Disconnect closes the stop channel, waits, and only then looks at the   *)
(* status.                                                                 *)
Disconnects(c) ==
  LET e == clients[c].engine
  IN /\ clients[c].at = "disconnecting"
     /\ engines' = [engines EXCEPT ![e].connected = FALSE]
     /\ clients' = [clients EXCEPT ![c] = IF engines[e].connected THEN [@ EXCEPT !.at = "waiting"] ELSE Away]
     /\ UNCHANGED <<loops, crashed>>
Waits(c) ==
  LET e == clients[c].engine
  IN /\ clients[c].at = "waiting"
     /\ engines' = IF engines[e].count = 0 THEN engines
                   ELSE [engines EXCEPT ![e].waiters = @ + 1, ![e].parked = @ \union {c}]
     /\ clients' = [clients EXCEPT ![c].at = "waited"]
     /\ UNCHANGED <<loops, crashed>>
Disconnected(c) ==
  LET e == clients[c].engine
  IN /\ clients[c].at = "waited" /\ c \notin engines[e].parked
     /\ engines' = [engines EXCEPT ![e].status = IF @ = "RUNNING" THEN "STOPPED" ELSE @]
     /\ clients' = [clients EXCEPT ![c] = Away]
     /\ UNCHANGED <<loops, crashed>>

-----------------------------------------------------------------------------
(* The goroutine reads the stop channel when it first runs. On its way out *)
(* it counts down, and whoever waits is woken when that makes zero.        *)
Starts(l) ==
  /\ loops[l].at = "starting"
  /\ loops' = [loops EXCEPT ![l].at = "reading", ![l].stop = engines[loops[l].engine].stop]
  /\ UNCHANGED <<engines, clients, crashed>>
Ends(l, after) ==
  LET e == loops[l].engine
  IN /\ loops' = [loops EXCEPT ![l].at = "gone"]
     /\ crashed' = (crashed \/ after[e].count = 0)
     /\ \E woken \in SUBSET after[e].parked :
          /\ Cardinality(woken) = IF after[e].count = 1 THEN after[e].waiters ELSE 0
          /\ engines' = [after EXCEPT ![e].count = IF @ = 0 THEN 0 ELSE @ - 1,
                                      ![e].waiters = IF after[e].count = 1 THEN 0 ELSE @,
                                      ![e].parked = @ \ woken]
     /\ UNCHANGED clients

Unwanted(e) == /\ engines[e].subscribed # {}
               /\ engines[e].candles[engines[e].position + 1].symbol \notin engines[e].subscribed
Exhausted(e) == engines[e].position >= Len(engines[e].candles)

(* One round: the end of the candles, a candle nobody subscribed, the stop,*)
(* or a candle to send.                                                    *)
Reads(l) ==
  LET e == loops[l].engine
  IN /\ loops[l].at = "reading"
     /\ IF Exhausted(e)
        THEN /\ engines' = [engines EXCEPT ![e].status = "COMPLETED"]
             /\ loops' = [loops EXCEPT ![l].at = "ending"] /\ UNCHANGED <<clients, crashed>>
        ELSE IF Unwanted(e)
             THEN loops' = [loops EXCEPT ![l].at = "advancing"] /\ UNCHANGED <<engines, clients, crashed>>
             ELSE IF Closed(e, loops[l].stop) THEN Ends(l, engines)
                  ELSE /\ loops' = [loops EXCEPT ![l] = [engine |-> e, at |-> "sending", stop |-> @.stop,
                                       candle |-> engines[e].candles[engines[e].position + 1]]]
                       /\ UNCHANGED <<engines, clients, crashed>>
Sends(l) ==
  LET e == loops[l].engine
  IN /\ loops[l].at = "sending" /\ Len(engines[e].channel) < ReplayBuffer
     /\ engines' = [engines EXCEPT ![e].channel = Append(@, loops[l].candle),
                                   ![e].sent = Append(@, loops[l].candle)]
     /\ loops' = [loops EXCEPT ![l].at = "advancing"]
     /\ UNCHANGED <<clients, crashed>>
GivesUp(l) == /\ loops[l].at = "sending" /\ Closed(loops[l].engine, loops[l].stop)
              /\ Ends(l, engines)
Advances(l) ==
  /\ loops[l].at = "advancing"
  /\ engines' = [engines EXCEPT ![loops[l].engine].position = @ + 1]
  /\ loops' = [loops EXCEPT ![l].at = "reading"]
  /\ UNCHANGED <<clients, crashed>>

Leaves(l) == loops[l].at = "ending" /\ Ends(l, engines)

LoopSteps(l) == Starts(l) \/ Reads(l) \/ Sends(l) \/ GivesUp(l) \/ Advances(l) \/ Leaves(l)

-----------------------------------------------------------------------------
(* The candles of an engine are sent once each, in order, however often    *)
(* clients connect and disconnect.                                         *)
EachCandleOnce ==
  \A e \in DOMAIN engines :
    /\ Len(engines[e].sent) <= Len(engines[e].candles)
    /\ \A i, j \in DOMAIN engines[e].sent : i < j => engines[e].sent[i].at < engines[e].sent[j].at

Replaying(e) == {l \in DOMAIN loops : loops[l].engine = e /\ loops[l].at # "gone"}
(* An engine is replayed by one goroutine at a time, as the runner, which  *)
(* takes a lock for exclusive access to the shared engine, means it to be. *)
OneReplayLoop == \A e \in DOMAIN engines : Cardinality(Replaying(e)) <= 1

-----------------------------------------------------------------------------
(***************************************************************************)
(* The backtest runner: a session takes a slot, listens to the engines of  *)
(* the platform, replays its period through the provider manager, one      *)
(* session at a time, and files a summary of the recommendation documents. *)
(***************************************************************************)
CONSTANTS
  Counted,              \* the event types a collector counts
  ScaleTo               \* percent, of confidences and rates

ASSUME ScaleIsPercent == ScaleTo = 100

VARIABLES
  sessionRuns,          \* the sessions begun: request, caller, collector
  sessions,             \* Repository: session -> record
  activeSessions,       \* Engine.activeSessions
  runnerClosed          \* Engine.closed

sessionVars == <<sessionRuns, sessions, activeSessions, runnerClosed>>

SessionsInit == sessionRuns = <<>> /\ sessions = <<>> /\ activeSessions = 0 /\ runnerClosed = FALSE

(* Validate: a period, and symbols.                                        *)
ValidRequest(r) == r.from <= r.to /\ r.symbols # {}

NewSession(request, ctx) ==
  [at |-> "replay", request |-> request, ctx |-> ctx, engine |-> 0, failed |-> FALSE,
   heard |-> <<>>]

Admits(limit) == ~runnerClosed /\ activeSessions < limit
StartSession(request, ctx) ==
  /\ ValidRequest(request)
  /\ sessionRuns' = Append(sessionRuns, NewSession(request, ctx))
  /\ activeSessions' = activeSessions + 1
  /\ UNCHANGED <<sessions, runnerClosed>>

(* BacktestReplayRunner.Execute: under its lock, from the factory to the   *)
(* end of Disconnect.                                                      *)
Holding == {s \in DOMAIN sessionRuns : sessionRuns[s].at = "replaying"}
Unlocked == Holding = {}
BeginsReplay(s, all, e, recovered) ==
  /\ sessionRuns[s].at = "replay" /\ Unlocked
  /\ Connects("session", all, e, recovered)
  /\ sessionRuns' = [sessionRuns EXCEPT ![s].at = "replaying", ![s].engine = e]
  /\ UNCHANGED <<sessions, activeSessions, runnerClosed>>
Replays(s, cancelled) ==
  /\ sessionRuns[s].at = "replaying"
  /\ \/ Subscribes("session", sessionRuns[s].request.symbols) /\ UNCHANGED sessionRuns
     \/ /\ Returns("session", cancelled)
        /\ \E failed \in BOOLEAN :
             /\ failed => cancelled
             /\ ~failed => Over(sessionRuns[s].engine)
             /\ sessionRuns' = [sessionRuns EXCEPT ![s].failed = failed]
     \/ /\ Disconnects("session") \/ Waits("session") \/ Disconnected("session")
        /\ sessionRuns' = IF clients'["session"].at = "idle"
                          THEN [sessionRuns EXCEPT ![s].at = "replayed"] ELSE sessionRuns
  /\ UNCHANGED <<sessions, activeSessions, runnerClosed>>

-----------------------------------------------------------------------------
(* The collector, whose goroutine handles what the session hears in order:*)
(* when it is asked it has handled some of it.                             *)
Open(s) == sessionRuns[s].at # "done"
Hears(out) ==
  sessionRuns' = [s \in DOMAIN sessionRuns |->
                    IF Open(s) THEN [sessionRuns[s] EXCEPT !.heard = @ \o out] ELSE sessionRuns[s]]

(* Of a document the latest is kept.                                       *)
Deliveries(events) == {n \in DOMAIN events : events[n].type = "delivery"}
LatestOf(id, events) == Max({n \in Deliveries(events) : events[n].doc.id = id})
Documents(docs, events) ==
  LET ids == {events[n].doc.id : n \in Deliveries(events)}
  IN [id \in DOMAIN docs \union ids |-> IF id \in ids THEN events[LatestOf(id, events)].doc ELSE docs[id]]
Collected(heard) ==
  [docs |-> Documents(<<>>, heard),
   counts |-> [t \in Counted |-> Cardinality({n \in DOMAIN heard : heard[n].type = t})]]

(* collectDocuments: what the collector has, whatever symbol it is of, and *)
(* what the delivery repository has of the period and the symbols.         *)
InPeriod(doc, r) == /\ doc.created >= r.from /\ doc.updated >= r.from /\ doc.updated <= r.to
                    /\ doc.symbol \in r.symbols
CollectDocuments(s, collected, delivered) ==
  LET listed == {id \in DOMAIN delivered : InPeriod(delivered[id], sessionRuns[s].request)}
  IN [id \in listed \union DOMAIN collected |-> IF id \in listed THEN delivered[id] ELSE collected[id]]

Total(docs, field) == SumFunctionOnSet([id \in DOMAIN docs |-> docs[id][field]], DOMAIN docs)
Confidences(docs) == {docs[id].confidence : id \in DOMAIN docs}
Times(docs, Test(_)) == Cardinality({id \in DOMAIN docs : Test(docs[id])})
NoDocuments == [generated |-> 0, closed |-> 0, buy |-> 0, watch |-> 0, avoid |-> 0, confidence |-> 0,
                highest |-> 0, lowest |-> 0, return |-> 0, winRate |-> 0, lossRate |-> 0, winning |-> 0, losing |-> 0,
                counts |-> <<>>]

AveragedOver(docs) == Cardinality(DOMAIN docs)
Rate(n, of) == IF of > 0 THEN (n * ScaleTo) \div of ELSE 0

(* BuildSummary. Averages are per document, rates per evaluated document.  *)
BuildSummary(docs, counts) ==
  IF DOMAIN docs = {} THEN [NoDocuments EXCEPT !.counts = counts]
  ELSE LET n == AveragedOver(docs)
           wins == Times(docs, LAMBDA d : d.outcome = "SUCCESS")
           losses == Times(docs, LAMBDA d : d.outcome = "FAILED")
       IN [generated |-> Cardinality(DOMAIN docs),
           closed |-> Times(docs, LAMBDA d : d.status = "CLOSED"),
           buy |-> Times(docs, LAMBDA d : d.level \in {"BUY", "STRONG_BUY"}),
           watch |-> Times(docs, LAMBDA d : d.level = "WATCH"),
           avoid |-> Times(docs, LAMBDA d : d.level = "AVOID"),
           confidence |-> Total(docs, "confidence") \div n,
           highest |-> Max(Confidences(docs)), lowest |-> Min(Confidences(docs)),
           return |-> Total(docs, "return") \div n,
           winRate |-> Rate(wins, wins + losses), lossRate |-> Rate(losses, wins + losses),
           \* QualityDistribution, as the context builder reads it
           winning |-> Times(docs, LAMBDA d : d.class \in {"SUCCESS", "GOOD"}),
           losing |-> Times(docs, LAMBDA d : d.class \in {"FAILED", "POOR", "BAD"}),
           counts |-> counts]

(* The rest of StartSession, and failSession: the session is saved with    *)
(* what is known at once, whatever the platform still works on.            *)
Saves(s, delivered) ==
  /\ sessionRuns[s].at = "replayed"
  /\ \E n \in 0 .. Len(sessionRuns[s].heard) :
       LET collected == Collected(SubSeq(sessionRuns[s].heard, 1, n))
           saved == [status |-> IF sessionRuns[s].failed THEN "FAILED" ELSE "COMPLETED",
                     summary |-> BuildSummary(CollectDocuments(s, collected.docs, delivered), collected.counts)]
       IN sessions' = [r \in DOMAIN sessions \union {s} |-> IF r = s THEN saved ELSE sessions[r]]
  /\ sessionRuns' = [sessionRuns EXCEPT ![s].at = "done", ![s].heard = <<>>]
FilesLeavingSlot(s, delivered) == Saves(s, delivered) /\ UNCHANGED <<activeSessions, runnerClosed>>
Files(s, delivered) ==
  /\ Saves(s, delivered)
  /\ activeSessions' = activeSessions - 1
  /\ UNCHANGED runnerClosed

-----------------------------------------------------------------------------
(* A slot is taken by each session that is not filed, and no session       *)
(* replays while another does.                                             *)
SlotsMatchSessions(limit) ==
  /\ activeSessions = Cardinality({s \in DOMAIN sessionRuns : Open(s)}) /\ activeSessions <= limit
  /\ Cardinality(Holding) <= 1
  /\ DOMAIN sessions = {s \in DOMAIN sessionRuns : ~Open(s)}

(* A summary's figures fit together.                                       *)
SummariesAddUp ==
  \A s \in DOMAIN sessions : LET m == sessions[s].summary IN
    /\ m.closed <= m.generated /\ m.buy + m.watch + m.avoid <= m.generated
    /\ m.lowest <= m.confidence /\ m.confidence <= m.highest
    /\ m.winRate + m.lossRate <= ScaleTo
    /\ m.winning + m.losing <= m.generated
=============================================================================
