---------------------------- MODULE CandleFeeds -----------------------------
(***************************************************************************)
(* The historical providers that merge candles of several iterators by time: *)
(* the CSV provider and the Groww provider.                                *)
(***************************************************************************)
EXTENDS HistoricalFeed, SequencesExt

(***************************************************************************)
(* The CSV provider: one iterator over the data file per subscribed symbol *)
(* that matches it. Every read takes the next row of all of them and sends *)
(* the earliest; a full channel loses it.                                  *)
(***************************************************************************)
CONSTANTS
  Rows,             \* the file: rows with time and kind
  From, To,         \* the configured period
  DataSymbols,      \* the symbols SymbolsMatch takes for the file's
  LoopFile          \* Config.Loop

ASSUME RowsAreRead == Rows \in Seq([at : Int, kind : {"row", "malformed", "blank"}])

VARIABLES
  iterators,        \* streamCoordinator.iters: symbol -> rows read
  symbolsRead,      \* history: the symbols of this pass
  pass,             \* history: its number
  dropped           \* history: what a full channel lost of this pass

csvVars == <<iterators, symbolsRead, pass, dropped>>
CsvInit == iterators = <<>> /\ symbolsRead = {} /\ pass = 0 /\ dropped = {}

CsvConnect ==
  /\ Spends /\ ConnectedAt([at |-> "looking"])
  /\ UNCHANGED <<subscribed, channel, published, gatewayOpen, csvVars>>

CsvMoves(next) == loop' = next /\ UNCHANGED <<connected, subscribed, channel, published, gatewayOpen>>

(* A wait of some milliseconds, and another look; or the stop.             *)
CsvMatching == subscribed \intersect DataSymbols
CsvStops ==
  /\ loop.at \in {"looking", "reading", "sending"} /\ ~connected
  /\ loop.at = "looking" => CsvMatching = {}
  /\ CsvMoves([at |-> "gone"]) /\ spent' = spent /\ UNCHANGED csvVars
CsvResets ==
  /\ loop.at = "looking" /\ CsvMatching # {}
  /\ iterators' = [s \in CsvMatching |-> 0]
  /\ symbolsRead' = subscribed /\ pass' = pass + 1 /\ dropped' = {}
  /\ spent' = spent /\ CsvMoves([at |-> "reading"])

(* The iterator skips rows that are blank or malformed, the coordinator    *)
(* those outside of the period.                                            *)
Readable(n) == Rows[n].kind = "row" /\ From <= Rows[n].at /\ Rows[n].at <= To
NextRow(read) == Min({n \in read + 1 .. Len(Rows) : Readable(n)} \union {Len(Rows) + 1})
Read == [s \in DOMAIN iterators |-> NextRow(iterators[s])]
Earliest == {s \in DOMAIN Read : Read[s] <= Len(Rows) /\ \A t \in DOMAIN Read :
                                   Read[t] <= Len(Rows) => Rows[Read[s]].at <= Rows[Read[t]].at}
EndOfPass == IF LoopFile THEN [at |-> "looking"] ELSE [at |-> "gone"]
CsvReads ==
  /\ loop.at = "reading" /\ connected
  /\ iterators' = Read
  /\ IF Earliest = {} THEN CsvMoves(EndOfPass)
     ELSE \E s \in Earliest : CsvMoves([at |-> "sending",
                                        entry |-> [symbol |-> s, row |-> Read[s], pass |-> pass]])
  /\ spent' = spent /\ UNCHANGED <<symbolsRead, pass, dropped>>
CsvReadFails ==
  /\ loop.at = "reading" /\ connected /\ Spends
  /\ CsvMoves(EndOfPass) /\ UNCHANGED csvVars
CsvSends ==
  /\ loop.at = "sending" /\ Sends(loop.entry, [at |-> "reading"]) /\ UNCHANGED csvVars
CsvDrops ==
  /\ loop.at = "sending" /\ ~Room
  /\ dropped' = dropped \union {loop.entry.row}
  /\ CsvMoves([at |-> "reading"]) /\ spent' = spent /\ UNCHANGED <<iterators, symbolsRead, pass>>

CsvSteps == CsvStops \/ CsvResets \/ CsvReads \/ CsvSends \/ CsvDrops

-----------------------------------------------------------------------------
(* Of a pass, every readable row is sent for one of the symbols or lost by *)
(* a full channel, in the order of the file, before the iterators end.     *)
InPass(p) == {n \in DOMAIN published : published[n].pass = p}
RowsSent(p) == {published[n].row : n \in InPass(p)}
CsvPassAccounts ==
  /\ \A i, j \in InPass(pass) : i < j => published[i].row < published[j].row
  /\ dropped \intersect RowsSent(pass) = {}
  /\ (DOMAIN iterators # {} /\ \A s \in DOMAIN iterators : iterators[s] > Len(Rows)) =>
       dropped \union RowsSent(pass) = {n \in DOMAIN Rows : Readable(n)}

(* What is sent is of a symbol subscribed when the pass began, and of the  *)
(* file's.                                                                 *)
CsvOfSubscribed ==
  \A n \in InPass(pass) : published[n].symbol \in symbolsRead \intersect DataSymbols

(* A file that is read once ends, whether or not the gateway reads.        *)
CsvEnds ==
  ~LoopFile => (<>[](connected /\ CsvMatching # {}) => <>[](loop.at = "gone"))

-----------------------------------------------------------------------------
(***************************************************************************)
(* The Groww provider: the candles of every subscribed symbol are fetched  *)
(* window by window over HTTP and merged by time. Requests fail and are    *)
(* tried again; when one fails for good the stream begins again.           *)
(***************************************************************************)
CONSTANTS
  Period,           \* the configured period: start and end, in seconds
  MaxDuration,      \* the longest window the interface answers
  Raw,              \* symbol -> what the interface has, as rows
  RetryAttempts     \* Config.RetryAttempts

(* The interface answers in the order of time, which nothing checks.       *)
ASSUME AnswersInOrder ==
  /\ Period \in [start : Int, end : Int] /\ MaxDuration \in Nat \ {0} /\ DOMAIN Raw = Symbols
  /\ \A s \in Symbols :
       /\ Raw[s] \in Seq([at : Int, kind : {"row", "malformed"}])
       /\ \A m, n \in DOMAIN Raw[s] : m < n => Raw[s][m].at <= Raw[s][n].at

VARIABLES
  token,            \* Authenticator.token is there
  symbolsKept,      \* symbols of the iterators
  chunkPos,         \* CandleIterator.chunkPos
  buffers,          \* CandleIterator.buffer from bufPos on
  heap,             \* streamCoordinator.heap
  round             \* history: number of the attempt at the stream

growwVars == <<token, symbolsKept, chunkPos, buffers, heap, round>>
GrowwInit ==
  /\ token \in BOOLEAN /\ symbolsKept = {} /\ chunkPos = <<>> /\ buffers = <<>> /\ heap = {} /\ round = 0

(* chunkRange: windows of the longest duration, a second apart.            *)
ChunkRange(start, end) ==
  [n \in 1 .. (end - start) \div MaxDuration + 1 |->
     [start |-> start + (n - 1) * MaxDuration, end |-> Min({start + n * MaxDuration - 1, end})]]
Chunks == ChunkRange(Period.start, Period.end)

(* mapGrowwCandles: of the rows answered those that can be read, the first *)
(* of each time.                                                           *)
Nth(positions, k) == CHOOSE n \in positions : Cardinality({m \in positions : m <= n}) = k
MapCandles(rows, answered) ==
  LET readable == {n \in answered : rows[n].kind = "row"}
      first == {n \in readable : \A m \in readable : rows[m].at = rows[n].at => n <= m}
  IN [k \in 1 .. Cardinality(first) |-> rows[Nth(first, k)].at]
FetchHistoricalCandles(s, window) ==
  MapCandles(Raw[s], {n \in DOMAIN Raw[s] : window.start <= Raw[s][n].at /\ Raw[s][n].at <= window.end})

-----------------------------------------------------------------------------
(* Connect authenticates first, and may fail to.                           *)
GrowwConnect ==
  /\ Spends /\ token' = TRUE /\ ConnectedAt([at |-> "looking"])
  /\ UNCHANGED <<subscribed, channel, published, gatewayOpen, symbolsKept, chunkPos, buffers, heap, round>>

GMoves(next) == loop' = next /\ UNCHANGED <<connected, subscribed, channel, published, gatewayOpen>>
GQuiet == spent' = spent

(* Without subscriptions the loop waits, for the stop too. The coordinator *)
(* begins with an empty heap and an iterator for every symbol.             *)
GrowwResets ==
  /\ loop.at = "looking" /\ subscribed # {}
  /\ symbolsKept' = subscribed /\ chunkPos' = [s \in subscribed |-> 1]
  /\ buffers' = [s \in subscribed |-> <<>>] /\ heap' = {} /\ round' = round + 1
  /\ GMoves([at |-> "priming", left |-> subscribed]) /\ GQuiet /\ UNCHANGED token
GrowwStops ==
  /\ ~connected
  /\ \/ loop.at \in {"streaming", "sending", "failed"}
     \/ loop.at = "looking" /\ subscribed = {}
  /\ GMoves([at |-> "gone"]) /\ GQuiet /\ UNCHANGED growwVars

(* Prime asks every iterator once, Next the one of the candle it pops.     *)
Primes ==
  /\ loop.at = "priming" /\ GQuiet /\ UNCHANGED growwVars
  /\ IF loop.left = {} THEN GMoves([at |-> "streaming"])
     ELSE \E s \in loop.left :
            GMoves([at |-> "iterating", symbol |-> s, then |-> [at |-> "priming", left |-> loop.left \ {s}]])
PopsAny == heap
PopsEarliest == {c \in heap : \A d \in heap : c.at <= d.at}
Pops ==
  /\ loop.at = "streaming" /\ connected /\ GQuiet
  /\ IF heap = {} THEN GMoves([at |-> "gone"]) /\ UNCHANGED growwVars
     ELSE \E c \in PopsEarliest :
            /\ heap' = heap \ {c}
            /\ GMoves([at |-> "iterating", symbol |-> c.symbol,
                       then |-> [at |-> "sending", entry |-> [symbol |-> c.symbol, at |-> c.at, round |-> round]]])
            /\ UNCHANGED <<token, symbolsKept, chunkPos, buffers, round>>

(* CandleIterator.Next: from the buffer, or from the next window.          *)
Iterates ==
  /\ loop.at = "iterating" /\ GQuiet
  /\ LET s == loop.symbol IN
       IF buffers[s] # <<>>
       THEN /\ heap' = heap \union {[symbol |-> s, at |-> Head(buffers[s])]}
            /\ buffers' = [buffers EXCEPT ![s] = Tail(@)]
            /\ GMoves(loop.then) /\ UNCHANGED <<token, symbolsKept, chunkPos, round>>
       ELSE IF chunkPos[s] > Len(Chunks)
            THEN GMoves(loop.then) /\ UNCHANGED growwVars
            ELSE /\ chunkPos' = [chunkPos EXCEPT ![s] = @ + 1]
                 /\ GMoves([at |-> "requesting", symbol |-> s, then |-> loop.then, attempt |-> 1])
                 /\ UNCHANGED <<token, symbolsKept, buffers, heap, round>>

(* Client.do, in any state of the provider: the request is made up to      *)
(* RetryAttempts times again if it may help, and its failure then ends the *)
(* attempt at the stream, with the candle that was popped.                 *)
Back == [at |-> "iterating", symbol |-> loop.symbol, then |-> loop.then]
RequestAnswered ==
  /\ loop.at = "requesting" /\ GQuiet
  /\ buffers' = [buffers EXCEPT ![loop.symbol] = FetchHistoricalCandles(loop.symbol, Chunks[chunkPos[loop.symbol] - 1])]
  /\ GMoves(Back) /\ UNCHANGED <<token, symbolsKept, chunkPos, heap, round>>
GivesUp == [at |-> IF loop.then.at = "priming" THEN "failed" ELSE "looking"]
RequestFails ==
  /\ loop.at = "requesting" /\ Spends
  /\ \E retryable \in BOOLEAN :
       GMoves(IF retryable /\ loop.attempt <= RetryAttempts
              THEN [at |-> "requesting", symbol |-> loop.symbol, then |-> loop.then, attempt |-> loop.attempt + 1]
              ELSE GivesUp)
  /\ UNCHANGED growwVars
BeginsAgain ==
  /\ loop.at = "failed" /\ GMoves([at |-> "looking"]) /\ GQuiet /\ UNCHANGED growwVars

GrowwSends == loop.at = "sending" /\ Sends(loop.entry, [at |-> "streaming"]) /\ UNCHANGED growwVars

GrowwSteps == GrowwResets \/ GrowwStops \/ Primes \/ Pops \/ Iterates \/ RequestAnswered \/ BeginsAgain \/ GrowwSends

-----------------------------------------------------------------------------
InRound(r) == {n \in DOMAIN published : published[n].round = r}
Available(s) == {Raw[s][n].at : n \in {m \in DOMAIN Raw[s] : Raw[s][m].kind = "row"}} \intersect (Period.start .. Period.end)

(* Within an attempt the candles of all symbols are sent in the order of   *)
(* time, each at most once.                                                *)
GrowwMerged ==
  \A i, j \in InRound(round) : i < j =>
    /\ published[i].at <= published[j].at
    /\ published[i].at = published[j].at => published[i].symbol # published[j].symbol

(* A stream that ran to its end has sent every candle of the period for    *)
(* every symbol it was begun with, whatever failed on the way.             *)
GrowwComplete ==
  (loop.at = "gone" /\ connected) =>
    {<<published[n].symbol, published[n].at>> : n \in InRound(round)}
      = UNION {{<<s, t>> : t \in Available(s)} : s \in symbolsKept}

(* A connected provider with subscriptions comes to the end of its period  *)
(* once failures cease.                                                    *)
GrowwEnds == <>[](connected /\ subscribed # {} /\ gatewayOpen) => <>[](loop.at = "gone")
=============================================================================
