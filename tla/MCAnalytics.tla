---------------------------- MODULE MCAnalytics ----------------------------
(* The instance of Analytics that TLC checks.                               *)
EXTENDS Analytics

\* Widths 2 and 4, the latter aligned to a midnight that is 1 off UTC.
MCTimeframes == {2, 4}
MCPrices == {2, 5, 60, 120, 300}
MCVolumes == {0, 1, 3}

\* Three ticks in any order with any volumes; a market that moves slowly, with
\* every rule; and one that outruns the engines behind it.
MCMarkets ==
  { [ticks |-> 3, until |-> 6, prices |-> {2, 5}, volumes |-> MCVolumes, steady |-> FALSE,
     slow |-> TRUE, others |-> {}],
    [ticks |-> 6, until |-> 10, prices |-> {60, 120, 300}, volumes |-> {1}, steady |-> TRUE,
     slow |-> TRUE, others |-> {"rsi", "macd", "bollinger"}],
    [ticks |-> 4, until |-> 6, prices |-> {60, 300}, volumes |-> {1}, steady |-> TRUE,
     slow |-> FALSE, others |-> {}] }
=============================================================================
