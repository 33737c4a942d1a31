---------------------------- MODULE MCResearchFlow ----------------------------
(* Instances of ResearchFlow for TLC: the experiment engine with two       *)
(* workers, one slot and a matrix of two runs, and the walk-forward engine *)
(* with two windows of two training runs, feeding Monte Carlo and research.*)
EXTENDS ResearchFlow

Ranges == [ema_fast |-> {5, 9}, ema_slow |-> {21}, rsi_period |-> {}]
Experimenting == {"experiments"}
Walking == {"walkforward"}
Reporting == {"walkforward", "montecarlo", "research"}
SomeEngines == {Experimenting, Walking, Reporting}
Plan(days, step) == [days |-> days, train |-> 2, validate |-> 1, step |-> step]
Plans == [c \in SomeEngines |-> IF c = Walking THEN {Plan(4, 1), Plan(5, 3)} ELSE {Plan(3, 1)}]
Gain == [trades |-> 3, wins |-> 2, net |-> 6]
Loss == [trades |-> 2, wins |-> 1, net |-> 0 - 4]
NoTrade == [trades |-> 0, wins |-> 0, net |-> 0]
TotalsReported == {Gain, Loss, NoTrade}
Scored1(score, metrics) == [score |-> score, metrics |-> metrics]
Scores == [c \in SomeEngines |-> IF c = Reporting THEN {Scored1(60, m) : m \in {Gain, Loss, NoTrade}}
                                 ELSE {Scored1(n, Gain) : n \in {40, 60}}]
ReportBound == [c \in SomeEngines |-> IF c = Experimenting THEN 2 ELSE 3]
FaultBound == [c \in SomeEngines |-> 1]
==============================================================================
