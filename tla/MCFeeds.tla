------------------------------- MODULE MCFeeds -------------------------------
(* Instances of Feeds for TLC: three recorded events, two of one time; a    *)
(* file with a malformed row, one outside of the period and two symbols    *)
(* that match it; two windows of candles with a duplicate and a bad row.   *)
EXTENDS Feeds

EventTimes == <<1, 3, 3>>
Row(at, kind) == [at |-> at, kind |-> kind]
FileRows == <<Row(1, "row"), Row(2, "row"), Row(2, "malformed"), Row(4, "row"), Row(9, "row")>>
Asked == [start |-> 0, end |-> 3]
Answers == [s \in Symbols |-> IF s = "NIFTY" THEN <<Row(0, "row"), Row(1, "row"), Row(1, "row"), Row(2, "row")>>
                              ELSE <<Row(1, "row"), Row(2, "malformed"), Row(3, "row")>>]
==============================================================================
