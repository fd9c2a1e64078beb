--------------------------- MODULE MCBacktestRuns ---------------------------
(* The strategies of the batch beside which BacktestRuns is compacted.     *)
EXTENDS BacktestRuns

OneStrategy == <<"x">>
=============================================================================
