------------------------------ MODULE MCPipeline ------------------------------
(* A pipeline over the task queue, with TLC's values for its parameters. *)
EXTENDS Pipeline

MCAgents == {"research", "converter", "backtest", "forward_test"}
MCDefaultStages == <<"research", "converter", "backtest", "forward_test">>
MCDefaultGates == <<"none", "none", "metric", "human">>
MCRefinementStages == <<"converter", "backtest">>
MCRefinementGates == <<"none", "metric">>
MCApiTasks == {[agent |-> "backtest", priority |-> 0]}
===============================================================================
