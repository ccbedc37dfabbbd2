----------------------------- MODULE MCMissions -----------------------------
(***************************************************************************)
(* The plan of ceo/planner.py with two agents able to do every task.       *)
(***************************************************************************)
EXTENDS Missions

CONSTANT MaxFailures    \* bound: attempts that fail

MCTasks == <<"product", "supplier", "legal", "finance", "synthesis">>
MCParents ==
    [t \in Range(MCTasks) |->
        CASE t = "product" -> {}
          [] t \in {"supplier", "legal"} -> {"product"}
          [] t = "finance" -> {"product", "supplier"}
          [] t = "synthesis" -> {"product", "supplier", "finance", "legal"}]
MCFaultTasks == {"supplier"}
MCAgents == <<"a", "b">>

\* Few enough attempts fail that the exploration ends.
BoundFailures ==
    LET failed(runs) == UNION {{<<t, i>> : i \in {j \in DOMAIN runs[t] : ~runs[t][j].ok}} : t \in Plan}
    IN Cardinality(failed(log)) +
       (IF work.mode = "none" THEN 0 ELSE Cardinality(failed(work.runs))) <= MaxFailures
=============================================================================
