----------------------------- MODULE MCPipeline -----------------------------
(* Small instances of Pipeline for TLC.                                    *)
EXTENDS Pipeline

(* A bound: a handler's own upsert comes while a run is still probing.     *)
PromptUpsert ==
    \A q \in Rooms : initial[q] = Nil \/ \E r \in Runs : run[r].at = "probe"
=============================================================================
