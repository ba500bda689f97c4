------------------------------ MODULE MCPipeline ------------------------------
(* Three pipelines of three stages, as the senders of the protocol have, one of   *)
(* them recycled; or the platform under them, used by applications that need two  *)
(* of its parts at a time (the shutdown is all they share).  A behaviour is of    *)
(* the one or of the other: where no part is used there is no loop.               *)
EXTENDS Pipeline, Platform, TLC

CONSTANTS p1, p2, p3

MCStarts == p1 :> 2 @@ p2 :> 1 @@ p3 :> 1
MCUsedTogether == {{}, {"executors", "workers"}, {"executors", "sockets"},
                   {"timers", "workers"}, {"timers", "sockets"}}

MCInit == Init /\ PlatformInit

OnPipelines == uses = {} /\ Next /\ UNCHANGED platformVars
OnPlatform == PlatformNext /\ UNCHANGED vars

MCNext == OnPipelines \/ OnPlatform

PipelineFairness ==
    /\ WF_vars(RunStage) /\ WF_vars(StageReturns) /\ WF_vars(AfterDrain)
    /\ \A p \in Pipelines : WF_vars(~busy /\ CallNext(p))

MCSpec == /\ MCInit /\ [][MCNext]_<<vars, platformVars>>
          /\ PipelineFairness /\ PlatformFairness
===============================================================================
