--------------------------- MODULE MCSchedulerLinks ---------------------------
(* The instance of SchedulerLinks that TLC checks: the same processes and    *)
(* semaphores as MCScheduler.                                                *)
EXTENDS SchedulerLinks, TLC

CONSTANTS idle, a, b, urgent, input, mutex, nil

MCProcesses == {idle, a, b, urgent}
MCSemaphores == {input, mutex}
MCExternal == {input}
MCPriority == idle :> 1 @@ a :> 2 @@ b :> 2 @@ urgent :> 3
=============================================================================
