----------------------------- MODULE MCScheduler -----------------------------
(* The instance of Scheduler that TLC checks: a background process, two      *)
(* processes of the same priority and one that is more urgent than both.     *)
EXTENDS Scheduler, TLC

CONSTANTS idle, a, b, urgent, input, mutex, nil

MCProcesses == {idle, a, b, urgent}
MCSemaphores == {input, mutex}
MCExternal == {input}
MCPriority == idle :> 1 @@ a :> 2 @@ b :> 2 @@ urgent :> 3
=============================================================================
