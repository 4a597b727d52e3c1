--------------------------- MODULE MCProcessesLone ---------------------------
(* Four slots with the shell at priority 0, the highest fork can give: every *)
(* child is queued at 0, which is also the prio field fork leaves in a slot, *)
(* so the stale-priority defect of fork cannot occur and a queue holds only *)
(* the entries exit and wait leave behind.                                  *)
EXTENDS Processes

MCNumProcesses  == 4
MCMaxPriority   == 1
MCShellPriority == 0
MCExitCodes     == {7}
MCMaxQueueLen   == 4
=============================================================================
