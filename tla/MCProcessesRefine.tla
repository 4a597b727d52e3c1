------------------------- MODULE MCProcessesRefine -------------------------
(* The refinement run: the same four slots and two priorities as         *)
(* MCProcesses, one exit code (the life cycle does not look at it).      *)
EXTENDS Processes

MCNumProcesses  == 4
MCMaxPriority   == 1
MCShellPriority == 1
MCExitCodes     == {7}
MCMaxQueueLen   == 4
=============================================================================
