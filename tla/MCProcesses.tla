---------------------------- MODULE MCProcesses ----------------------------
(* Process table of four slots: idle, the shell and two more, so that the *)
(* table fills, slots are reused after a reap, and a grandchild exists.   *)
(* Two priorities, the shell at the higher one so that fork can pick      *)
(* either; two exit codes distinct from every pid and priority.          *)
EXTENDS Processes

MCNumProcesses  == 4
MCMaxPriority   == 1
MCShellPriority == 1
MCExitCodes     == {7, 8}
MCMaxQueueLen   == 4
=============================================================================
