CONSTANTS
  NumProcesses  <- MCNumProcesses
  MaxPriority   <- MCMaxPriority
  ShellPriority <- MCShellPriority
  ExitCodes     <- MCExitCodes
  MaxQueueLen   <- MCMaxQueueLen

SPECIFICATION Spec

PROPERTY LoneRunnableRuns
