CONSTANTS
  NumProcesses  <- MCNumProcesses
  MaxPriority   <- MCMaxPriority
  ShellPriority <- MCShellPriority
  ExitCodes     <- MCExitCodes
  MaxQueueLen   <- MCMaxQueueLen

SPECIFICATION Spec

INVARIANT TypeOK
INVARIANT NoDanglingParent
INVARIANT RunnableIsQueued
PROPERTY ImplementsLifecycle
