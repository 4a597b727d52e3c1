CONSTANTS
  WordBits <- MCWordBits
  WordsPerUnit <- MCWordsPerUnit
  CounterMod <- MCCounterMod
  NumBlocks <- MCNumBlocks
  UsedBlocks <- MCUsedBlocks
SPECIFICATION Spec
\* throw() halts the kernel: a state with panicked = TRUE has no successor
CHECK_DEADLOCK FALSE
INVARIANT TypeOK
