----------------------------- MODULE Processes -----------------------------
(***************************************************************************)
(* The process table, the run-queues and the process system calls of the  *)
(* kernel: syscall_fork, syscall_exit, syscall_wait and resolve_exit_wait *)
(* (src/src/syscall.c), with the timer tick that runs select_new_process  *)
(* (scheduler.c is not part of src/; it is modelled from spec.md 4.G).    *)
(*                                                                         *)
(* One CPU, interrupts off in the kernel: every system call is one atomic *)
(* step of the current process, and a timer tick may fall between any    *)
(* two of them.  Registers are kept only where the ABI uses them: EAX,    *)
(* EBX and ECX of each process's saved register frame.                    *)
(***************************************************************************)
EXTENDS Integers, Sequences, SequencesExt, FiniteSets, FiniteSetsExt

CONSTANTS
  NumProcesses,   \* NUM_PROCESSES: size of the process table
  MaxPriority,    \* MAX_PRIORITY: run-queues are 0..MaxPriority
  ShellPriority,  \* priority at which scheduler_install enqueues the shell
  ExitCodes,      \* values a process may pass to exit in EBX
  MaxQueueLen     \* model bound: length of a run-queue (queue_t is unbounded)

ASSUME NumProcesses >= 3 /\ MaxPriority >= 1
ASSUME ShellPriority \in 0..MaxPriority /\ ExitCodes \subseteq Nat
ASSUME MaxQueueLen >= NumProcesses

Pids       == 0..(NumProcesses - 1)
Idle       == 0     \* process 0, the kernel idle thread: never traps
InitPid    == 1     \* syscall_exit hands orphans to pid 1 (the shell)
Priorities == 0..MaxPriority
\* EBX is a full register: fork may be asked for any priority, including
\* one above MAX_PRIORITY; one such value stands for all of them.
ForkPrioArgs == 0..(MaxPriority + 1)
States     == {"Free", "Runnable", "Waiting", "Zombie"}
NoSlot     == NumProcesses   \* the value of id when the search finds none

VARIABLES
  curr,       \* state->curr_pid
  pstate,     \* state->processes[p].state
  parent,     \* state->processes[p].parent_id
  prio,       \* state->processes[p].prio
  regs,       \* EAX, EBX, ECX of state->processes[p].context.regs
  runqueues   \* state->runqueues[q], FIFO of pids

vars == <<curr, pstate, parent, prio, regs, runqueues>>

RegValues == Pids \cup ForkPrioArgs \cup ExitCodes

TypeOK ==
  /\ curr \in Pids
  /\ pstate \in [Pids -> States]
  /\ parent \in [Pids -> Pids]
  /\ prio \in [Pids -> Priorities]
  /\ regs \in [Pids -> [eax : 0..2, ebx : RegValues, ecx : RegValues]]
  /\ runqueues \in [Priorities -> BoundedSeq(Pids, MaxQueueLen)]

-----------------------------------------------------------------------------
(* scheduler_install (spec 4.G): every slot Free and zero-filled, process *)
(* 0 (idle) and the shell (pid 1, child of 0) Runnable, the shell queued.  *)
Init ==
  /\ curr = Idle
  /\ pstate = [p \in Pids |-> IF p \in {Idle, InitPid} THEN "Runnable" ELSE "Free"]
  /\ parent = [p \in Pids |-> Idle]
  /\ prio = [p \in Pids |-> IF p = InitPid THEN ShellPriority ELSE 0]
  /\ regs = [p \in Pids |-> [eax |-> 0, ebx |-> 0, ecx |-> 0]]
  /\ runqueues = [q \in Priorities |-> IF q = ShellPriority THEN <<InitPid>> ELSE <<>>]

(* The current process is executing user code and may trap: the idle      *)
(* kernel thread never does, and a process suspends once it is no longer  *)
(* Runnable (spec 5, suspension points).                                  *)
CanTrap == curr # Idle /\ pstate[curr] = "Runnable"

(* The user stub loads the call number in EAX and its argument in EBX.   *)
Trap(n, arg) == [regs EXCEPT ![curr] = [@ EXCEPT !.eax = n, !.ebx = arg]]

-----------------------------------------------------------------------------
(* syscall_fork: linear search for the first Free slot.                  *)
FirstFree == IF \E id \in Pids : pstate[id] = "Free"
             THEN Min({id \in Pids : pstate[id] = "Free"})
             ELSE NoSlot

(* No free slot, or a child priority above the caller's: EAX = 0.        *)
ForkRefused(cp) ==
  /\ FirstFree = NoSlot \/ cp > prio[curr]
  /\ regs' = [Trap(1, cp) EXCEPT ![curr].eax = 0]
  /\ UNCHANGED <<curr, pstate, parent, prio, runqueues>>

(* Mutation: the id == NUM_PROCESSES test of the full table is dropped.  *)
ForkAcceptedWhenFull(cp) ==
  LET id == FirstFree IN
  /\ cp <= prio[curr]
  /\ Len(runqueues[cp]) < MaxQueueLen
  /\ parent' = [parent EXCEPT ![id] = curr]
  /\ pstate' = [pstate EXCEPT ![id] = "Runnable"]
  /\ runqueues' = [runqueues EXCEPT ![cp] = Append(@, id)]
  /\ regs' = [Trap(1, cp) EXCEPT ![id].eax = 2, ![id].ebx = curr,
                                 ![curr].eax = 1, ![curr].ebx = id]
  /\ UNCHANGED <<curr, prio>>

(* The slot is taken over as it is: parent and state are set, the child's *)
(* registers get EAX = 2 and EBX = parent, the child is queued at cp, but  *)
(* the slot's prio field is left as its previous occupant (or the zeroed  *)
(* table) had it.                                                          *)
ForkAccepted(cp) ==
  LET id == FirstFree IN
  /\ id # NoSlot
  /\ cp <= prio[curr]
  /\ Len(runqueues[cp]) < MaxQueueLen
  /\ parent' = [parent EXCEPT ![id] = curr]
  /\ pstate' = [pstate EXCEPT ![id] = "Runnable"]
  /\ runqueues' = [runqueues EXCEPT ![cp] = Append(@, id)]
  /\ regs' = [Trap(1, cp) EXCEPT ![id].eax = 2, ![id].ebx = curr,
                                 ![curr].eax = 1, ![curr].ebx = id]
  /\ UNCHANGED <<curr, prio>>

SyscallFork(cp) == CanTrap /\ (ForkRefused(cp) \/ ForkAccepted(cp))

-----------------------------------------------------------------------------
(* Mutation: the drained queue q, not temp, is stored back.             *)
RemovePidDrained(q, child) == <<>>

(* resolve_exit_wait: the loop that drains queue q into temp and keeps   *)
(* every pid but the child.                                               *)
RemovePid(q, child) == Remove(q, child)

(* resolve_exit_wait(p, c) applied to the process states ps and register *)
(* frames rg the calling handler has reached: c becomes Free and leaves   *)
(* the queue of ITS prio field, p becomes Runnable with EAX = 1, EBX = c   *)
(* and ECX = the value c passed to exit in EBX.                           *)
ResolveExitWait(ps, rg, p, c) ==
  /\ pstate' = [ps EXCEPT ![c] = "Free", ![p] = "Runnable"]
  /\ runqueues' = [runqueues EXCEPT ![prio[c]] = RemovePid(@, c)]
  /\ regs' = [rg EXCEPT ![p].eax = 1, ![p].ebx = c, ![p].ecx = rg[c].ebx]

(* Mutation: the reparenting loop stops one slot short of the table end. *)
ReparentedSkipLast(me) ==
  [i \in Pids |-> IF parent[i] = me /\ i < NumProcesses - 1 THEN InitPid ELSE parent[i]]

(* syscall_exit: every process whose parent_id is the caller (Free slots *)
(* included) is handed to pid 1.                                         *)
Reparented(me) == [i \in Pids |-> IF parent[i] = me THEN InitPid ELSE parent[i]]

(* syscall_exit: the caller becomes a Zombie; it is reaped at once when  *)
(* its parent is already Waiting, otherwise it stays a Zombie (and stays  *)
(* in its run-queue).                                                     *)
SyscallExit(v) ==
  LET me  == curr
      ps  == [pstate EXCEPT ![me] = "Zombie"]
      pp  == Reparented(me)[me]
  IN /\ CanTrap
     /\ parent' = Reparented(me)
     /\ \/ /\ ps[pp] = "Waiting"
           /\ ResolveExitWait(ps, Trap(0, v), pp, me)
        \/ /\ ps[pp] # "Waiting"
           /\ pstate' = ps
           /\ regs' = Trap(0, v)
           /\ UNCHANGED runqueues
     /\ UNCHANGED <<curr, prio>>

(* syscall_wait: the caller is marked Waiting, then the table is scanned *)
(* in pid order for slots whose parent_id is the caller, whatever their  *)
(* state; the first Zombie among them is reaped.                         *)
Children(me) == {id \in Pids : parent[id] = me}

(* Mutation: the proc.state == Zombie test is dropped.                    *)
ZombieChildrenAny(me) == Children(me)

ZombieChildren(me) == {id \in Children(me) : pstate[id] = "Zombie"}

SyscallWait ==
  LET me      == curr
      ps      == [pstate EXCEPT ![me] = "Waiting"]
      zombies == ZombieChildren(me)
  IN /\ CanTrap
     /\ \/ /\ zombies # {}
           /\ ResolveExitWait(ps, Trap(2, regs[me].ebx), me, Min(zombies))
        \/ /\ Children(me) = {}
           /\ regs' = [Trap(2, regs[me].ebx) EXCEPT ![me].eax = 0]
           /\ UNCHANGED <<pstate, runqueues>>
        \/ /\ Children(me) # {}
           /\ zombies = {}
           /\ pstate' = ps
           /\ regs' = Trap(2, regs[me].ebx)
           /\ UNCHANGED runqueues
     /\ UNCHANGED <<curr, parent, prio>>

-----------------------------------------------------------------------------
(* Timer tick: select_new_process and switch_to_process (spec 4.G).      *)
(* Priorities are scanned from the highest, the one fork protects (a     *)
(* child may not exceed its parent); the first queue whose head is       *)
(* Runnable is rotated and its head runs; otherwise the idle process.    *)
Eligible == {q \in Priorities : runqueues[q] # <<>> /\ pstate[Head(runqueues[q])] = "Runnable"}

SelectNewProcess ==
  /\ \/ /\ Eligible # {}
        /\ LET q == Max(Eligible) IN
           /\ curr' = Head(runqueues[q])
           /\ runqueues' = [runqueues EXCEPT ![q] = Append(Tail(@), Head(@))]
     \/ /\ Eligible = {}
        /\ curr' = Idle
        /\ UNCHANGED runqueues
  /\ UNCHANGED <<pstate, parent, prio, regs>>

Next ==
  \/ SelectNewProcess
  \/ \E cp \in ForkPrioArgs : SyscallFork(cp)
  \/ \E v \in ExitCodes : SyscallExit(v)
  \/ SyscallWait

(* The timer fires at SWITCH_FREQ whatever the processes do; user code   *)
(* is under no obligation to trap.                                        *)
Spec == Init /\ [][Next]_vars /\ WF_vars(SelectNewProcess)

-----------------------------------------------------------------------------
(* Refinement: the parent_id of a Free slot is left over from its last    *)
(* occupant and means nothing; the abstract life cycle sees Kernel there. *)
LiveParent == [p \in Pids |-> IF pstate[p] = "Free" THEN Idle ELSE parent[p]]

Lifecycle == INSTANCE ProcessLifecycle
               WITH Kernel <- Idle, pstate <- pstate, parent <- LiveParent

-----------------------------------------------------------------------------
(* PROPERTIES                                                              *)

(* The system calls implement the abstract life cycle: a slot is taken   *)
(* only by fork of a running process; only wait blocks; a process is      *)
(* freed only by exit into a waiting parent or by its running parent's    *)
(* wait on it as a Zombie; a Waiting process is released only by the     *)
(* exit of one of its children; parents change only by fork and by the    *)
(* hand-over of orphans to pid 1.                                         *)
ImplementsLifecycle == Lifecycle!LSpec

(* No live process has a Free parent: syscall_exit must hand every child *)
(* of the exiting process to pid 1 before that process can be reaped by  *)
(* its own parent's wait and its slot reused by fork.                     *)
NoDanglingParent ==
  \A p \in Pids \ {Idle} :
    pstate[p] # "Free" => pstate[parent[p]] # "Free"

(* Every Runnable process (other than idle) is in some run-queue, so that *)
(* select_new_process can reach it: fork must queue the child, and the    *)
(* queue filtering of resolve_exit_wait must keep every other pid.        *)
RunnableIsQueued ==
  \A p \in Pids \ {Idle} :
    pstate[p] = "Runnable" => \E q \in Priorities : Contains(runqueues[q], p)

(* Spec 4.H: wait with no children at all returns EAX = 0 at once; so a  *)
(* process is only left Waiting while it has a child in the table.       *)
NoChildlessWait ==
  \A p \in Pids :
    pstate[p] = "Waiting" => \E c \in Pids : parent[c] = p /\ pstate[c] # "Free"

(* Spec 4.G, 8 and scenario 2: a Runnable process that is the only       *)
(* Runnable one besides idle is eventually run by select_new_process,    *)
(* whatever syscall_exit and syscall_wait left in the run-queues (both   *)
(* mark the caller Zombie or Waiting and leave it queued).               *)
LoneRunnableRuns ==
  \A p \in Pids \ {Idle} :
    (pstate[p] = "Runnable" /\ \A q \in Pids \ {Idle, p} : pstate[q] # "Runnable")
      ~> curr = p

=============================================================================
