-------------------------- MODULE ProcessLifecycle --------------------------
(***************************************************************************)
(* What the process system calls promise, without scheduler, run-queues  *)
(* or registers (spec 3 "Lifecycle", 4.H): a slot is taken by a spawn,    *)
(* a process blocks in wait, dies as a Zombie or is reaped at once when   *)
(* its parent is already waiting, and a Zombie is freed only by a wait of *)
(* its own parent, which is then running again.  The children of a dying *)
(* process are handed to the init process.  The parent of a Free slot is  *)
(* meaningless and is kept at Kernel.                                     *)
(***************************************************************************)
EXTENDS FiniteSets

CONSTANTS
  Pids,      \* process slots
  Kernel,    \* the kernel idle process: never spawns, exits or waits
  InitPid    \* the process that inherits orphans

VARIABLES pstate, parent

lvars == <<pstate, parent>>

LTypeOK ==
  /\ pstate \in [Pids -> {"Free", "Runnable", "Waiting", "Zombie"}]
  /\ parent \in [Pids -> Pids]

LInit ==
  /\ pstate = [p \in Pids |-> IF p \in {Kernel, InitPid} THEN "Runnable" ELSE "Free"]
  /\ parent = [p \in Pids |-> Kernel]

User(p) == p # Kernel /\ pstate[p] = "Runnable"

(* Orphans of c go to InitPid.                                            *)
Rehomed(c) == [x \in Pids |-> IF parent[x] = c THEN InitPid ELSE parent[x]]

Spawn(p, c) ==
  /\ User(p) /\ pstate[c] = "Free"
  /\ pstate' = [pstate EXCEPT ![c] = "Runnable"]
  /\ parent' = [parent EXCEPT ![c] = p]

Block(p) ==
  /\ User(p)
  /\ pstate' = [pstate EXCEPT ![p] = "Waiting"]
  /\ UNCHANGED parent

(* Exit while the parent is not waiting: a Zombie remains.               *)
Die(c) ==
  /\ User(c) /\ pstate[parent[c]] # "Waiting"
  /\ pstate' = [pstate EXCEPT ![c] = "Zombie"]
  /\ parent' = Rehomed(c)

(* Exit while the parent is waiting: the parent is released at once.     *)
DieReaped(c) ==
  /\ User(c) /\ pstate[parent[c]] = "Waiting"
  /\ pstate' = [pstate EXCEPT ![c] = "Free", ![parent[c]] = "Runnable"]
  /\ parent' = [Rehomed(c) EXCEPT ![c] = Kernel]

(* A running parent's wait frees one of its Zombie children.             *)
Reap(p, c) ==
  /\ User(p) /\ pstate[c] = "Zombie" /\ parent[c] = p
  /\ pstate' = [pstate EXCEPT ![c] = "Free"]
  /\ parent' = [parent EXCEPT ![c] = Kernel]

LNext ==
  \E p, c \in Pids :
    Spawn(p, c) \/ Block(p) \/ Die(c) \/ DieReaped(c) \/ Reap(p, c)

LSpec == LInit /\ [][LNext]_lvars

=============================================================================
