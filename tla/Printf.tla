-------------------------------- MODULE Printf --------------------------------
(***************************************************************************)
(* new_process (src/src/process.c) and the printf system call              *)
(* (syscall_printf, src/src/syscall.c) with the page-directory calls they  *)
(* make: new_page_dir and switch_page_directory (src/src/paging.c).        *)
(*                                                                          *)
(* syscall_printf switches to the caller's context.page_dir, walks the     *)
(* format string at EBX byte by byte, pops an argument from the user      *)
(* stack (useresp + 4*nb_args) for each directive that takes one, writes   *)
(* to the screen, and switches back to kernel_directory.  Each call is one *)
(* step: it runs with interrupts off.  A string and its stack are read     *)
(* through the page directory in CR3; when that is not a directory the     *)
(* kernel made, what the MMU reads is not determined: the call may fault   *)
(* (page_fault_handler throws) or read other bytes.                        *)
(*                                                                          *)
(* Bytes are integers 0..255.  char is signed in the i386 ABI, so c is     *)
(* -62 for byte 0xc2 when CharSigned.  Formatting a number, a string or a *)
(* colour is not modelled: an output token names the directive and the     *)
(* argument it consumed.                                                    *)
(***************************************************************************)
EXTENDS Integers, Sequences

CONSTANTS
  Procs,        \* pids of processes that new_process builds
  Fmts,         \* NUL-terminated format strings the callers pass
  After,        \* the bytes that follow a string in memory
  StackArgs,    \* the words on the user stack from useresp up
  Garbage,      \* a format string as read through a foreign directory
  CharSigned    \* whether the build's char is signed (i386: yes)

KernelDir == "kernel_directory"
NULL == "NULL"
DirOf(p) == <<"dir", p>>        \* what new_page_dir allocates for p
NoProc == "none"              \* no printf yet; a slot not built yet

VARIABLES
  pageDir,    \* processes[p].context.page_dir
  allocated,  \* directories mem_alloc_aligned returned (history)
  cr3,        \* current_directory, i.e. CR3
  fg, bg,     \* foreground and background (printer.c)
  out,        \* what the last printf wrote
  caller,     \* who made the last printf call
  readDir,    \* the directory in CR3 while it read the user's memory
  halted      \* throw was called

vars == <<pageDir, allocated, cr3, fg, bg, out, caller, readDir, halted>>

(* new_page_dir: allocates and clears a directory for p, returns NULL.    *)
NewPageDir(p) == [dir |-> NULL, made |-> DirOf(p)]

(* c == 0xc2 with c a char: never true when char is signed.              *)
IsByte(c, v) == IF CharSigned /\ c >= 128 THEN c - 256 = v ELSE c = v

ArgDirectives == {100, 117, 120, 104, 99, 115}   \* d u x h c s
(* An output token: the byte of the directive (d u x h c s), 37 for '%',  *)
(* 194/195 for a glyph of utf8_c2/utf8_c3, 0 for a character written as is.*)
Tok(kind, v) == [kind |-> kind, v |-> v]
Arg(n) == IF n < Len(StackArgs) THEN StackArgs[n + 1] ELSE "stack"

(* The while loop of syscall_printf over memory m from index read (0-based)*)
(* with nb_args arguments popped, r the result so far.                     *)
RECURSIVE Loop(_, _, _, _)
Loop(m, read, nb, r) ==
  LET At(i) == IF i < Len(m) THEN m[i + 1] ELSE 0
      c == At(read)
      d == At(read + 1)
  IN CASE c = 0 -> r
       [] c = 37 /\ d \in ArgDirectives ->
            Loop(m, read + 2, nb + 1, [r EXCEPT !.out = Append(@, Tok(d, Arg(nb)))])
       [] c = 37 /\ d = 102 ->
            Loop(m, read + 2, nb + 1, [r EXCEPT !.fg = Arg(nb)])
       [] c = 37 /\ d = 98 ->
            Loop(m, read + 2, nb + 1, [r EXCEPT !.bg = Arg(nb)])
       [] c = 37 /\ d = 37 ->
            Loop(m, read + 2, nb, [r EXCEPT !.out = Append(@, Tok(0, 37))])
       [] c = 37 -> [r EXCEPT !.throw = TRUE]
       [] IsByte(c, 194) ->
            Loop(m, read + 2, nb, [r EXCEPT !.out = Append(@, Tok(194, d))])
       [] IsByte(c, 195) ->
            Loop(m, read + 2, nb, [r EXCEPT !.out = Append(@, Tok(195, d))])
       [] OTHER ->
            Loop(m, read + 1, nb, [r EXCEPT !.out = Append(@, Tok(0, c))])

Format(m) == Loop(m, 0, 0, [out |-> <<>>, fg |-> fg, bg |-> bg, throw |-> FALSE])

Init ==
  /\ pageDir = [p \in Procs |-> NoProc]
  /\ allocated = {KernelDir}
  /\ cr3 = KernelDir
  /\ fg = "white" /\ bg = "black"
  /\ out = <<>>
  /\ caller = NoProc
  /\ readDir = KernelDir
  /\ halted = FALSE

(* new_process(parent, prio, create_page_dir) for a slot not yet built.   *)
NewProcess(p, create) ==
  /\ pageDir[p] = NoProc
  /\ pageDir' = [pageDir EXCEPT ![p] = IF create THEN NewPageDir(p).dir ELSE NULL]
  /\ allocated' = IF create THEN allocated \cup {NewPageDir(p).made} ELSE allocated
  /\ UNCHANGED <<cr3, fg, bg, out, caller, readDir, halted>>

(* What the reads of the string yield through directory dir: the bytes  *)
(* at EBX, or, through a directory the kernel never made, other bytes.   *)
Reads(dir, s) == IF dir \in allocated THEN {s \o After} ELSE {s \o After, Garbage}

(* syscall_printf called by p with format string s: CR3 is p's page_dir  *)
(* while the string and the stack are read.  Through a directory the     *)
(* kernel never made, the read may fault: page_fault_handler throws.     *)
SyscallPrintf(p, s) ==
  LET dir == pageDir[p]
  IN /\ pageDir[p] # NoProc
     /\ caller' = p
     /\ readDir' = dir
     /\ \/ /\ dir \notin allocated
           /\ halted' = TRUE
           /\ cr3' = dir
           /\ UNCHANGED <<fg, bg, out>>
        \/ \E m \in Reads(dir, s) :
             LET r == Format(m)
             IN /\ halted' = r.throw
                /\ cr3' = IF r.throw THEN dir ELSE KernelDir
                /\ fg' = r.fg /\ bg' = r.bg /\ out' = r.out
     /\ UNCHANGED <<pageDir, allocated>>

(* syscall_invalid: throw.                                                 *)
SyscallInvalid ==
  /\ halted' = TRUE
  /\ UNCHANGED <<pageDir, allocated, cr3, fg, bg, out, caller, readDir>>

Next ==
  /\ ~halted
  /\ \/ \E p \in Procs, create \in BOOLEAN : NewProcess(p, create)
     \/ \E p \in Procs, s \in Fmts : SyscallPrintf(p, s)
     \/ SyscallInvalid

Spec == Init /\ [][Next]_vars

-----------------------------------------------------------------------------
(* Spec 4.F: a process gets a fresh page directory, or none and shares    *)
(* the kernel's; the one it should run with.                              *)
OwnDir(p) == IF DirOf(p) \in allocated THEN DirOf(p) ELSE KernelDir

(* Spec 4.H: syscall_printf reads the format string and the arguments on *)
(* the user stack through the caller's page directory (new_process's     *)
(* fresh one, or the kernel's for a process made without one).           *)
PrintfReadsCallerDirectory == caller # NoProc => readDir = OwnDir(caller)

=============================================================================
