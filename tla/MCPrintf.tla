------------------------------- MODULE MCPrintf -------------------------------
(* Two processes; format strings for a plain character, an argument, the *)
(* two colours, '%%', an unknown directive, a lone '%' and the UTF-8     *)
(* sequence C2 A9.  The user stack at useresp is the frame of the stub    *)
(* syscall_printf(s, ...) of src/progs/src/lib.c, which traps from inside *)
(* its own body: the return address into its caller and the pointer s lie *)
(* between useresp and the first variadic argument (a build may also save *)
(* registers below them).                                                  *)
EXTENDS Printf

CONSTANTS p1, p2, retAddr, fmtPtr, v1

MCProcs == {p1, p2}
MCFmts == { <<72, 0>>, <<37, 100, 0>>, <<37, 102, 37, 98, 0>>, <<37, 37, 0>>,
            <<37, 81, 0>>, <<37, 0>>, <<194, 169, 0>> }
MCAfter == <<65, 0>>
MCStackArgs == <<retAddr, fmtPtr, v1>>
MCGarbage == <<37, 113, 0>>

=============================================================================
