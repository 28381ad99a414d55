-------------------------- MODULE MCProcessManager --------------------------
(***************************************************************************)
(* ProcessManager with the values of its flags that the callers use: every *)
(* program is loaded with the default F_AutoDestroy, and programs call     *)
(* clone with and without a stack, or only without one.                    *)
(***************************************************************************)
EXTENDS ProcessManager

DefaultFlags == {TRUE}
ForkAndThread == BOOLEAN
ForkOnly == {FALSE}
=============================================================================
