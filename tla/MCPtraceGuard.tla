---------------------------- MODULE MCPtraceGuard ----------------------------
(* PtraceGuard on three tasks.                                                *)
EXTENDS PtraceGuard
=============================================================================
