----------------------------- MODULE MCProcMgr -----------------------------
(* Instances of ProcMgr for model checking. *)
EXTENDS ProcMgr
=============================================================================
