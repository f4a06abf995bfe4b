----------------------------- MODULE MCPidLock ------------------------------
(* PidLock on small instances, which the configurations give. *)
EXTENDS PidLock
=============================================================================
