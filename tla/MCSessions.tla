----------------------------- MODULE MCSessions -----------------------------
(* Sessions on small instances, which the configurations give. *)
EXTENDS Sessions
=============================================================================
