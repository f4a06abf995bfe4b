---------------------------- MODULE MCRegistrar -----------------------------
(* Registrar on small instances. *)
EXTENDS Registrar
=============================================================================
