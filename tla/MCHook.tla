------------------------------- MODULE MCHook -------------------------------
(* Two invocations of the wrapper, one of them in a sandbox and with a payload that is
   too long, and one daemon. *)
EXTENDS Hook

CONSTANTS h1, h2, t1, t2, t3, t4, t5

MCHooks  == {h1, h2}
MCDirect == {h1}
MCLarge  == {h2}
MCTokens == {t1, t2, t3, t4, t5}
=============================================================================
