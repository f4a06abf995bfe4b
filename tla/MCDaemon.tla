------------------------------ MODULE MCDaemon ------------------------------
(* The agent, at the default address, and another start at that or at another. *)
EXTENDS Daemon

CONSTANTS d1, d2, a1, a2, p1, p2, k1, k2, k3

MCDaemons == {d1, d2}
MCAddrs   == {a1, a2}
MCPorts   == {p1, p2}
MCTokens  == {k1, k2, k3}
=============================================================================
