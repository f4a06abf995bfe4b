---------------------------- MODULE LinkVerdict ----------------------------
(***************************************************************************)
(* What the registrar makes of its heartbeats, with no timer, no channel   *)
(* and no tool: the first failure is forgiven if a round without one comes *)
(* before the next, the second one is the verdict, a 401 is one at once,   *)
(* and a verdict stays, whoever comes to read it, and when.                *)
(* Registrar.tla implements this specification.                            *)
(***************************************************************************)
EXTENDS Naturals

VARIABLES
    failures, \* rounds that failed since the last one in which all was well
    verdict   \* "none", "transport" or "unauthorized"

vars == <<failures, verdict>>

Init == failures = 0 /\ verdict = "none"

AllWell == failures' = 0 /\ UNCHANGED verdict

Doubt == failures = 0 /\ failures' = 1 /\ UNCHANGED verdict

Lose == failures = 1 /\ failures' = 2 /\ verdict' = "transport"

Refuse == verdict' = "unauthorized" /\ UNCHANGED failures

Next == verdict = "none" /\ (AllWell \/ Doubt \/ Lose \/ Refuse)

Spec == Init /\ [][Next]_vars
=============================================================================
