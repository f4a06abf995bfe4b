----------------------------- MODULE PlanReview -----------------------------
(***************************************************************************)
(* What a hook call is promised, with no socket, token, process or exit    *)
(* status: its plan goes to the daemon once at most, then to the wrapper's *)
(* own plannotator if the daemon did not answer, never back; it is         *)
(* answered once, with a review only if the user who was asked last has    *)
(* decided, and not at all once its caller has given up.                   *)
(* Hook.tla implements this specification.                                 *)
(***************************************************************************)

CONSTANT Hooks  \* the calls

VARIABLES
    asked,  \* [Hooks -> {"nobody", "daemon", "decided", "wrapper", "over"}]: whose
            \* user has the plan before him; "decided": the daemon's, who is done
    answer  \* [Hooks -> {"none", "review", "error", "unauthorized", "failed"}]

vars == <<asked, answer>>

Init ==
    /\ asked = [h \in Hooks |-> "nobody"]
    /\ answer = [h \in Hooks |-> "none"]

Goes(h, from, to) == asked[h] \in from /\ asked' = [asked EXCEPT ![h] = to]

AskDaemon(h) == Goes(h, {"nobody"}, "daemon") /\ UNCHANGED answer

Decide(h) == Goes(h, {"daemon"}, "decided") /\ UNCHANGED answer

\* The daemon cannot be reached, or goes; what its user decides is lost, for any number
\* of calls at a time.
PassOn ==
    /\ \E lost \in SUBSET {h \in Hooks : asked[h] \in {"nobody", "daemon", "decided"}} :
          asked' = [h \in Hooks |-> IF h \in lost THEN "wrapper" ELSE asked[h]]
    /\ UNCHANGED answer

Answer(h, from, what) == Goes(h, from, "over") /\ answer' = [answer EXCEPT ![h] = what]

\* Claude Code stops waiting for the daemon.
GiveUp(h) == Goes(h, {"nobody", "daemon", "decided"}, "over") /\ UNCHANGED answer

Next ==
    \/ PassOn
    \/ \E h \in Hooks :
          \/ AskDaemon(h) \/ Decide(h) \/ GiveUp(h)
          \/ Answer(h, {"decided", "wrapper"}, "review")
          \/ Answer(h, {"nobody"}, "unauthorized")
          \/ Answer(h, {"nobody", "daemon"}, "error")
          \/ Answer(h, {"wrapper"}, "failed")

Spec == Init /\ [][Next]_vars
=============================================================================
