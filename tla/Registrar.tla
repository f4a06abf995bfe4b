----------------------------- MODULE Registrar ------------------------------
(***************************************************************************)
(* The registrar: the thread that keeps the daemon's tools registered with *)
(* argus, decides from the outcomes of its heartbeats when the link is     *)
(* lost, and unregisters the tools on Stop.  Argus is the environment: it  *)
(* may refuse, fail, hang, move away, restart and answer late.             *)
(***************************************************************************)
EXTENDS Integers

CONSTANTS
    NumTools,      \* the tools are 1..NumTools, in the order they were added
    RoundTimeouts, \* how many POSTs may time out before a round's context does
    MaxFailures    \* bound on the transport failures counted after the fatal one

ASSUME RegistrarAssumption ==
    /\ NumTools \in Nat \ {0}
    /\ RoundTimeouts \in Nat \ {0}
    /\ MaxFailures \in Nat /\ MaxFailures >= 2

Tools == 1..NumTools

VARIABLES
    pc,          \* the thread of Start, then of heartbeatLoop
    next,        \* the tool its next POST is for
    isFastRetry, \* this round was triggered by the fast-retry timer
    worst,       \* the worst outcome of this round so far
    budget,      \* the time-outs left to this round's context
    consecutiveTransport,
    fastRetryTimer,   \* "drained": set, but its one tick has been received
    fatalCh,     \* what is in the channel, which holds one error
    fatalOnce,   \* emitFatal has run
    stop,        \* the thread of Run and of Registrar.Stop
    runResult,   \* what Run is going to return
    nextDelete,
    deleted,     \* tools whose DELETE argus has acknowledged
    argus,       \* how argus answers now
    registered,  \* the tools argus knows
    late,        \* POSTs the registrar gave up and argus may still serve
    \* history: what the rounds have shown, up to the fatal one
    seen,        \* what the POSTs of this round met
    failures,    \* rounds that met a transport failure since the last all-successful one
    sawUnauthorized

loop    == <<pc, next, isFastRetry, worst, budget>>
link    == <<consecutiveTransport, fastRetryTimer, fatalOnce>>
stopper == <<stop, runResult, nextDelete, deleted>>
world   == <<argus, registered, late>>
history == <<seen, failures, sawUnauthorized>>
vars    == <<loop, link, fatalCh, stopper, world, history>>

\* roundOutcome, in its order.
outcomeSuccess         == 0
outcomeHTTPWarn        == 1
outcomeTransportFailed == 2
outcomeUnauthorized    == 3
Outcomes == outcomeSuccess..outcomeUnauthorized

\* A restarted argus may listen on a port this daemon does not know ("gone").
ArgusStates == {"up", "failing", "revoked", "gone", "hung"}

TypeOK ==
    /\ pc \in {"start", "startFailed", "select", "round", "exited"}
    /\ next \in 1..(NumTools + 1)
    /\ isFastRetry \in BOOLEAN
    /\ worst \in Outcomes
    /\ budget \in 0..RoundTimeouts
    /\ consecutiveTransport \in 0..MaxFailures
    /\ fastRetryTimer \in {"none", "armed", "drained"}
    /\ fatalCh \in {"empty", "transport", "unauthorized"}
    /\ fatalOnce \in BOOLEAN
    /\ stop \in {"no", "requested", "deleting", "stopped"}
    /\ runResult \in {"running", "nil", "transport", "unauthorized"}
    /\ nextDelete \in 1..(NumTools + 1)
    /\ deleted \in SUBSET Tools
    /\ argus \in ArgusStates
    /\ registered \in SUBSET Tools
    /\ late \in [Tools -> {"no", "inFlight", "landed"}]
    /\ seen \in SUBSET Outcomes
    /\ failures \in Nat
    /\ sawUnauthorized \in BOOLEAN

Init ==
    /\ pc = "start" /\ next = 1 /\ isFastRetry = FALSE /\ worst = outcomeSuccess /\ budget = 0
    /\ consecutiveTransport = 0 /\ fastRetryTimer = "none"
    /\ fatalCh = "empty" /\ fatalOnce = FALSE
    /\ stop = "no" /\ runResult = "running" /\ nextDelete = 1 /\ deleted = {}
    /\ argus \in ArgusStates /\ registered = {} /\ late = [t \in Tools |-> "no"]
    /\ seen = {} /\ failures = 0 /\ sawUnauthorized = FALSE

-----------------------------------------------------------------------------
(***************************************************************************)
(* One POST.  argus.Client turns the answer into an error, classifyError   *)
(* turns the error into an outcome.                                        *)
(***************************************************************************)

\* Mutant: a POST that times out counts as an HTTP error.
BugTimeoutIsWarning(mayTimeOut) ==
    CASE argus = "up"       -> outcomeSuccess
      [] argus = "revoked"  -> outcomeUnauthorized
      [] argus = "gone"     -> outcomeTransportFailed
      [] OTHER              -> outcomeHTTPWarn

\* How classifyError sees the answer of each argus.
AnswerOutcome ==
    [up |-> outcomeSuccess, failing |-> outcomeHTTPWarn, revoked |-> outcomeUnauthorized,
     gone |-> outcomeTransportFailed, hung |-> outcomeTransportFailed]

\* With the round's context expired the request is not even sent.
PostOutcome(mayTimeOut) ==
    IF mayTimeOut = 0 THEN outcomeTransportFailed ELSE AnswerOutcome[argus]

\* What the POST for tool t does to argus: it upserts the registration, or, if
\* argus hangs, may still do so when the registrar has stopped waiting.
PostEffect(t, mayTimeOut) ==
    /\ registered' = IF PostOutcome(mayTimeOut) = outcomeSuccess
                     THEN registered \cup {t} ELSE registered
    /\ late' = IF argus = "hung" /\ mayTimeOut > 0 THEN [late EXCEPT ![t] = "inFlight"] ELSE late
    /\ UNCHANGED argus

\* Start registers the tools in order and gives up at the first error; what it
\* registered before stays registered.
StartPost ==
    /\ pc = "start" /\ next <= NumTools
    /\ PostEffect(next, 1)
    /\ \/ /\ PostOutcome(1) = outcomeSuccess
          /\ next' = next + 1 /\ UNCHANGED pc
       \/ /\ PostOutcome(1) # outcomeSuccess
          /\ pc' = "startFailed" /\ UNCHANGED next
    /\ UNCHANGED <<isFastRetry, worst, budget, link, fatalCh, stopper, history>>

\* The signal that stops the daemon also cancels the POST Start is waiting for.
StartInterrupted ==
    /\ pc = "start" /\ next <= NumTools
    /\ pc' = "startFailed"
    /\ late' \in {late, [late EXCEPT ![next] = "inFlight"]}
    /\ UNCHANGED <<next, isFastRetry, worst, budget, link, fatalCh, stopper, argus, registered,
                   history>>

StartDone ==
    /\ pc = "start" /\ next > NumTools
    /\ pc' = "select" /\ next' = 1
    /\ UNCHANGED <<isFastRetry, worst, budget, link, fatalCh, stopper, world, history>>

-----------------------------------------------------------------------------
\* heartbeatLoop: the select, and heartbeatRound's first lines.
BeginRound(fast) ==
    /\ pc = "select" /\ consecutiveTransport < MaxFailures
    /\ pc' = "round" /\ isFastRetry' = fast /\ budget' = RoundTimeouts
    /\ UNCHANGED <<next, worst, consecutiveTransport, fatalOnce, fatalCh, stopper, world, history>>

\* Mutant: the heartbeat is sent only while the link is in doubt.
BugQuietHeartbeat ==
    consecutiveTransport > 0 /\ BeginRound(FALSE) /\ UNCHANGED fastRetryTimer

HeartbeatTick == BeginRound(FALSE) /\ UNCHANGED fastRetryTimer

FastRetryFires ==
    /\ fastRetryTimer = "armed" /\ fastRetryTimer' = "drained"
    /\ BeginRound(TRUE)

\* stopCh is closed; the select may serve a due timer first.
LoopExits ==
    /\ pc = "select" /\ stop = "requested"
    /\ pc' = "exited"
    /\ UNCHANGED <<next, isFastRetry, worst, budget, link, fatalCh, stopper, world, history>>

\* The worst of two outcomes, as heartbeatRound keeps it.
Worse(o, p) == IF o > p THEN o ELSE p

\* Mutant: the round runs past the last tool.
BugRoundOverruns ==
    /\ pc = "round" /\ next <= NumTools + 1
    /\ PostEffect(next, budget)
    /\ next' = next + 1
    /\ UNCHANGED <<pc, isFastRetry, worst, budget, link, fatalCh, stopper, history>>

RoundPost ==
    /\ pc = "round" /\ next <= NumTools
    /\ PostEffect(next, budget)
    /\ next' = next + 1
    /\ worst' = Worse(PostOutcome(budget), worst)
    /\ budget' = IF argus = "hung" /\ budget > 0 THEN budget - 1 ELSE budget
    /\ seen' = seen \cup {PostOutcome(budget)}
    /\ UNCHANGED <<pc, isFastRetry, link, fatalCh, stopper, failures, sawUnauthorized>>

-----------------------------------------------------------------------------
(***************************************************************************)
(* handleRound.                                                            *)
(***************************************************************************)

\* Mutant: the send is dropped when nobody is parked on the channel.
BugFatalDropped(err) == fatalOnce' = TRUE /\ UNCHANGED fatalCh

EmitFatal(err) ==
    /\ fatalOnce' = TRUE
    /\ fatalCh' = IF fatalOnce \/ fatalCh # "empty" THEN fatalCh ELSE err

\* Mutant: a success leaves the counter as it is.
BugCounterKept ==
    /\ worst = outcomeSuccess
    /\ fastRetryTimer' = "none"
    /\ UNCHANGED <<consecutiveTransport, fatalCh, fatalOnce>>

\* Mutant: a success leaves the fast retry armed.
BugTimerKept ==
    /\ worst = outcomeSuccess
    /\ consecutiveTransport' = 0
    /\ UNCHANGED <<fastRetryTimer, fatalCh, fatalOnce>>

OnSuccess ==
    /\ worst = outcomeSuccess
    /\ fastRetryTimer' = "none" /\ consecutiveTransport' = 0
    /\ UNCHANGED <<fatalCh, fatalOnce>>

OnUnauthorized ==
    /\ worst = outcomeUnauthorized
    /\ EmitFatal("unauthorized")
    /\ UNCHANGED <<consecutiveTransport, fastRetryTimer>>

\* Mutant: any answer of argus clears the failure.
BugWarnClears ==
    /\ worst = outcomeHTTPWarn
    /\ fastRetryTimer' = "none" /\ consecutiveTransport' = 0
    /\ UNCHANGED <<fatalCh, fatalOnce>>

OnHTTPWarn ==
    /\ worst = outcomeHTTPWarn
    /\ UNCHANGED <<link, fatalCh>>

OnFirstTransportFailure ==
    /\ worst = outcomeTransportFailed /\ ~isFastRetry /\ consecutiveTransport < 1
    /\ consecutiveTransport' = 1 /\ fastRetryTimer' = "armed"
    /\ UNCHANGED <<fatalCh, fatalOnce>>

OnSecondTransportFailure ==
    /\ worst = outcomeTransportFailed /\ (isFastRetry \/ consecutiveTransport >= 1)
    /\ consecutiveTransport' = consecutiveTransport + 1 /\ fastRetryTimer' = "none"
    /\ EmitFatal("transport")

\* What the round adds to the history, judged by what its POSTs met.
Record ==
    IF fatalOnce THEN UNCHANGED <<failures, sawUnauthorized>>
    ELSE /\ failures' =
               IF seen \subseteq {outcomeSuccess} THEN 0
               ELSE IF outcomeTransportFailed \in seen /\ outcomeUnauthorized \notin seen
               THEN failures + 1 ELSE failures
         /\ sawUnauthorized' = (sawUnauthorized \/ outcomeUnauthorized \in seen)

HandleRound ==
    /\ pc = "round" /\ next > NumTools
    /\ \/ OnSuccess \/ OnUnauthorized \/ OnHTTPWarn
       \/ OnFirstTransportFailure \/ OnSecondTransportFailure
    /\ Record
    \* the round's own variables end with it
    /\ pc' = "select" /\ next' = 1 /\ isFastRetry' = FALSE
    /\ worst' = outcomeSuccess /\ budget' = 0 /\ seen' = {}
    /\ UNCHANGED <<stopper, world>>

-----------------------------------------------------------------------------
(***************************************************************************)
(* Run leaves its select and calls Daemon.Stop; stopCh is closed somewhat  *)
(* later, which no step of the loop can tell from "requested".             *)
(***************************************************************************)

Signalled ==
    /\ stop = "no" /\ pc \notin {"start", "startFailed"}
    /\ stop' = "requested" /\ runResult' = "nil"
    /\ UNCHANGED <<loop, link, fatalCh, nextDelete, deleted, world, history>>

ReceiveFatal ==
    /\ stop = "no" /\ fatalCh # "empty"
    /\ stop' = "requested" /\ runResult' = fatalCh /\ fatalCh' = "empty"
    /\ UNCHANGED <<loop, link, nextDelete, deleted, world, history>>

\* Mutant: Stop deletes without waiting for the loop.
BugNoWait ==
    /\ stop = "requested"
    /\ stop' = "deleting" /\ fastRetryTimer' = "none" /\ budget' = 1
    /\ UNCHANGED <<pc, next, isFastRetry, worst, consecutiveTransport, fatalOnce, fatalCh,
                   runResult, nextDelete, deleted, world, history>>

\* wg.Wait has returned: the loop is gone, its timer is stopped.
BeginDeletes ==
    /\ stop = "requested" /\ pc = "exited"
    /\ stop' = "deleting" /\ fastRetryTimer' = "none" /\ budget' = 1
    /\ UNCHANGED <<pc, next, isFastRetry, worst, consecutiveTransport, fatalOnce, fatalCh,
                   runResult, nextDelete, deleted, world, history>>

\* All DELETEs share one context, which a single unanswered one uses up; a
\* failure is logged and the next tool is tried.
Delete ==
    /\ stop = "deleting" /\ nextDelete <= NumTools
    /\ IF budget > 0 /\ argus = "up"
       THEN registered' = registered \ {nextDelete} /\ deleted' = deleted \cup {nextDelete}
       ELSE UNCHANGED <<registered, deleted>>
    /\ budget' = IF argus = "hung" THEN 0 ELSE budget
    /\ nextDelete' = nextDelete + 1
    /\ UNCHANGED <<pc, next, isFastRetry, worst, link, fatalCh, stop, runResult, argus, late,
                   history>>

DeletesDone ==
    /\ stop = "deleting" /\ nextDelete > NumTools
    /\ stop' = "stopped"
    /\ UNCHANGED <<loop, link, fatalCh, runResult, nextDelete, deleted, world, history>>

-----------------------------------------------------------------------------
(***************************************************************************)
(* Argus, outside this repository: what its clients must be ready for.     *)
(***************************************************************************)

\* It changes how it answers; a restart or its idle sweep loses registrations.
ArgusChanges ==
    /\ \E a \in ArgusStates \ {argus} :
          /\ argus' = a
          /\ registered' \in IF a = "gone" THEN {registered, {}} ELSE {registered}
    /\ UNCHANGED <<loop, link, fatalCh, stopper, late, history>>

\* It serves a POST whose sender has stopped waiting.
ArgusServesLate ==
    /\ argus \in {"up", "hung"}
    /\ \E t \in Tools :
          /\ late[t] = "inFlight"
          /\ late' = [late EXCEPT ![t] = "landed"]
          /\ registered' = registered \cup {t}
    /\ UNCHANGED <<loop, link, fatalCh, stopper, argus, history>>

Over == pc = "startFailed" \/ stop = "stopped"
Terminated == Over /\ UNCHANGED vars

StartStep == StartPost \/ StartDone
Round     == RoundPost \/ HandleRound
Heartbeat == StartStep \/ StartInterrupted \/ HeartbeatTick \/ FastRetryFires \/ LoopExits \/ Round
Stopping  == BeginDeletes \/ Delete \/ DeletesDone
World     == ArgusChanges \/ ArgusServesLate

Next == Heartbeat \/ Signalled \/ ReceiveFatal \/ Stopping \/ World \/ Terminated

Spec == Init /\ [][Next]_vars

(***************************************************************************)
(* A goroutine that can take a step takes it, the ticker keeps ticking,    *)
(* and a select does not prefer one ready channel for ever (SF).  Nothing  *)
(* is assumed of argus.                                                    *)
(***************************************************************************)
Fairness ==
    /\ WF_vars(StartStep) /\ WF_vars(Round) /\ WF_vars(HeartbeatTick)
    /\ SF_vars(LoopExits) /\ WF_vars(ReceiveFatal) /\ WF_vars(Stopping)

FairSpec == Spec /\ Fairness

-----------------------------------------------------------------------------
\* The daemon never exits for one lost heartbeat: the error Run sees, and the
\* one it returns, rest on a 401 or on two rounds with transport failures and
\* no all-successful round between them (registrar.go: handleRound).
FatalNeedsEvidence ==
    \A err \in {fatalCh, runResult} :
        /\ err = "transport" => failures >= 2
        /\ err = "unauthorized" => sawUnauthorized

\* The verdict on the link, wherever it is: in the channel, or in what Run returns.
CurrentVerdict ==
    IF fatalCh # "empty" THEN fatalCh
    ELSE IF runResult \in {"running", "nil"} THEN "none" ELSE runResult

Verdict == INSTANCE LinkVerdict WITH verdict <- CurrentVerdict

\* Counter, timer and retry flag come to the rule of LinkVerdict, as the rounds really
\* went: the second failure is fatal neither earlier nor later, and the error is never
\* lost between the heartbeat, the channel and Run, nor replaced by a later one
\* (registrar.go 258-331, run.go 198-213).
ImplementsVerdict == Verdict!Spec

\* Between rounds the fast retry is scheduled, or has been used, exactly when
\* one failure is outstanding; so a round the retry triggers follows a failure
\* "by construction", as onTransportFailure takes for granted.
FastRetryIffOneFailure ==
    /\ pc = "select" /\ ~fatalOnce => (fastRetryTimer # "none" <=> failures = 1)
    /\ isFastRetry /\ ~fatalOnce => failures >= 1

\* A tool that argus has unregistered for Stop does not come back, except by a
\* POST the registrar had given up before (registrar.go: Stop joins the
\* heartbeat before it deletes).
UnregisteredStaysUnregistered ==
    \A t \in deleted \cap registered : late[t] = "landed"

\* When the link is lost for good, the daemon notices and is on its way out.
LostLinkIsFatal ==
    <>[](argus \in {"gone", "hung", "revoked"}) => <>(fatalOnce \/ stop # "no" \/ Over)

\* A fatal error is acted on, whenever Run comes to look at the channel, and
\* Stop returns although the heartbeat may be in the middle of a round.
FatalStopsTheDaemon == (fatalOnce \/ stop = "requested") ~> stop = "stopped"

\* Once argus answers again, the heartbeat restores what argus forgot.
HeartbeatRestores ==
    <>[](argus = "up") => []<>(registered = Tools \/ stop # "no" \/ Over)
=============================================================================
