------------------------------ MODULE Sessions ------------------------------
(***************************************************************************)
(* The session machinery of the daemon: the SessionStore, the goroutines   *)
(* startSession leaves behind for every spawned plannotator subprocess,    *)
(* the long-polling plannotator_session_result tool, the collector, and    *)
(* the shutdown that cancels, joins and tears all of it down.              *)
(*                                                                         *)
(* A call of startSession and the session it creates share one name, a     *)
(* member of Sessions: the identifier is a fresh UUID, and only the reply  *)
(* of the call makes it known to a client.                                 *)
(***************************************************************************)
EXTENDS Integers

CONSTANTS
    Sessions,    \* the calls of startSession in a behaviour
    Pollers,     \* the clients of plannotator_session_result
    Outputs,     \* what a subprocess that succeeds may have printed
    WaitInputs,  \* the values of wait_seconds a client passes
    SessionTTL,  \* how long a resolved session stays in the store
    MaxTime,     \* bound on the clock
    NoSession    \* what an idle client waits for

ASSUME OutputsAssumption == Outputs \subseteq {"empty", "json", "prose"}
ASSUME TimeAssumption == SessionTTL \in Nat /\ MaxTime \in Nat
ASSUME WaitAssumption == WaitInputs \subseteq Int
ASSUME NoSessionAssumption == NoSession \notin Sessions

VARIABLES
    \* the subprocess and the three threads of one session
    handler,      \* the startSession call
    proc,         \* the subprocess: running until it and all holders of its pipes are gone
    discover,     \* the URL discovery goroutine
    lifecycle,    \* the goroutine that waits for the subprocess
    SessionWG,    \* the counter of HandlerDeps.SessionWG
    \* the SessionStore
    status, url, result,
    completedAt,  \* kept after the entry is removed, to say when it resolved
    done,         \* the done channel is closed
    \* the clients
    poll,         \* where each session_result call is
    target,       \* the session it waits for
    told,         \* the last answer any client got about the session
    \* the collector, the clock and the shutdown
    gc, cutoff, now, stop, graceExpired

threads  == <<handler, proc, discover, lifecycle, SessionWG>>
store    == <<status, url, result, completedAt, done>>
clients  == <<poll, target, told>>
daemon   == <<gc, cutoff, now, stop, graceExpired>>
vars     == <<threads, store, clients, daemon>>

Ended    == Outputs \cup {"error", "killed"}
Terminal == {"complete", "failed"}
Never    == -1

\* The phases of Daemon.Stop, in their order.
StopPhases == {"up", "cancelled", "joined", "gcClosing", "gcStopped", "closing", "down"}

TypeOK ==
    /\ handler \in [Sessions -> {"idle", "spawned", "created", "replying", "answered", "refused"}]
    /\ proc \in [Sessions -> {"none", "running"} \cup Ended]
    /\ discover \in [Sessions -> {"none", "polling", "found", "done"}]
    /\ lifecycle \in [Sessions -> {"none", "waiting", "markComplete", "markFailed", "done"}]
    /\ SessionWG \in Int
    /\ status \in [Sessions -> {"absent", "pending"} \cup Terminal]
    /\ url \in [Sessions -> BOOLEAN]
    /\ result \in [Sessions -> {"none", "null", "json", "raw"}]
    /\ completedAt \in [Sessions -> Int]
    /\ done \in [Sessions -> BOOLEAN]
    /\ poll \in [Pollers -> {"idle", "waiting", "resolved", "gaveUp"}]
    /\ target \in [Pollers -> Sessions \cup {NoSession}]
    /\ told \in [Sessions -> {"nothing", "refused", "pending", "unknown"} \cup Terminal]
    /\ gc \in {"select", "cutoff", "exited"}
    /\ cutoff \in Int
    /\ now \in Nat
    /\ stop \in StopPhases
    /\ graceExpired \in BOOLEAN

Init ==
    /\ handler = [s \in Sessions |-> "idle"]
    /\ proc = [s \in Sessions |-> "none"]
    /\ discover = [s \in Sessions |-> "none"]
    /\ lifecycle = [s \in Sessions |-> "none"]
    /\ SessionWG = 0
    /\ status = [s \in Sessions |-> "absent"]
    /\ url = [s \in Sessions |-> FALSE]
    /\ result = [s \in Sessions |-> "none"]
    /\ completedAt = [s \in Sessions |-> Never]
    /\ done = [s \in Sessions |-> FALSE]
    /\ poll = [p \in Pollers |-> "idle"]
    /\ target = [p \in Pollers |-> NoSession]
    /\ told = [s \in Sessions |-> "nothing"]
    /\ gc = "select"
    /\ cutoff = 0
    /\ now = 0
    /\ stop = "up"
    /\ graceExpired = FALSE

\* parentCtx has been cancelled.
Cancelled == stop # "up"
\* http.Server accepts new requests until Shutdown.
Listening == stop \notin {"closing", "down"}
\* The process has not exited: its goroutines may run.
Alive == stop # "down"

-----------------------------------------------------------------------------
(***************************************************************************)
(* startSession.  Its steps are separate because the shutdown runs         *)
(* concurrently with them and counts only what SessionWG.Add announced.    *)
(***************************************************************************)

\* cmd.Start: exec refuses when parentCtx is already cancelled.
Spawn(s) ==
    /\ handler[s] = "idle" /\ Listening /\ ~Cancelled
    /\ handler' = [handler EXCEPT ![s] = "spawned"]
    /\ proc' = [proc EXCEPT ![s] = "running"]
    /\ UNCHANGED <<discover, lifecycle, SessionWG, store, clients, daemon>>

\* The tool's handler rejects its input, or cmd.Start fails: cancelled, no such
\* binary, no such directory.  Either way there is no session.
SpawnFails(s) ==
    /\ handler[s] = "idle" /\ Listening
    /\ handler' = [handler EXCEPT ![s] = "refused"]
    /\ told' = [told EXCEPT ![s] = "refused"]
    /\ UNCHANGED <<proc, discover, lifecycle, SessionWG, store, poll, target, daemon>>

Create(s) ==
    /\ handler[s] = "spawned" /\ Alive
    /\ handler' = [handler EXCEPT ![s] = "created"]
    /\ status' = [status EXCEPT ![s] = "pending"]
    /\ UNCHANGED <<proc, discover, lifecycle, SessionWG, url, result, completedAt, done,
                   clients, daemon>>

\* Mutant: one unit for both goroutines.
BugAddOne == 1

\* How much startSession announces: one unit per goroutine.
AddedToWG == 2

\* SessionWG.Add and the two go statements.
Launch(s) ==
    /\ handler[s] = "created" /\ Alive
    /\ handler' = [handler EXCEPT ![s] = "replying"]
    /\ SessionWG' = SessionWG + AddedToWG
    /\ discover' = [discover EXCEPT ![s] = "polling"]
    /\ lifecycle' = [lifecycle EXCEPT ![s] = "waiting"]
    /\ UNCHANGED <<proc, store, clients, daemon>>

\* The reply loop finds something to report.
Reply(s) ==
    /\ handler[s] = "replying" /\ Alive
    /\ status[s] # "absent" /\ (url[s] \/ status[s] # "pending")
    /\ handler' = [handler EXCEPT ![s] = "answered"]
    /\ told' = [told EXCEPT ![s] = status[s]]
    /\ UNCHANGED <<proc, discover, lifecycle, SessionWG, store, poll, target, daemon>>

\* Mutant: the reply loop has no deadline.
BugReplyWaitsForURL(s) ==
    /\ handler[s] = "replying" /\ Alive /\ url[s]
    /\ handler' = [handler EXCEPT ![s] = "answered"]
    /\ told' = [told EXCEPT ![s] = "pending"]
    /\ UNCHANGED <<proc, discover, lifecycle, SessionWG, store, poll, target, daemon>>

\* Its deadline passes or its caller hangs up: it does not look again.
ReplyBlind(s) ==
    /\ handler[s] = "replying" /\ Alive
    /\ handler' = [handler EXCEPT ![s] = "answered"]
    /\ told' = [told EXCEPT ![s] = "pending"]
    /\ UNCHANGED <<proc, discover, lifecycle, SessionWG, store, poll, target, daemon>>

-----------------------------------------------------------------------------
\* The subprocess ends by itself (the user closes the review, or it fails) ...
Finish(s) ==
    /\ proc[s] = "running" /\ Alive
    /\ \E e \in Outputs \cup {"error"} : proc' = [proc EXCEPT ![s] = e]
    /\ UNCHANGED <<handler, discover, lifecycle, SessionWG, store, clients, daemon>>

\* ... or by the SIGKILL exec sends once parentCtx is cancelled.
Kill(s) ==
    /\ proc[s] = "running" /\ Cancelled /\ Alive
    /\ proc' = [proc EXCEPT ![s] = "killed"]
    /\ UNCHANGED <<handler, discover, lifecycle, SessionWG, store, clients, daemon>>

\* DiscoverSessionURL reads sessions/<pid>.json before it looks at its context.
FindURL(s) ==
    /\ discover[s] = "polling" /\ Alive
    /\ discover' = [discover EXCEPT ![s] = "found"]
    /\ UNCHANGED <<handler, proc, lifecycle, SessionWG, store, clients, daemon>>

FindNoURL(s) ==
    /\ discover[s] = "polling" /\ Alive
    /\ discover' = [discover EXCEPT ![s] = "done"]
    /\ SessionWG' = SessionWG - 1
    /\ UNCHANGED <<handler, proc, lifecycle, store, clients, daemon>>

\* SetURL writes into any entry of the store, a resolved one included.
SetURL(s) ==
    /\ discover[s] = "found" /\ Alive
    /\ url' = [url EXCEPT ![s] = @ \/ status[s] # "absent"]
    /\ discover' = [discover EXCEPT ![s] = "done"]
    /\ SessionWG' = SessionWG - 1
    /\ UNCHANGED <<handler, proc, lifecycle, status, result, completedAt, done, clients, daemon>>

\* Mutant: the exit status is not looked at.
BugExitStatusIgnored(s) ==
    /\ lifecycle[s] = "waiting" /\ proc[s] \in Outputs \cup {"error"} /\ Alive
    /\ lifecycle' = [lifecycle EXCEPT ![s] = "markComplete"]
    /\ UNCHANGED <<handler, proc, discover, SessionWG, store, clients, daemon>>

\* cmd.Wait returns nil ...
WaitSucceeds(s) ==
    /\ lifecycle[s] = "waiting" /\ proc[s] \in Outputs /\ Alive
    /\ lifecycle' = [lifecycle EXCEPT ![s] = "markComplete"]
    /\ UNCHANGED <<handler, proc, discover, SessionWG, store, clients, daemon>>

\* Mutant: a subprocess that fails is not reported, only one that is killed.
BugFailureUnreported(s) ==
    /\ lifecycle[s] = "waiting" /\ proc[s] = "killed" /\ Alive
    /\ lifecycle' = [lifecycle EXCEPT ![s] = "markFailed"]
    /\ UNCHANGED <<handler, proc, discover, SessionWG, store, clients, daemon>>

\* ... or an error, which a cancelled context is even when the subprocess
\* had just ended well.
WaitFails(s) ==
    /\ lifecycle[s] = "waiting" /\ proc[s] \in Ended /\ Alive
    /\ proc[s] \in Outputs => Cancelled
    /\ lifecycle' = [lifecycle EXCEPT ![s] = "markFailed"]
    /\ UNCHANGED <<handler, proc, discover, SessionWG, store, clients, daemon>>

\* Nothing printed is null, JSON goes through verbatim, prose is wrapped.
ResultOf(output) ==
    IF output = "empty" THEN "null" ELSE IF output = "json" THEN "json" ELSE "raw"

\* Mutant: the done channel stays open.
BugDoneNotClosed(s, verdict) ==
    IF status[s] = "pending"
    THEN /\ status' = [status EXCEPT ![s] = verdict]
         /\ completedAt' = [completedAt EXCEPT ![s] = now]
         /\ UNCHANGED done
    ELSE UNCHANGED <<status, completedAt, done>>

\* MarkComplete and MarkFailed: only a pending session resolves.
Resolves(s, verdict) ==
    IF status[s] = "pending"
    THEN /\ status' = [status EXCEPT ![s] = verdict]
         /\ completedAt' = [completedAt EXCEPT ![s] = now]
         /\ done' = [done EXCEPT ![s] = TRUE]
    ELSE UNCHANGED <<status, completedAt, done>>

MarkComplete(s) ==
    /\ lifecycle[s] = "markComplete" /\ Alive
    /\ Resolves(s, "complete")
    /\ result' = [result EXCEPT ![s] = IF status[s] = "pending" THEN ResultOf(proc[s]) ELSE @]
    /\ lifecycle' = [lifecycle EXCEPT ![s] = "done"]
    /\ SessionWG' = SessionWG - 1
    /\ UNCHANGED <<handler, proc, discover, url, clients, daemon>>

MarkFailed(s) ==
    /\ lifecycle[s] = "markFailed" /\ Alive
    /\ Resolves(s, "failed")
    /\ lifecycle' = [lifecycle EXCEPT ![s] = "done"]
    /\ SessionWG' = SessionWG - 1
    /\ UNCHANGED <<handler, proc, discover, url, result, clients, daemon>>

-----------------------------------------------------------------------------
(***************************************************************************)
(* plannotator_session_result: WaitForResolution looks, waits without the  *)
(* lock, and looks again.                                                  *)
(***************************************************************************)

DefaultWait == 20
MaxWait     == 25

\* The handler's treatment of wait_seconds, in seconds.
EffectiveWait(w) ==
    CASE w <= 0       -> DefaultWait
      [] w > MaxWait  -> MaxWait
      [] OTHER        -> w

\* Mutant: a missing entry is not turned into ErrUnknownSession.
BugMissingEntry(s) == status[s]

\* What a look at the store tells a client.
Snapshot(s) == IF status[s] = "absent" THEN "unknown" ELSE status[s]

\* The first look answers at once.
PollAnswered(p, s, w) ==
    /\ poll[p] = "idle" /\ handler[s] = "answered" /\ Listening
    /\ status[s] # "pending" \/ EffectiveWait(w) <= 0
    /\ told' = [told EXCEPT ![s] = Snapshot(s)]
    /\ UNCHANGED <<threads, store, poll, target, daemon>>

PollWaits(p, s, w) ==
    /\ poll[p] = "idle" /\ handler[s] = "answered" /\ Listening
    /\ status[s] = "pending" /\ EffectiveWait(w) > 0
    /\ poll' = [poll EXCEPT ![p] = "waiting"]
    /\ target' = [target EXCEPT ![p] = s]
    /\ UNCHANGED <<threads, store, told, daemon>>

\* The select: the done channel ...
WakeResolved(p) ==
    /\ poll[p] = "waiting" /\ done[target[p]] /\ Alive
    /\ poll' = [poll EXCEPT ![p] = "resolved"]
    /\ UNCHANGED <<threads, store, target, told, daemon>>

\* Mutant: the select has neither a timer nor the caller's context.
BugNoTimer(p) ==
    /\ poll[p] = "waiting" /\ done[target[p]] /\ Alive
    /\ poll' = [poll EXCEPT ![p] = "gaveUp"]
    /\ UNCHANGED <<threads, store, target, told, daemon>>

\* ... or the timer, or the caller's context.
WakeGivesUp(p) ==
    /\ poll[p] = "waiting" /\ Alive
    /\ poll' = [poll EXCEPT ![p] = "gaveUp"]
    /\ UNCHANGED <<threads, store, target, told, daemon>>

\* Mutant: after a time-out the first look is answered, not a second one.
BugOldSnapshot(p) ==
    /\ poll[p] \in {"resolved", "gaveUp"} /\ Alive
    /\ told' = [told EXCEPT ![target[p]] =
                   IF poll[p] = "gaveUp" THEN "pending" ELSE Snapshot(target[p])]
    /\ poll' = [poll EXCEPT ![p] = "idle"]
    /\ target' = [target EXCEPT ![p] = NoSession]
    /\ UNCHANGED <<threads, store, daemon>>

\* The second look; a cancelled caller gets the snapshot too.
PollReturns(p) ==
    /\ poll[p] \in {"resolved", "gaveUp"} /\ Alive
    /\ told' = [told EXCEPT ![target[p]] = Snapshot(target[p])]
    /\ poll' = [poll EXCEPT ![p] = "idle"]
    /\ target' = [target EXCEPT ![p] = NoSession]
    /\ UNCHANGED <<threads, store, daemon>>

-----------------------------------------------------------------------------
\* The cutoff is read before the store's lock is taken, so it may be old when
\* it is used.
GCTick ==
    /\ gc = "select" /\ Alive
    /\ gc' = "cutoff"
    /\ cutoff' = now - SessionTTL
    /\ UNCHANGED <<threads, store, clients, now, stop, graceExpired>>

\* Mutant: the sweep forgets that a pending session has no CompletedAt.
BugPendingExpires == {s \in Sessions : status[s] # "absent" /\ completedAt[s] < cutoff}

\* The resolved sessions a sweep with the current cutoff removes.
Expired == {s \in Sessions : status[s] \in Terminal /\ completedAt[s] < cutoff}

GCSweep ==
    /\ gc = "cutoff" /\ Alive
    /\ gc' = "select"
    /\ cutoff' = 0
    /\ status' = [s \in Sessions |-> IF s \in Expired THEN "absent" ELSE status[s]]
    /\ url' = [s \in Sessions |-> url[s] /\ s \notin Expired]
    /\ result' = [s \in Sessions |-> IF s \in Expired THEN "none" ELSE result[s]]
    /\ UNCHANGED <<threads, completedAt, done, clients, now, stop, graceExpired>>

\* gcLoop sees gcStop closed; its select may serve a due tick first.
GCExit ==
    /\ gc = "select" /\ stop = "gcClosing"
    /\ gc' = "exited"
    /\ UNCHANGED <<threads, store, clients, cutoff, now, stop, graceExpired>>

Tick ==
    /\ now < MaxTime /\ Alive
    /\ now' = now + 1
    /\ UNCHANGED <<threads, store, clients, gc, cutoff, stop, graceExpired>>

-----------------------------------------------------------------------------
(***************************************************************************)
(* Daemon.Stop, one action per line of it that another thread can see.     *)
(***************************************************************************)

StopStep(from, to) ==
    /\ stop = from /\ stop' = to
    /\ UNCHANGED <<threads, store, clients, gc, cutoff, now>>

ParentCancel == StopStep("up", "cancelled") /\ UNCHANGED graceExpired

\* waitWithTimeout: the counter is zero ...
Join == SessionWG = 0 /\ StopStep("cancelled", "joined") /\ UNCHANGED graceExpired

\* Mutant: the join has no grace period.
BugNoGrace == SessionWG = 0 /\ StopStep("cancelled", "joined") /\ graceExpired' = TRUE

\* ... or SessionShutdownGrace has passed.
GiveUpJoin == StopStep("cancelled", "joined") /\ graceExpired' = TRUE

CloseGCStop == StopStep("joined", "gcClosing") /\ UNCHANGED graceExpired

WaitForGC == gc = "exited" /\ StopStep("gcClosing", "gcStopped") /\ UNCHANGED graceExpired

\* Registrar.Stop has returned and http.Server.Shutdown closes the listener.
BeginShutdown == StopStep("gcStopped", "closing") /\ UNCHANGED graceExpired

\* Shutdown returns, with the last request answered or after five seconds;
\* then the process exits.
FinishShutdown == StopStep("closing", "down") /\ UNCHANGED graceExpired

\* The process is gone.
Terminated == stop = "down" /\ UNCHANGED vars

-----------------------------------------------------------------------------
Handle(s)   == Create(s) \/ Launch(s) \/ Reply(s) \/ ReplyBlind(s)
Discover(s) == FindURL(s) \/ FindNoURL(s) \/ SetURL(s)
Lifecycle(s) == WaitSucceeds(s) \/ WaitFails(s) \/ MarkComplete(s) \/ MarkFailed(s)
ResultOfPoll(p) == WakeResolved(p) \/ WakeGivesUp(p) \/ PollReturns(p)
Collect     == GCTick \/ GCSweep \/ GCExit
Shutdown    == \/ ParentCancel \/ Join \/ GiveUpJoin \/ CloseGCStop \/ WaitForGC
               \/ BeginShutdown \/ FinishShutdown

Next ==
    \/ \E s \in Sessions :
          \/ Spawn(s) \/ SpawnFails(s) \/ Handle(s) \/ Finish(s) \/ Kill(s)
          \/ Discover(s) \/ Lifecycle(s)
    \/ \E p \in Pollers :
          \/ \E s \in Sessions, w \in WaitInputs : PollAnswered(p, s, w) \/ PollWaits(p, s, w)
          \/ ResultOfPoll(p)
    \/ Collect \/ Tick \/ Shutdown \/ Terminated

Spec == Init /\ [][Next]_vars

(***************************************************************************)
(* What the Go runtime and the timers guarantee: a goroutine that can take *)
(* a step takes it, a deadline passes, and a select does not prefer one    *)
(* ready channel for ever (SF of GCExit).  Nothing is assumed of the user, *)
(* of the subprocess, of the clients or of the signal that stops the       *)
(* daemon.                                                                 *)
(***************************************************************************)
Fairness ==
    /\ \A s \in Sessions :
          /\ WF_vars(Handle(s)) /\ WF_vars(Lifecycle(s))
          /\ WF_vars(FindNoURL(s) \/ SetURL(s))
    /\ \A p \in Pollers : WF_vars(ResultOfPoll(p))
    /\ WF_vars(GCSweep) /\ SF_vars(GCExit)
    /\ WF_vars(Shutdown /\ stop # "up")

FairSpec == Spec /\ Fairness

-----------------------------------------------------------------------------
\* Nobody sleeps through a verdict and nobody is woken without one: the done
\* channel is closed exactly when the session has resolved, also after its
\* entry is gone (session_store.go: MarkComplete, MarkFailed, GC).
WakeupsAreExact ==
    \A s \in Sessions :
        /\ done[s] <=> completedAt[s] # Never
        /\ status[s] = "pending" => ~done[s]
        /\ status[s] \in Terminal => done[s]

\* A verdict is the subprocess's own: "complete" carries what it printed, and
\* "failed" is for one that failed, or for one the shutdown may have cut short
\* (handlers.go: the lifecycle goroutine; a verdict is never overwritten).
VerdictIsTheProcesss ==
    \A s \in Sessions :
        /\ status[s] = "complete" =>
              proc[s] \in Outputs /\ result[s] = ResultOf(proc[s])
        /\ status[s] = "failed" =>
              result[s] = "none" /\ (proc[s] \in {"error", "killed"} \/ Cancelled)

\* The collector forgets a session only when more than SessionTTL has passed
\* since it resolved, however old the cutoff it uses; an unresolved session is
\* never lost (session_store.go: GC).
ForgottenOnlyAfterTTL ==
    \A s \in Sessions :
        status[s] = "absent" /\ handler[s] \notin {"idle", "refused", "spawned"} =>
            completedAt[s] # Never /\ completedAt[s] + SessionTTL < now

\* When waitWithTimeout reports that the sessions are joined, every session
\* that was launched is over: subprocess reaped, verdict recorded, both
\* goroutines gone (handlers.go: SessionWG; run.go: Stop).
CleanJoinLeavesNothing ==
    [][stop = "cancelled" /\ stop' = "joined" /\ ~graceExpired' =>
          \A s \in Sessions : handler[s] \in {"replying", "answered"} =>
              /\ proc[s] \in Ended /\ lifecycle[s] = "done" /\ discover[s] = "done"
              /\ status[s] # "pending"]_vars

\* What the daemon's own comment says of the goroutines startSession leaves
\* behind: "joined before Stop returns" (handlers.go: HandlerDeps).  Stop may
\* give up after a grace, and Shutdown on requests that take too long; where
\* neither happened the comment holds without reserve.
JoinedBeforeStopReturns ==
    /\ stop = "down" /\ ~graceExpired
    /\ \A s \in Sessions : handler[s] \in {"idle", "refused", "answered"}
    =>
        \A s \in Sessions : /\ lifecycle[s] \in {"none", "done"}
                            /\ discover[s] \in {"none", "done"}

\* The state the abstract specification gives a session.
StateOf(s) ==
    IF status[s] # "absent" THEN status[s]
    ELSE IF handler[s] \in {"idle", "refused", "spawned"} THEN "none" ELSE "gone"

Promise == INSTANCE SessionLifecycle WITH state <- [s \in Sessions |-> StateOf(s)]

\* The store, with its goroutines, locks and collector, is the register of
\* SessionLifecycle: answers are true when given and never go back.
ImplementsPromise == Promise!Spec

\* After a verdict nobody is told "pending", nor the other verdict; after
\* "unknown" nobody is told anything else (session_store.go: WaitForResolution
\* looks twice and lets go of the lock in between).
AnswersMoveForward == Promise!AnswersMoveForward

\* A subprocess that has ended is reported, unless the daemon goes away first.
EndIsReported ==
    \A s \in Sessions :
        proc[s] \in Ended ~> (done[s] \/ stop = "down")

\* Every long poll returns, whatever its session does.
PollsReturn == \A p \in Pollers : poll[p] # "idle" ~> (poll[p] = "idle" \/ stop = "down")

\* Every call that starts a session is answered.
CallsReturn ==
    \A s \in Sessions : handler[s] = "spawned" ~> (handler[s] = "answered" \/ stop = "down")

\* Once begun, Stop returns: no subprocess, client or collector holds it up.
StopReturns == Cancelled ~> stop = "down"
=============================================================================
