-------------------------------- MODULE Hook --------------------------------
(***************************************************************************)
(* A plan review as Claude Code asks for one: the wrapper script, the       *)
(* daemon's /hook endpoint, the plannotator process behind either, and the  *)
(* lives of the daemon in the meantime.  The steps of the daemon's start    *)
(* and stop that are not about hooks are in Daemon.                         *)
(***************************************************************************)
EXTENDS Naturals

CONSTANTS
    Hooks,      \* invocations of the wrapper, one payload each
    Direct,     \* those outside a sandbox, with plannotator on $PATH
    Large,      \* those whose payload is longer than the handler reads
    Tokens,     \* more than are in use at a time: a new one is like no other
    Nothing,
    MaxFaults,  \* bound on crashes, stops, refused connections, killed callers ...
    MaxRotations \* bound on removals of the token file

ASSUME HookAssumption ==
    /\ Direct \subseteq Hooks /\ Large \subseteq Hooks
    /\ Nothing \notin Tokens
    /\ MaxFaults \in Nat /\ MaxRotations \in Nat

VARIABLES
    daemon,     \* "draining": in Shutdown, the listener is closed
    token,      \* Handler.Token
    tokenFile,
    pc,         \* where the wrapper is
    sent,       \* the token it read
    req,        \* its request, at the daemon
    review,     \* the plannotator the daemon started for it, an orphan without the daemon
    own,        \* the plannotator the wrapper started
    out,        \* what Claude Code got: exit status 0, but for "failed"
    faults, rotations,
    replaced    \* history: a start wrote its token over one that was on file

server == <<daemon, token, tokenFile, replaced>>
caller == <<pc, sent, own, out>>
work   == <<req, review>>
vars   == <<server, caller, work, faults, rotations>>

Reviews == {"none", "open", "done", "failed", "killed"}

TypeOK ==
    /\ daemon \in {"off", "up", "draining"}
    /\ token \in Tokens \cup {Nothing} /\ tokenFile \in Tokens \cup {Nothing}
    /\ pc \in [Hooks -> {"start", "connect", "waiting", "fallback", "direct", "done", "killed"}]
    /\ sent \in [Hooks -> Tokens \cup {Nothing}]
    /\ req \in [Hooks -> {"none", "arrived", "running", "over"}]
    /\ review \in [Hooks -> Reviews] /\ own \in [Hooks -> Reviews]
    /\ out \in [Hooks -> {"none", "review", "error", "unauthorized", "failed"}]
    /\ faults \in 0..MaxFaults /\ rotations \in 0..MaxRotations
    /\ replaced \in BOOLEAN

Init ==
    /\ daemon = "off" /\ token = Nothing /\ tokenFile = Nothing
    /\ pc = [h \in Hooks |-> "start"] /\ sent = [h \in Hooks |-> Nothing]
    /\ req = [h \in Hooks |-> "none"]
    /\ review = [h \in Hooks |-> "none"] /\ own = [h \in Hooks |-> "none"]
    /\ out = [h \in Hooks |-> "none"]
    /\ faults = 0 /\ rotations = 0 /\ replaced = FALSE

Fault == faults < MaxFaults /\ faults' = faults + 1

Goto(h, from, to) == pc[h] = from /\ pc' = [pc EXCEPT ![h] = to]

\* curl has an HTTP answer, whatever its status, prints its body and exits 0; so does
\* the wrapper.
Answer(h, body) ==
    IF pc[h] = "waiting"
    THEN pc' = [pc EXCEPT ![h] = "done"] /\ out' = [out EXCEPT ![h] = body]
    ELSE UNCHANGED <<pc, out>>

-----------------------------------------------------------------------------
(***************************************************************************)
(* plannotator-hook.sh.                                                    *)
(***************************************************************************)

\* An unreadable, a missing and an empty file are the same.
ReadToken(h) ==
    /\ Goto(h, "start", IF tokenFile = Nothing THEN "fallback" ELSE "connect")
    /\ sent' = [sent EXCEPT ![h] = tokenFile]
    /\ UNCHANGED <<server, own, out, work, faults, rotations>>

Connect(h) ==
    /\ daemon = "up"
    /\ Goto(h, "connect", "waiting")
    /\ req' = [req EXCEPT ![h] = "arrived"]
    /\ UNCHANGED <<server, sent, own, out, review, faults, rotations>>

\* Mutant: curl has a --max-time.
BugMaxTime(h) ==
    /\ \/ Goto(h, "connect", "fallback") /\ daemon # "up"
       \/ Goto(h, "waiting", "fallback")
    /\ UNCHANGED <<server, sent, own, out, work, faults, rotations>>

\* Refused, or --connect-timeout.
ConnectFails(h) ==
    /\ Goto(h, "connect", "fallback")
    /\ \/ daemon # "up" /\ UNCHANGED faults
       \/ daemon = "up" /\ Fault
    /\ UNCHANGED <<server, sent, own, out, work, rotations>>

\* Mutant: the wrapper does not look whether there is a plannotator.
BugNoLook(h) ==
    /\ Goto(h, "fallback", "done")
    /\ own' = [own EXCEPT ![h] = IF h \in Direct THEN "open" ELSE "notfound"]
    /\ out' = [out EXCEPT ![h] = "failed"]
    /\ UNCHANGED <<server, sent, work, faults, rotations>>

FallBack(h) ==
    /\ IF h \in Direct
       THEN /\ Goto(h, "fallback", "direct")
            /\ own' = [own EXCEPT ![h] = "open"] /\ UNCHANGED out
       ELSE /\ Goto(h, "fallback", "done")
            /\ out' = [out EXCEPT ![h] = "failed"] /\ UNCHANGED own
    /\ UNCHANGED <<server, sent, work, faults, rotations>>

\* The wrapper's own plannotator ends, and the wrapper with its exit status.
DirectEnds(h) ==
    /\ Goto(h, "direct", "done")
    /\ \/ own' = [own EXCEPT ![h] = "done"] /\ out' = [out EXCEPT ![h] = "review"]
       \/ own' = [own EXCEPT ![h] = "failed"] /\ out' = [out EXCEPT ![h] = "failed"]
    /\ UNCHANGED <<server, sent, work, faults, rotations>>

\* Claude Code gives up: its hook timeout, or the user interrupts.
Abandon(h) ==
    /\ Fault
    /\ Goto(h, "waiting", "killed")
    /\ UNCHANGED <<server, sent, own, out, work, rotations>>

-----------------------------------------------------------------------------
(***************************************************************************)
(* Handler.ServeHTTP and Runner.Run.                                       *)
(***************************************************************************)

Serving == daemon \in {"up", "draining"}

Reject(h) ==
    /\ Serving /\ req[h] = "arrived" /\ sent[h] # token
    /\ req' = [req EXCEPT ![h] = "over"]
    /\ Answer(h, "unauthorized")
    /\ UNCHANGED <<server, sent, own, review, faults, rotations>>

\* ReadAll of the LimitReader takes a payload that is too long for a whole one: plannotator
\* is started on its first MiB.
Accept(h) ==
    /\ Serving /\ req[h] = "arrived" /\ sent[h] = token
    /\ req' = [req EXCEPT ![h] = "running"]
    /\ review' = [review EXCEPT ![h] = "open"]
    /\ UNCHANGED <<server, caller, faults, rotations>>

\* The caller is gone before its payload is there, or there is no process to be had:
\* 400 or 500.
AcceptFails(h) ==
    /\ Serving /\ req[h] = "arrived" /\ sent[h] = token
    /\ \/ pc[h] = "killed" /\ UNCHANGED faults
       \/ Fault
    /\ req' = [req EXCEPT ![h] = "over"]
    /\ Answer(h, "error")
    /\ UNCHANGED <<server, sent, own, review, rotations>>

\* The user decides, or plannotator fails.  An orphan's user may decide too; nobody
\* reads it.
ReviewEnds(h) ==
    /\ review[h] = "open"
    /\ \E how \in {"done", "failed"} : review' = [review EXCEPT ![h] = how]
    /\ UNCHANGED <<server, caller, req, faults, rotations>>

\* Mutant: Run gets a context of its own.
BugBackgroundContext(h) == FALSE /\ UNCHANGED vars

\* net/http cancels r.Context() when the connection breaks, which it sees only once the
\* whole body has been read; CommandContext kills the process.
CallerGone(h) ==
    /\ Serving /\ req[h] = "running" /\ pc[h] = "killed" /\ h \notin Large
    /\ review[h] = "open"
    /\ review' = [review EXCEPT ![h] = "killed"]
    /\ UNCHANGED <<server, caller, req, faults, rotations>>

\* Mutant: an exit status other than 0 is no error.
BugErrorIgnored(h) ==
    /\ Serving /\ req[h] = "running" /\ review[h] # "open"
    /\ req' = [req EXCEPT ![h] = "over"]
    /\ Answer(h, "review")
    /\ UNCHANGED <<server, sent, own, review, faults, rotations>>

\* 200 with the review, or 500.
Respond(h) ==
    /\ Serving /\ req[h] = "running" /\ review[h] # "open"
    /\ req' = [req EXCEPT ![h] = "over"]
    /\ Answer(h, IF review[h] = "done" THEN "review" ELSE "error")
    /\ UNCHANGED <<server, sent, own, review, faults, rotations>>

-----------------------------------------------------------------------------
(***************************************************************************)
(* The daemon's lives.                                                     *)
(***************************************************************************)

\* A token that is made is like no other in use; which it is makes no difference.
Made(tok) ==
    LET Fresh == Tokens \ ({token, tokenFile} \cup {sent[h] : h \in Hooks})
    IN  tok \in Fresh /\ tok = CHOOSE t \in Fresh : TRUE

\* LoadOrCreateHookToken, when it has read a token or written one.  A read that fails is
\* one that found none; and while a start that found none makes its token, another
\* may write one.  Then it writes over a token.
LoadOrCreateHookToken ==
    \/ tokenFile # Nothing /\ UNCHANGED <<tokenFile, replaced, faults>>
    \/ tokenFile = Nothing /\ Made(tokenFile') /\ UNCHANGED <<replaced, faults>>
    \/ tokenFile # Nothing /\ Made(tokenFile') /\ replaced' = TRUE /\ Fault

\* Mutant: every start makes a token.
BugNewToken ==
    /\ daemon = "off" /\ daemon' = "up"
    /\ Made(tokenFile')
    /\ token' = tokenFile'
    /\ UNCHANGED <<replaced, caller, work, faults, rotations>>

Start ==
    /\ daemon = "off" /\ daemon' = "up"
    /\ LoadOrCreateHookToken
    /\ token' = tokenFile'
    /\ UNCHANGED <<caller, work, rotations>>

\* A start that comes up at another address, or not at all, has been at the token too.
OtherStart ==
    /\ LoadOrCreateHookToken
    /\ tokenFile' # tokenFile
    /\ UNCHANGED <<daemon, token, caller, work, rotations>>

\* Server.Stop: the listener is closed, requests go on, their contexts too.
Stop ==
    /\ Fault
    /\ daemon = "up" /\ daemon' = "draining"
    /\ UNCHANGED <<token, tokenFile, replaced, caller, work, rotations>>

\* The process is gone: the connections break, curl fails, and what the process had
\* started lives on, unless it was launchd that ran it, which ends its process group.
Gone ==
    /\ daemon' = "off"
    /\ \/ UNCHANGED review
       \/ review' = [h \in Hooks |->
             IF req[h] = "running" /\ review[h] = "open" THEN "killed" ELSE review[h]]
    /\ req' = [h \in Hooks |-> IF req[h] \in {"arrived", "running"} THEN "over" ELSE req[h]]
    /\ pc' = [h \in Hooks |-> IF pc[h] = "waiting" THEN "fallback" ELSE pc[h]]
    /\ UNCHANGED <<token, tokenFile, replaced, sent, own, out, rotations>>

\* Mutant: Shutdown has no deadline.
BugNoDeadline ==
    /\ daemon = "draining" /\ \A h \in Hooks : req[h] \notin {"arrived", "running"}
    /\ Gone /\ UNCHANGED faults

\* Shutdown returns when no request is left, or after five seconds; main returns.
Exit == daemon = "draining" /\ Gone /\ UNCHANGED faults

Crash == Serving /\ Fault /\ Gone

\* Somebody removes the token file, or empties it.
RemoveToken ==
    /\ tokenFile # Nothing /\ rotations < MaxRotations
    /\ tokenFile' = Nothing
    /\ rotations' = rotations + 1
    /\ UNCHANGED <<daemon, token, replaced, caller, work, faults>>

Wrapper(h) == ReadToken(h) \/ Connect(h) \/ ConnectFails(h) \/ FallBack(h)

Handler(h) == Reject(h) \/ Accept(h) \/ AcceptFails(h) \/ Respond(h)

User(h) == ReviewEnds(h) \/ DirectEnds(h)

Next ==
    \/ \E h \in Hooks : Wrapper(h) \/ Handler(h) \/ CallerGone(h) \/ User(h) \/ Abandon(h)
    \/ Start \/ OtherStart \/ Stop \/ Exit \/ Crash \/ RemoveToken

Spec == Init /\ [][Next]_vars

\* The processes run, and a broken connection is seen.
Fairness ==
    /\ WF_vars(Exit)
    /\ \A h \in Hooks : WF_vars(Wrapper(h)) /\ WF_vars(Handler(h)) /\ WF_vars(CallerGone(h))

FairSpec == Spec /\ Fairness

-----------------------------------------------------------------------------
(***************************************************************************)
(* Properties.                                                             *)
(***************************************************************************)

\* The wrapper asks the user itself only when no daemon that lives is at its request: no
\* answer of a daemon is awaited beside its own.  A review that has outlived its daemon
\* may be open beside it (ShutdownEndsReviews; plannotator-hook.sh 9-12, 35-40).
NoLiveDaemonAsksToo ==
    \A h \in Hooks : own[h] = "open" => req[h] \notin {"arrived", "running"}

\* hook.go 57: "Use r.Context() so the daemon can cancel via shutdown", and spec.md
\* 236-239.  Shutdown waits and then returns; it cancels no request's context.
ShutdownEndsReviews ==
    [][Exit => \A h \in Hooks : req[h] = "running" => review'[h] # "open"]_vars

\* Whatever restarts there are between a wrapper's reading of the token and its request,
\* and whatever other starts, it is turned away only if somebody has removed the token
\* file or a start has written over it: spec.md 158-161 knows no such start, Daemon's
\* TokenIsNeverReplaced shows one (config.go 215-232, plannotator-hook.sh 33-45).
RejectedOnlyAfterRotation ==
    rotations = 0 /\ ~replaced => \A h \in Hooks : out[h] # "unauthorized"

\* Whom h's wrapper has brought the plan before, to hear from.
AskedFor(h) ==
    CASE pc[h] \in {"start", "connect"}                          -> "nobody"
      [] pc[h] = "waiting" /\ req[h] = "arrived"                 -> "nobody"
      [] pc[h] = "waiting" /\ req[h] # "arrived"                 ->
            IF review[h] = "done" THEN "decided" ELSE "daemon"
      [] pc[h] \in {"fallback", "direct"}                        -> "wrapper"
      [] OTHER                                                   -> "over"

Promise == INSTANCE PlanReview WITH asked <- [h \in Hooks |-> AskedFor(h)], answer <- out

\* Through crashes, stops, restarts and new tokens, a call is one of PlanReview: the
\* daemon gets it once at most, the wrapper's user after it, and the review that comes
\* back is one that was made (plannotator-hook.sh 32-53, hook.go 40-71).
ImplementsPlanReview == Promise!Spec

\* Claude Code gets its hook back, whatever happens to the daemon meanwhile, if the user
\* who is asked decides; also if the daemon's user never does, once that daemon is being
\* stopped, for Shutdown has a deadline (plannotator-hook.sh 34-53, server.go 109-116).
HookReturns ==
    \A h \in Hooks :
        /\ (pc[h] = "waiting" /\ review[h] = "open") ~> (review[h] # "open" \/ daemon # "up")
        /\ own[h] = "open" ~> own[h] # "open"
        => <>(pc[h] \in {"done", "killed"})

\* A review whose caller has gone is ended, unless the daemon ends first (hook.go 57-58).
AbandonedReviewsEnd ==
    \A h \in Hooks \ Large :
        pc[h] = "killed" /\ req[h] = "running" ~> review[h] # "open" \/ req[h] = "over"
=============================================================================
