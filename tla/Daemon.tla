------------------------------- MODULE Daemon -------------------------------
(***************************************************************************)
(* Lives of the daemon: what a start reads and writes, in which order, what *)
(* a stop undoes, and what launchd, a second start and argus make of it.    *)
(* The link's failure counting is Registrar's subject and the pidfile's     *)
(* system calls are PidLock's; here a lost link is one step and the lock is *)
(* taken in one.                                                            *)
(***************************************************************************)
EXTENDS Integers

CONSTANTS
    Daemons,     \* places `start` is run from, each one life after another
    Agent,       \* the one launchd runs
    Addrs, DefaultAddr, \* where a daemon may listen; the plist leaves launchd's at the default
    Ports,       \* where argus may listen
    Fallback,    \* fallbackArgusBaseURL
    Override,    \* PLANNOTATOR_ARGUS_BASE_URL, or Nothing
    NumTools,
    Tokens,      \* hook tokens, more than there are daemons: a new one is like no other
    ReadErrors,  \* the token file may be there and not be readable
    MaxFaults,   \* bound on crashes, signals, failed checks and argus's troubles
    Nobody, Dead, Nothing

ASSUME DaemonAssumption ==
    /\ Agent \in Daemons
    /\ DefaultAddr \in Addrs /\ ReadErrors \in BOOLEAN
    /\ Fallback \in Ports /\ Override \in Ports \cup {Nothing} /\ Nothing \notin Ports \cup Tokens
    /\ NumTools \in Nat \ {0} /\ MaxFaults \in Nat
    /\ Nobody \notin Daemons \cup {Dead} /\ Dead \notin Daemons

Tools == 1..NumTools

VARIABLES
    \* per process
    phase, base, hookToken,
    addr,      \* ListenAddr, as its environment has it at every start
    next,      \* the tool Start registers or Stop unregisters next
    beat,      \* the tool the heartbeat's round POSTs next, 0 between rounds
    fatal,     \* daemons whose registrar has given up on argus
    sigterm,   \* daemons a signal has reached before they began to leave
    result,    \* how the process ended, or is going to: 0 or not
    missed,    \* daemons that stop, and one of whose DELETEs argus has not served
    \* shared
    bound,     \* daemons that listen
    lock,      \* who holds the pidfile's lock
    tokenFile, \* the token in HookTokenPath; Nothing: no file, or an empty one
    argus, port,
    registry,  \* whose callback and secret argus has for each tool; Dead: of a process that is gone
    faults,
    mishap     \* history: a start made a token although the file had one it could not
               \* read, or while another start was making one

process == <<addr, phase, base, hookToken, next, beat, fatal, sigterm, result, missed>>
files   == <<lock, tokenFile, mishap>>
world   == <<argus, port, registry>>
vars    == <<process, bound, files, world, faults>>

\* Run's statements; "off" before and after.  In "aborting" a failed Start, and in
\* "draining" Stop, has closed the listener and waits for the requests under way.
Phases == {"off", "configured", "create", "truncated", "checking", "starting", "aborting", "up",
           "serving", "releasing", "joining", "deleting", "closing", "draining"}

\* The phases in which srv is listening, and those in which heartbeatLoop runs.
Listening == {"starting", "up", "serving", "releasing", "joining", "deleting", "closing"}
Beating   == {"up", "serving", "releasing", "joining"}

\* From LoadOrCreateHookToken's return on.
Tokened == Listening \cup {"checking", "aborting", "draining"}

TypeOK ==
    /\ phase \in [Daemons -> Phases]
    /\ addr \in [Daemons -> Addrs]
    /\ base \in [Daemons -> Ports]
    /\ hookToken \in [Daemons -> Tokens \cup {Nothing}]
    /\ next \in [Daemons -> Tools]
    /\ beat \in [Daemons -> 0..NumTools]
    /\ fatal \in SUBSET Daemons
    /\ sigterm \in SUBSET Daemons
    /\ result \in [Daemons -> {"none", "clean", "failed"}]
    /\ missed \in SUBSET Daemons
    /\ bound \in SUBSET Daemons
    /\ lock \in Daemons \cup {Nobody}
    /\ tokenFile \in Tokens \cup {Nothing}
    /\ argus \in {"up", "sick", "revoked", "down"}
    /\ port \in Ports
    /\ registry \in [Tools -> Daemons \cup {Nobody, Dead}]
    /\ faults \in 0..MaxFaults
    /\ mishap \in BOOLEAN

Init ==
    /\ addr \in [Daemons -> Addrs] /\ addr[Agent] = DefaultAddr
    /\ phase = [d \in Daemons |-> "off"]
    /\ base = [d \in Daemons |-> Fallback]
    /\ hookToken = [d \in Daemons |-> Nothing]
    /\ next = [d \in Daemons |-> 1]
    /\ beat = [d \in Daemons |-> 0]
    /\ fatal = {} /\ sigterm = {} /\ missed = {}
    /\ result = [d \in Daemons |-> "none"]
    /\ bound = {} /\ lock = Nobody
    /\ tokenFile = Nothing /\ mishap = FALSE
    /\ argus \in {"up", "down"} /\ port \in Ports
    /\ registry = [t \in Tools |-> Nobody]
    /\ faults = 0

Goto(d, from, to) == phase[d] = from /\ phase' = [phase EXCEPT ![d] = to]

Fault == faults < MaxFaults /\ faults' = faults + 1

\* Whether argus serves a request of d as it should.
Serves(d) == argus = "up" /\ port = base[d]

\* What argus may hold after d has asked it to take `who` for tool t; a sick argus
\* may answer an error and may time out, having served the request or not.
Asked(d, t, who) ==
    CASE Serves(d)                          -> {[registry EXCEPT ![t] = who]}
      [] argus = "sick" /\ port = base[d]   -> {registry, [registry EXCEPT ![t] = who]}
      [] OTHER                              -> {registry}

\* The process ends: the kernel closes its listener and its pidfile, and what argus
\* has registered of it leads nowhere.
Exit(d, how) ==
    /\ phase' = [phase EXCEPT ![d] = "off"]
    /\ result' = [result EXCEPT ![d] = how]
    /\ base' = [base EXCEPT ![d] = Fallback]
    /\ hookToken' = [hookToken EXCEPT ![d] = Nothing]
    /\ next' = [next EXCEPT ![d] = 1]
    /\ beat' = [beat EXCEPT ![d] = 0]
    /\ fatal' = fatal \ {d}
    /\ sigterm' = sigterm \ {d}
    /\ missed' = missed \ {d}
    /\ bound' = bound \ {d}
    /\ lock' = IF lock = d THEN Nobody ELSE lock
    /\ registry' = [t \in Tools |-> IF registry[t] = d THEN Dead ELSE registry[t]]
    /\ UNCHANGED <<addr, tokenFile, mishap, argus, port>>

-----------------------------------------------------------------------------
(***************************************************************************)
(* Start.                                                                  *)
(***************************************************************************)

\* Discover: the RPC answers with the port, or there is an error, a time-out or a
\* disabled API (port 0), which all mean the fallback.
DiscoveredPorts ==
    CASE argus = "down"  -> {Fallback}
      [] argus = "sick"  -> {Fallback, port}
      [] OTHER           -> {port}

\* config.Default and LoadFromEnv: the override short-circuits the discovery.
Configure(d) ==
    /\ Goto(d, "off", "configured")
    /\ \E p \in IF Override # Nothing THEN {Override} ELSE DiscoveredPorts :
          base' = [base EXCEPT ![d] = p]
    /\ result' = [result EXCEPT ![d] = "none"]
    /\ UNCHANGED <<addr, hookToken, next, beat, fatal, sigterm, missed, bound, files, world, faults>>

\* The state directory, the hook token's file, the scope token or plannotator's health
\* check fails, the last also because the signal has cancelled its context.
CheckFails(d) ==
    /\ \/ phase[d] \in {"configured", "create", "truncated", "checking"} /\ Fault
       \/ phase[d] = "checking" /\ d \in sigterm /\ UNCHANGED faults
    /\ Exit(d, "failed")

Creating(e) == phase[e] \in {"create", "truncated"}

\* Mutant: every start makes a token.
BugNewToken(d) ==
    /\ Goto(d, "configured", "create")
    /\ mishap' = (mishap \/ \E e \in Daemons : Creating(e))
    /\ UNCHANGED <<addr, base, hookToken, next, beat, fatal, sigterm, result, missed, bound, lock, tokenFile, world, faults>>

\* LoadOrCreateHookToken, ReadFile: any error counts as no token.
ReadHookToken(d) ==
    /\ phase[d] = "configured"
    /\ \/ /\ tokenFile # Nothing
          /\ phase' = [phase EXCEPT ![d] = "checking"]
          /\ hookToken' = [hookToken EXCEPT ![d] = tokenFile]
          /\ UNCHANGED <<mishap, faults>>
       \/ /\ tokenFile = Nothing
          /\ phase' = [phase EXCEPT ![d] = "create"]
          /\ mishap' = (mishap \/ \E e \in Daemons : Creating(e))
          /\ UNCHANGED <<hookToken, faults>>
       \/ /\ ReadErrors /\ tokenFile # Nothing /\ Fault
          /\ phase' = [phase EXCEPT ![d] = "create"]
          /\ mishap' = TRUE
          /\ UNCHANGED hookToken
    /\ UNCHANGED <<addr, base, next, beat, fatal, sigterm, result, missed, bound, lock, tokenFile, world>>

Fresh == Tokens \ ({tokenFile} \cup {hookToken[e] : e \in Daemons})

\* randomToken, and WriteFile's open(O_TRUNC): the token is like no other in use, and
\* which one it is makes no difference.
TruncateTokenFile(d) ==
    /\ Goto(d, "create", "truncated")
    /\ \E tok \in Fresh :
          tok = (CHOOSE t \in Fresh : TRUE) /\ hookToken' = [hookToken EXCEPT ![d] = tok]
    /\ tokenFile' = Nothing
    /\ UNCHANGED <<addr, base, next, beat, fatal, sigterm, result, missed, bound, lock, mishap, world, faults>>

\* Mutant: a token that is made is used and not written.
BugTokenNotWritten(d) ==
    /\ Goto(d, "truncated", "checking")
    /\ UNCHANGED <<addr, base, hookToken, next, beat, fatal, sigterm, result, missed, bound, files, world, faults>>

WriteHookToken(d) ==
    /\ Goto(d, "truncated", "checking")
    /\ tokenFile' = hookToken[d]
    /\ UNCHANGED <<addr, base, hookToken, next, beat, fatal, sigterm, result, missed, bound, lock, mishap, world, faults>>

Taken(d) == \E e \in bound : addr[e] = addr[d]

Listen(d) ==
    /\ d \notin sigterm
    /\ ~Taken(d)
    /\ Goto(d, "checking", "starting")
    /\ bound' = bound \cup {d}
    /\ UNCHANGED <<addr, base, hookToken, next, beat, fatal, sigterm, result, missed, files, world, faults>>

\* Mutant: a start that fails at Listen unregisters the tools it would have registered.
BugUnregistersAnyway(d) ==
    /\ Taken(d) /\ Goto(d, "checking", "deleting")
    /\ result' = [result EXCEPT ![d] = "failed"]
    /\ UNCHANGED <<addr, base, hookToken, next, beat, fatal, sigterm, missed, bound, files, world, faults>>

ListenFails(d) ==
    /\ phase[d] = "checking" /\ Taken(d)
    /\ Exit(d, "failed")
    /\ UNCHANGED faults

\* Registrar.Start, one tool.  A POST is an upsert.
RegisterTool(d) ==
    /\ phase[d] = "starting" /\ Serves(d) /\ d \notin sigterm
    /\ registry' = [registry EXCEPT ![next[d]] = d]
    /\ IF next[d] = NumTools
       THEN phase' = [phase EXCEPT ![d] = "up"] /\ next' = [next EXCEPT ![d] = 1]
       ELSE next' = [next EXCEPT ![d] = @ + 1] /\ UNCHANGED phase
    /\ UNCHANGED <<addr, base, hookToken, beat, fatal, sigterm, result, missed, bound, files, argus, port, faults>>

\* The first error ends Start, which unregisters nothing; Server.Stop closes the listener
\* at once.
RegisterFails(d) ==
    /\ ~Serves(d) \/ d \in sigterm
    /\ Goto(d, "starting", "aborting")
    /\ registry' \in {registry} \cup Asked(d, next[d], d)
    /\ result' = [result EXCEPT ![d] = "failed"]
    /\ bound' = bound \ {d}
    /\ UNCHANGED <<addr, base, hookToken, next, beat, fatal, sigterm, missed, files, argus, port, faults>>

-----------------------------------------------------------------------------
(***************************************************************************)
(* Run, the heartbeat and Stop.                                            *)
(***************************************************************************)

TakeLock(d) ==
    /\ lock = Nobody
    /\ Goto(d, "up", "serving")
    /\ lock' = d
    /\ UNCHANGED <<addr, base, hookToken, next, beat, fatal, sigterm, result, missed, bound, tokenFile, mishap, world, faults>>

\* Another daemon holds the lock, or the probe of a command does for a moment.  The
\* deferred Stop runs.
LockFails(d) ==
    /\ \/ lock # Nobody /\ UNCHANGED faults
       \/ lock = Nobody /\ Fault
    /\ Goto(d, "up", "joining")
    /\ result' = [result EXCEPT ![d] = "failed"]
    /\ UNCHANGED <<addr, base, hookToken, next, beat, fatal, sigterm, missed, bound, files, world>>

\* Run's select: when both channels are ready either may be received.
LeaveSelect(d) ==
    /\ Goto(d, "serving", "releasing")
    /\ \/ d \in sigterm /\ result' = [result EXCEPT ![d] = "clean"]
       \/ d \in fatal /\ result' = [result EXCEPT ![d] = "failed"]
    /\ UNCHANGED <<addr, base, hookToken, next, beat, fatal, sigterm, missed, bound, files, world, faults>>

ReleaseLock(d) ==
    /\ Goto(d, "releasing", "joining")
    /\ lock' = Nobody
    /\ UNCHANGED <<addr, base, hookToken, next, beat, fatal, sigterm, result, missed, bound, tokenFile, mishap, world, faults>>

\* A round of the heartbeat, one POST at a time.
HeartbeatTick(d) ==
    /\ phase[d] \in Beating /\ beat[d] = 0
    /\ beat' = [beat EXCEPT ![d] = 1]
    /\ UNCHANGED <<addr, phase, base, hookToken, next, fatal, sigterm, result, missed, bound, files, world, faults>>

\* Mutant: a tool is POSTed again only if argus no longer has it.
BugRepostIfMissing(d) ==
    /\ beat[d] > 0
    /\ registry' \in IF registry[beat[d]] = Nobody THEN Asked(d, beat[d], d) ELSE {registry}
    /\ beat' = [beat EXCEPT ![d] = (@ + 1) % (NumTools + 1)]
    /\ UNCHANGED <<addr, phase, base, hookToken, next, fatal, sigterm, result, missed, bound, files, argus, port, faults>>

\* Mutant: the round goes on to a tool that is not there.
BugRoundNotWrapped(d) ==
    /\ beat[d] > 0
    /\ registry' \in Asked(d, beat[d], d)
    /\ beat' = [beat EXCEPT ![d] = @ + 1]
    /\ UNCHANGED <<addr, phase, base, hookToken, next, fatal, sigterm, result, missed, bound, files, argus, port, faults>>

HeartbeatPost(d) ==
    /\ beat[d] > 0
    /\ registry' \in Asked(d, beat[d], d)
    /\ beat' = [beat EXCEPT ![d] = (@ + 1) % (NumTools + 1)]
    /\ UNCHANGED <<addr, phase, base, hookToken, next, fatal, sigterm, result, missed, bound, files, argus, port, faults>>

\* What Registrar establishes of emitFatal: argus was not there, or refused the token.  After
\* the select nobody receives it.
LinkLost(d) ==
    /\ phase[d] \in {"up", "serving"} /\ ~Serves(d) /\ d \notin fatal
    /\ fatal' = fatal \cup {d}
    /\ UNCHANGED <<addr, phase, base, hookToken, next, beat, sigterm, result, missed, bound, files, world, faults>>

\* Mutant: the listener is closed before the tools are unregistered.
BugCloseFirst(d) ==
    /\ beat[d] = 0
    /\ Goto(d, "joining", "deleting")
    /\ bound' = bound \ {d}
    /\ UNCHANGED <<addr, base, hookToken, next, beat, fatal, sigterm, result, missed, files, world, faults>>

\* Daemon.Stop has joined the sessions; Registrar.Stop joins heartbeatLoop.
JoinHeartbeat(d) ==
    /\ beat[d] = 0
    /\ Goto(d, "joining", "deleting")
    /\ UNCHANGED <<addr, base, hookToken, next, beat, fatal, sigterm, result, missed, bound, files, world, faults>>

\* UnregisterTool: by name, whoever registered it.  Errors are logged.  All the DELETEs
\* share ten seconds: one that argus has not served may leave none for the next.
DeleteTool(d) ==
    /\ phase[d] = "deleting"
    /\ registry' \in Asked(d, next[d], Nobody) \cup (IF d \in missed THEN {registry} ELSE {})
    /\ missed' = IF Serves(d) THEN missed ELSE missed \cup {d}
    /\ IF next[d] = NumTools
       THEN phase' = [phase EXCEPT ![d] = "closing"] /\ next' = [next EXCEPT ![d] = 1]
       ELSE next' = [next EXCEPT ![d] = @ + 1] /\ UNCHANGED phase
    /\ UNCHANGED <<addr, base, hookToken, beat, fatal, sigterm, result, bound, files, argus, port, faults>>

\* Server.Stop: the listener is closed at once, whatever argus still has of it.
Close(d) ==
    /\ Goto(d, "closing", "draining")
    /\ bound' = bound \ {d}
    /\ UNCHANGED <<addr, base, hookToken, next, beat, fatal, sigterm, result, missed, files, world, faults>>

\* The requests under way have ended, or five seconds have passed; main's exit status.
Drained(d) ==
    /\ phase[d] \in {"aborting", "draining"}
    /\ Exit(d, result[d])
    /\ UNCHANGED faults

-----------------------------------------------------------------------------
(***************************************************************************)
(* The environment.                                                        *)
(***************************************************************************)

\* SIGTERM or SIGINT cancels Run's context, at any time up to its select.
Signal(d) ==
    /\ phase[d] \in Phases \ {"off", "aborting", "releasing", "joining", "deleting", "closing", "draining"}
    /\ d \notin sigterm /\ Fault
    /\ sigterm' = sigterm \cup {d}
    /\ UNCHANGED <<addr, phase, base, hookToken, next, beat, fatal, result, missed, bound, files, world>>

Crash(d) ==
    /\ phase[d] # "off" /\ Fault
    /\ Exit(d, "failed")

\* argus answers errors or nothing, refuses the scope token, goes away, recovers.
ArgusChanges ==
    /\ \/ argus' \in {"sick", "revoked", "down"} \ {argus} /\ Fault
       \/ argus' = "up" /\ argus # "up" /\ UNCHANGED faults
    /\ UNCHANGED <<process, bound, files, port, registry>>

\* A restarted argus knows no tools and may have another port.
ArgusRestarts ==
    /\ IF argus = "down" THEN UNCHANGED faults ELSE Fault
    /\ argus' = "up" /\ port' \in Ports
    /\ registry' = [t \in Tools |-> Nobody]
    /\ UNCHANGED <<process, bound, files>>

\* The idle sweep takes what nobody has refreshed: a tool of a dead process, or one
\* whose heartbeats argus does not accept.
ArgusSweeps ==
    /\ \E t \in Tools :
          /\ registry[t] # Nobody
          /\ registry[t] = Dead \/ argus # "up"
          /\ registry' = [registry EXCEPT ![t] = Nobody]
    /\ UNCHANGED <<process, bound, files, argus, port, faults>>

Startup(d) ==
    \/ ReadHookToken(d) \/ TruncateTokenFile(d) \/ WriteHookToken(d) \/ CheckFails(d)
    \/ Listen(d) \/ ListenFails(d) \/ RegisterTool(d) \/ RegisterFails(d)
    \/ TakeLock(d) \/ LockFails(d)

Heartbeat(d) == HeartbeatTick(d) \/ HeartbeatPost(d)

Stopping(d) == ReleaseLock(d) \/ JoinHeartbeat(d) \/ DeleteTool(d) \/ Close(d) \/ Drained(d)

Argus == ArgusChanges \/ ArgusRestarts \/ ArgusSweeps

Next ==
    \/ \E d \in Daemons :
          \/ Configure(d) \/ Startup(d) \/ Heartbeat(d) \/ LinkLost(d)
          \/ LeaveSelect(d) \/ Stopping(d) \/ Signal(d) \/ Crash(d)
    \/ Argus

Spec == Init /\ [][Next]_vars

\* launchd: RunAtLoad, and again after every exit but a successful one.
Launch == result[Agent] # "clean" /\ Configure(Agent)

\* Run's thread, from statement to statement.
Run(d) == Startup(d) \/ LeaveSelect(d) \/ Stopping(d)

\* The agent's process runs; nothing is assumed of the others, and argus has to do nothing.
\* Between two rounds heartbeatLoop's select sees the closed stopCh; a tick that is
\* ready too cannot win it for ever.
Fairness ==
    /\ WF_vars(Launch) /\ WF_vars(Run(Agent))
    /\ WF_vars(Heartbeat(Agent)) /\ WF_vars(LinkLost(Agent)) /\ SF_vars(JoinHeartbeat(Agent))

FairSpec == Spec /\ Fairness
-----------------------------------------------------------------------------
(***************************************************************************)
(* Properties.                                                             *)
(***************************************************************************)

\* A daemon answers hook requests that carry the token on file, whatever starts
\* and crashes there have been, unless two starts made a token at the same time or
\* one could not read it (config.go 215-232).
TokenOnFile ==
    mishap \/ \A d \in Daemons : phase[d] \in Tokened => hookToken[d] = tokenFile

\* Once there is a token on file it stays, through every start, crash and stop, under the
\* same conditions, which spec.md 158-161 does not know (TokenIsNeverReplaced): what a
\* wrapper has read is good for whichever daemon it reaches (config.go 215-232,
\* plannotator-hook.sh 24-33).
TokenIsKept ==
    [][~mishap' /\ tokenFile # Nothing => tokenFile' = tokenFile]_vars

\* spec.md 158-161: where there is a token on file a start "reads the existing token and
\* does NOT overwrite the file".  A read that fails is one that found none (config.go
\* 216-231), and the token is replaced.
TokenIsNeverReplaced == [][tokenFile # Nothing => tokenFile' = tokenFile]_vars

\* A callback argus has of a running process leads to an open listener, through every
\* start and stop: the listener is there before the first POST and closes after the last
\* DELETE.  Only a start that fails at a tool leaves what it had registered, and a stop the
\* tools whose DELETEs argus did not serve, to a process that drains with its listener
\* closed; and no two daemons answer at one address (run.go 104-118, 147-166).
CallbacksAreServed ==
    /\ \A d \in Daemons :
          (\E t \in Tools : registry[t] = d) => d \in bound \/ phase[d] = "aborting" \/ d \in missed
    /\ \A d, e \in bound : addr[d] = addr[e] => d = e

\* What argus has registered of a daemon that listens goes only when argus itself drops
\* it, the daemon unregisters it or ends, or a daemon with another address is up: a start
\* with the same address, which fails, and what it undoes then take nothing
\* (run.go 104-118, 147-150, 192).
RegistrationsMaintained ==
    [][\A d \in bound, t \in Tools :
          registry[t] = d /\ registry'[t] # d =>
             \/ Argus \/ phase[d] = "deleting" \/ phase'[d] = "off"
             \/ \E e \in bound : addr[e] # addr[d]]_vars

Stopped(d) == phase[d] = "off" /\ result[d] = "clean"
Linked(d)  == phase[d] = "serving" /\ \A t \in Tools : registry[t] = d

\* The agent launchd runs ends up with all its tools registered, after any crashes,
\* failed starts, moves of argus, and starts at other addresses that took its tools, once argus is well
\* and the others are gone; unless somebody stopped it (run.go 177-181, the plist).
LaunchdHeals ==
    <>[](argus = "up" /\ \A e \in Daemons \ {Agent} : phase[e] = "off")
       => <>[](Stopped(Agent) \/ Linked(Agent))
=============================================================================
