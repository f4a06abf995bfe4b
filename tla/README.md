# plannotator-argus, in TLA+

`plannotator-argus` is a daemon that runs outside argus's task sandboxes and
drives the `plannotator` command for the agents inside them. Argus calls it back
over HTTP; each verb tool spawns one `plannotator` subprocess (a browser session
with a user) and answers at once, and the agent polls
`plannotator_session_result` for the outcome. Beside the tools there is `/hook`: Claude
Code's plan review, sent to the daemon by a wrapper script. This directory models the
parts in which several things happen at the same time, and the check that decides
which files a tool call may name.

## The system

| Part | State | Operations | Talks to |
|---|---|---|---|
| session store (`internal/mcp/session_store.go`) | map id -> session (status, URL, result, `done` channel) under a lock | Create, SetURL, MarkComplete, MarkFailed, Get, WaitForResolution, GC | handlers, gcLoop |
| verb handlers (`internal/mcp/handlers.go`) | per call: a subprocess, two goroutines, the `SessionWG` counter | startSession, plannotator_session_result | store, runner, Daemon.Stop (context and counter) |
| runner (`internal/plannotator/runner.go`) | none | Spawn, DiscoverSessionURL, Run, HealthCheck | the subprocess and its `sessions/<pid>.json` |
| registrar (`internal/mcp/registrar.go`) | failure counter, fast-retry timer, fatal channel | Start, heartbeat loop, handleRound, Stop | argus through `internal/argus/client.go`; Run through the channel |
| daemon (`internal/daemon/run.go`, `cmd/plannotator-argus`) | the parts above, `parentCtx`, the collector; result and exit status | Start, Run, Stop, gcLoop | everything; launchd, which starts it again |
| configuration and tokens (`internal/config`), discovery (`internal/argus/discover.go`) | argus's address, the listen address, the hook token and its file | Default, LoadFromEnv, LoadOrCreateHookToken, Discover | Start, argus |
| pidfile lock (`internal/daemon/pidfile.go`) | a path, a file, its flock | AcquirePIDLock, Release, ProbePIDFile | Run, `stop`, `status` |
| commands (`cmd/plannotator-argus`) | none | start, stop, status | the pidfile, SIGTERM |
| callback server (`internal/mcp/server.go`) | the listener | Start, Stop, handleMCP | argus, the handlers |
| hook (`internal/hook`) | one subprocess per request | ServeHTTP | the callback server, runner |
| wrapper (`deploy/plannotator-hook.sh`) | none | reads the token, asks the daemon, falls back to its own plannotator | the token file, `/hook` |
| path resolution (`internal/mcp/paths.go`) | none | ResolvePath | the verb handlers; the file system |
| installers, bash guard | files only | | |

What is hard about it:

- *Sessions.* Five kinds of thread (handler, discovery, lifecycle, pollers,
  collector) meet in one map while `Daemon.Stop` cancels, joins and tears down.
  Correct means: a session resolves once, with its own subprocess's outcome;
  nobody sleeps through it; answers never go back; it is forgotten only after
  its TTL; every call and the shutdown end.
- *The link to argus.* The decision that the link is lost is taken from a sequence
  of rounds, each the worst of several POSTs, by two timers; it must not be taken
  on a single failure and must be taken eventually. Stop's DELETEs race POSTs.
- *The pidfile.* open, flock, truncate, write, unlock and unlink are separate system
  calls of several processes, and unlinking a path says nothing of who holds the file.
- *One life after another.* A start reads and writes the token file, listens, registers
  and takes the lock, in this order, and may fail after each; launchd, a second
  start, a signal, a crash and a restarted argus come in between. Stop undoes it in an
  order that leaves no callback without a listener, unless argus does not serve a
  DELETE; a start that fails half way undoes less. In the end the agent's tools
  must be registered.
- *Plan reviews.* The daemon may go away while the wrapper waits: then the wrapper asks
  the user itself, which it must not do while the daemon still holds the request. Shutdown
  waits for requests that wait for users, gives up after five seconds, and leaves the
  reviews behind. Every start may have been at the token file that the wrapper reads.
- *Links.* A path and the directory it must be in are compared as written or resolved,
  depending on what exists.

`PROJECT.json` lists every place where these hazards bite, with the properties
that watch it.

## Modules

| Module | What it is |
|---|---|
| `SessionLifecycle` | The abstract promise of the session tools: where a session stands, and what clients are told of it. |
| `SessionLifecycleProofs` | Its invariant and its action property, proved. |
| `Sessions` | Store, handlers, subprocess, pollers, collector, Stop. Implements `SessionLifecycle`. |
| `SessionsProofs` | Its invariant, its safety properties and the exactness of its counter, proved. |
| `SessionsRefinement` | `Sessions` implements `SessionLifecycle`, proved. |
| `LinkVerdict` | The abstract rule by which the link to argus is given up. |
| `Registrar` | Registrar, with argus as environment. Implements `LinkVerdict`. |
| `RegistrarProofs` | Its safety properties and that it implements `LinkVerdict`, proved for any number of tools. |
| `PidLock` | Pidfile and lock: daemons, `status`, `stop`. |
| `PidLockProofs` | Its safety properties, proved for any number of daemons, commands and files. |
| `Daemon` | Lives of the daemon: Start, Run, Stop, beside a second start, launchd and argus. |
| `DaemonProofs` | Its safety properties, proved for any number of daemons and tools. |
| `PlanReview` | The abstract promise to a hook call: whom its plan is put before, and what it is answered. |
| `Hook` | The wrapper, `/hook`, the plannotator behind either, and the daemon's lives meanwhile. Implements `PlanReview`. |
| `HookProofs` | Its safety properties and that it implements `PlanReview`, proved for any number of invocations. |
| `Paths` | `ResolvePath` over file systems with links. |
| `PathsProofs` | Its properties, proved for any names, links and limit on links. |
| `MCSessions`, `MCRegistrar`, `MCPidLock`, `MCDaemon`, `MCHook`, `MCPaths` | Instances for TLC (small sets of values). |

Which detail is where: `Daemon` has the order of the parts, and each part's own
detail is in the module of that part. What `Daemon` takes as one step, the others
justify: a lost link (`Registrar`: the fatal error needs evidence, and comes), the lock
(`PidLock`), the join of sessions and the HTTP shutdown (`Sessions`, `Hook`). What
starts do to the token file is in both: in `Daemon` with the steps of reading and writing
it, where `TokenIsKept` and its exceptions are established; in `Hook` as one step with the
same outcomes (`LoadOrCreateHookToken`: the token is read, made because there is none, or
written over one that is there), for the daemon it asks and for any other start.

Operators whose name begins with `Bug` are mutants: each is a definition of the
module with a plausible bug, unused by the specification, and `PROJECT.json` says
which property finds it when it takes the definition's place.

### Sessions

One name stands for a call of `startSession` and for the session it creates. The
call's steps (spawn, Create, WG.Add with the `go` statements, reply) are separate
actions because Stop runs at the same time. Every critical section of the store is one
action; what the code does between two of them is between two actions: the gap
between `cmd.Wait` and `MarkComplete`, between the two looks of
`WaitForResolution`, between the cutoff and the sweep of `GC`. A subprocess may
end with an output or an error at any time, and once `parentCtx` is cancelled by
SIGKILL; `cmd.Wait` may then report an error for a subprocess that ended well.
`completedAt` stays after the collector removes the entry (history, for the
properties). Deadlines are nondeterministic: a timer may fire at any moment, and
fairness makes it fire. `told` is a history variable: the last answer given about a
session, to whichever client; answers are recorded in the order of the looks at
the store.

### Registrar

One action per POST and per DELETE; `handleRound`'s reaction is one action with a
disjunct per outcome. `argus` says how argus answers now: `up` (200/201), `failing`
(an HTTP error), `revoked` (401), `gone` (connection refused), `hung` (no answer until
the client gives up). A hung POST may be served later (`late`). `budget` is the
round's 30 s context in units of client time-outs. `seen`, `failures` and
`sawUnauthorized` are history up to the fatal error: what
the rounds met, not what the classifier made of it, so that the properties
judge the classifier. What the model admits and no property forbids: two failures with a
round between them that ended in an HTTP error are fatal, although `registrar.go` 22-24 and
90-92 call the two consecutive (the counter is reset by a successful round only); a POST
given up may be served after Stop's DELETE of the same tool.

`LinkVerdict` knows rounds only: one failure is doubt, a second before a round that is
well is the verdict, a 401 is one at once, and a verdict stays. `failures` is the history
variable, and the verdict is read off the channel or, when Run has taken it from there, off
what Run returns (`CurrentVerdict`).

### PidLock

One action per system call. A daemon's name is also its process number. `path`
names an inode or nothing; inodes that are neither named nor open are reused.
`start` binds its address before it takes the lock and closes it after it has
released the lock, as Run's deferred calls do. A daemon may crash anywhere, and a signal
from elsewhere than `stop` may reach it anywhere (`Interrupt`); it is kept for Run's select.
What it does to Start's own calls, before the lock, is in `Daemon`. `status`
and `stop` are the same probe with different reactions. Process numbers are not
reused: a number in a stale file belongs to a daemon that has exited. What the model admits
and no property forbids: a start that meets a probe's lock fails as if a daemon were
running (`LockBusy`), although `pidfile.go` 28-30 calls whoever holds it "a genuine running
daemon".

### Daemon

`phase` is the statement of Start, Run or Stop a process is at; "off" before and after. The
listener is closed some time before the process ends: `Server.Stop` closes it and then waits
up to five seconds for the requests under way, at the end of Stop (`draining`) and of a Start
that fails at a tool (`aborting`). `missed` is history: the daemons that have not got one
of their DELETEs served. A
process that ends (`Exit`) loses its lock and whatever it has open, and callbacks of it become
`Dead`. `addr` is the address its environment gives it at every start: the agent's is the
default, another's may be the same or not. All share one state directory, so one
token file and one lock. `argus` is `up`, `sick` (errors, time-outs, served or not),
`revoked` (401) or `down`, and listens on `port`; `DiscoveredPorts` is what the RPC may
answer then, and `base` what the start made of it. A token that is made is like
no other in use: which it is is left to CHOOSE, and there are more tokens
than daemons for that. `WriteFile` is two steps, the truncation and the write, since another
start may read in between. A POST that is served late is `Registrar`'s subject and
left out here.

What the model admits and no property of the passing run forbids:

- A start at another address takes the running daemon's tools and then unregisters them, and
  they come back only with its next heartbeat (`RegistrationsMaintained` exempts it;
  `spec.md` 10, maintained "for the daemon's lifetime", does not).
- Two first starts at the same time, or one that cannot read the token file, leave a daemon
  with a token that is not on file (`mishap`), or write over the token: finding 5.
- After a failed start at the second tool, or a DELETE that argus did not serve, argus has a
  callback of a process that still runs and no longer listens, until the drain is over
  (`CallbacksAreServed` names the two cases and allows no other).
- A signal during a start makes it fail, so that launchd starts it again, and leaves tools
  that had been registered to argus's idle sweep; `spec.md` 22-25 (DELETEs each before
  exiting) and 246-249 (exits cleanly) make no exception for it.

### Hook

`pc` is where a wrapper is, `req` its request at the daemon, `review` the plannotator the
daemon runs for it and `own` the one it runs itself. The daemon is `off`, `up` or
`draining`: in `Shutdown`, which ends when no request is left or after five
seconds, so `Exit` may come at any time of it. The user may let a review
open for ever. Claude Code may give up on a wrapper that waits (`Abandon`). A
payload over a MiB (`Large`) is cut; since the rest of the body stays unread, net/http
does not watch the connection and the loss of the caller is not noticed. `curl` runs
without `--fail`, so every HTTP answer is the hook's output. Shutdown does not
cancel a request's context: when the daemon ends, `review` may stay open, of a process
that is nobody's, and the wrapper falls back, so that a user may have the same plan before
him twice (finding 6). Under launchd the review ends too, with the process group (the plist does
not set `AbandonProcessGroup`); `Gone` has both outcomes. What remains true is
`NoLiveDaemonAsksToo`: there is never a daemon that lives and would answer a call that its wrapper has
taken back. `OtherStart` is a start that ends without being the daemon the wrapper
asks, at another address or because it failed; it has been at the token file all the same.
`replaced` is history: some start has written over a token that was there.

`PlanReview` follows one call: the plan is with nobody, with the daemon's user, decided
by him, with the wrapper's user, or the call is over; it goes forward only, a daemon's end
moves any number of calls at once, and an answer says where it comes from.
`AskedFor` reads this off the wrapper, its request and the review. An orphan's user is not
asked any more in this sense: nobody hears him.

### Paths

A file system says of each path of up to two names what it is: missing, a file or
directory, or a link to a path. `EvalSymlinks` follows one link after the other, the first of
the path each time, up to `MaxLinks`; `Join` cleans `..` away as it is written, without
looking at links, as `filepath` does. Both are recursive functions over numbers. The
answer is one step, so the properties are about a function. One exception the
properties name is the code's own: a name that begins with two dots is refused
directly below cwd (`HasPrefix(rel, "..")`). A URL is passed on before
any of this and is left out.

A file yet to be made is compared as it is written (`Real`), with a cwd whose links are
resolved. `NewFilesAreAccepted` is about one whose directory no link leads to. Where
a link is on the way the code does what the model does and the documents say otherwise: its
absolute path is refused if cwd is reached through a link (`spec.md` 192-195: accepted),
and it is accepted if the link leads out of cwd (`paths.go` 11-13 and `spec.md` 202-205: an error
for a component that exists). No property covers these two cases.

## Runs

| Run | Instance | Shows |
|---|---|---|
| `sessions_clients` | 1 session, 2 polling clients, TTL 1, clock to 2, fairness | every behaviour is one of `SessionLifecycle` (`ImplementsPromise`); wakeups match verdicts, a clean join leaves nothing running, verdicts are the subprocess's own, sessions are not forgotten early, answers move forward; ends are reported, polls, calls and Stop return |
| `sessions_late_add` | 1 session | finding 1 |
| `registrar` | 2 tools, context of one time-out, fairness | every behaviour is one of `LinkVerdict` (`ImplementsVerdict`); the fatal error has evidence, the fast retry belongs to one outstanding failure, unregistered tools stay so; a lost link is fatal, fatal or signal stops the daemon, heartbeats restore |
| `pidlock` | 2 daemons of one address, 1 operator, 3 inodes, fairness | one daemon holds a lock, the serving daemon's file names it, "stopped" is not said of a serving daemon; signalled daemons exit, commands end |
| `pidlock_probe` | 1 daemon, 2 operators | finding 2 |
| `pidlock_stopped` | 1 daemon, 1 operator | finding 3 |
| `pidlock_holders` | 3 daemons with addresses of their own | finding 4 |
| `daemon` | the agent and another start at its address or another, 2 tools, 2 ports, 3 tokens, 1 fault, fairness | the token served is on file and a token on file stays, but for mishaps; callbacks lead to listeners, but of a process that drains; a start at the same address takes nothing, and the agent ends up with its tools registered |
| `daemon_token` | the same with a token file that may be unreadable, 2 faults | finding 5 |
| `hook` | 2 invocations, one in a sandbox with a long payload, 5 tokens, 3 faults, 1 removal of the token, fairness | every call is one of `PlanReview` (`ImplementsPlanReview`); no user is asked by a wrapper while a live daemon has its request, restarts turn nobody away but by a token written over another, hooks return if their user decides or the daemon is stopped, abandoned reviews end |
| `hook_shutdown` | the same, without fairness | finding 6 |
| `paths` | every path of up to 3 of the names `a`, a two-dot name and `..`, absolute or not, in every tree of two levels with links, 2 cwds | what is accepted and exists lies inside, what lies inside is accepted, and so are new files where no link leads |

Why the bounds are enough. Sessions share nothing but the counter, the collector and
the shutdown, each of which treats them one by one; one session has two goroutines to count, a
collector and a shutdown to race, and two clients that race each other. That more
sessions change nothing of the safety properties is proved, for any number. A clock to
TTL + 1 lets a cutoff grow stale across an expiry. A round's
outcome is a maximum, for which two tools suffice; a third counted failure comes
after the fatal one and changes nothing. Three inodes allow an unlinked file that is
locked, one that is open and a fresh one. `MaxTime` and `MaxFailures` bound the
clock and the failures counted after the fatal one.
Two daemons are a pair of everything that can race (two starts that make a token, a
holder of the lock and a start that fails at it). `MaxFaults` bounds the
disturbances of `Daemon` (a crash, a signal, a check or a read that fails, argus getting
worse); one is enough to put any state of the machine at risk, and what
follows is free of charge: relaunches, further starts of the other, argus's recovery
and its restarts from `down` at another port. With one fault a life after the next is
reached, and with it stale registrations, tokens and addresses. A start that fails and
drains comes with the one fault, a DELETE that misses too. In `Hook` three faults
are a stop, a crash of the next life and an abandoned caller together, or a token written
over another between a read and its request; each hook is one
payload, two share only the daemon and the token file. Five tokens are one on file, one
with the daemon, two with wrappers and a new one. In `Paths` two levels hold a link to a directory
that holds a link, from which `..` leads out; a third name of a path leads
below a file or back up. Nothing else is bounded.

Fairness. A goroutine or process that can take a step takes it (WF); timers and
deadlines pass; a Go `select` chooses at random, so a ready channel is not passed
over for ever (SF of `LoopExits`, `GCExit`); the ten seconds of `stop` pass however
often it polls (SF of `PollTimesOut`). Nothing is assumed of the user, the
subprocess, the clients, argus, or whoever sends the signal; nothing has to crash.
In `Daemon` the agent's launchd starts it again after every exit but a successful one
(WF of `Launch`: `KeepAlive` in the plist), the agent's two threads take their steps (WF; nothing
is assumed of other daemons) and the join
of the heartbeat is not passed over for ever by ticks that are ready at the same moment (SF
of `JoinHeartbeat`). `LaunchdHeals` has a condition instead of fairness of argus: that in the
end argus is well and other daemons are gone. In `Hook` the wrapper, the handler and
the shutdown's deadline are fair; that users decide, or the daemon is stopped, is the
condition of `HookReturns` and of nothing else.

## Findings

Each is a run that TLC refutes, of a statement quoted from the repository.

1. `JoinedBeforeStopReturns`. A call that has spawned but not yet called
   `SessionWG.Add` when Stop joins is not counted; the listener is still open then.
2. `ProbeProvesADaemon`. A busy lock may be another command's probe.
3. `StoppedMeansExited`. The lock is released before `Daemon.Stop` runs.
4. `OneLockHolder`. Unlock, then unlink: between the two the file can be locked by a
   daemon whose pidfile is about to vanish.
5. `TokenIsNeverReplaced`. Any error of reading the token file counts as its absence, and a
   start that found none writes its token over the one another has written meanwhile
   (`config.go` 215-232); `spec.md` 158-161 says that a token on file is not overwritten.
6. `ShutdownEndsReviews`. `http.Server.Shutdown` waits for a review and cancels no context:
   at its deadline the review is still open. `hook.go` 57 and `spec.md` 236-239 say that the
   shutdown ends it.

`OneDaemonPerAddress` and `StoppedMeansNotServing` say what holds in place of 3 and 4,
`TokenIsKept` and `RejectedOnlyAfterRotation` in place of 5, and `NoLiveDaemonAsksToo` in place of 6.

## Proofs

Every safety property of the passing runs is a theorem of its specification, and so are
the three refinements, for every
value of the constants that satisfies the modules' `ASSUME`s, which say no more than
what kind of thing each constant is (`RegistrarAssumption`, `TimeAssumption`,
`OutputsAssumption`, `NoSessionAssumption`, `PidLockAssumption`, `DaemonAssumption`,
`HookAssumption`, `PathsAssumption`). Finiteness of the sets of sessions, clients, daemons,
hooks, files or names is not assumed. Most of the properties are not
inductive; the invariants (`IInv`, checked by TLC before they were proved) add why
they hold.

*SessionLifecycle.* `TrueAnswers`: an answer was true when it was given. From it,
`AnswersNeverGoBack`.

*Sessions.* `ThreadsInOrder` ties subprocess and goroutines to what the handler has done
(a verdict about to be recorded is already true: without this, `VerdictIsTheProcesss`
breaks at `MarkComplete`). `StoreInOrder` says a session is pending exactly from
`Create` to the end of its lifecycle goroutine (without it a swept session could
resolve again). `ClientsInOrder` says what may have been told of an entry that is there;
`CutoffIsOld` that a cutoff is a TTL old when used. `ForgottenOnlyAfterTTL` follows
from the last two however long the collector waits for the lock.
`CleanJoin` adds `CounterIsExact`: the counter is the number of discovery
goroutines plus the number of lifecycle goroutines still running; with
`ThreadsInOrder`, zero means that every launched session is over.
`SessionsRefinement` maps each action to the abstract action it is (`Create` to
`Begin`, the two `Mark`s to `Resolve`, a sweep to `Expire`, both looks of a poll to
`Tell`, ...) and the rest to stuttering.

*Registrar.* `WorstIsJust` relates the classifier's running maximum to what the POSTs
really met; `BeforeFatal` says that until the fatal error the counter is the number of
failed rounds since the last success and the fast retry is pending exactly while there is
one; `LoopThenDeletes` that Stop's DELETEs begin when the loop is over. `Implements` maps
the end of a round to what `LinkVerdict` makes of it and everything else to stuttering. It
needs that the channel is empty before the fatal error (`BeforeFatal`), so that the send,
which does not block, is not dropped, and that after it there is a verdict, in the channel
or with Run, also if a signal came first (`VerdictIsKept`); rounds that go on then change nothing of it.

*PidLock.* `LocksAreHeld`: a lock belongs to the process that has the file open and is
between its flock and its unlock. `ListenerIsOwned`: a daemon that runs is bound to the
shared address, which alone gives `OneDaemonPerAddress`; the lock by itself does not
(finding 4). `NumbersAreWritten`: a number stands in a file only once its daemon has
come to serve, and as long as that daemon has the lock, in the file it locked. For
`StoppedMeansNotServing`, `WaitInv` adds that for one operator and one address the path
leads to the daemon that is waited for until its lock is gone.

*Daemon.* `TokenIsMadeAlone` says that without a mishap the start that makes a token is
the only process that has or makes one: without it the write at the end of one start
could make another's token stale. `PhasesAgree` says that the processes that
listen are those in certain phases, and that a round of the heartbeat runs only in
some of these. `StopsForget` says what Stop's DELETEs have done: argus has nothing left of
a tool that a stopping daemon has passed, unless it has `missed` one. With these
`CallbacksAreServed` is inductive: a listener closes at the end of Stop, when every tool
has been passed, or in a failing start; `RegistrationsMaintained` follows from both: whoever POSTs or DELETEs is
listening, so nobody else has its address. `TokenIsKept` follows from `TokenIsMadeAlone`: the
two steps that write the file are taken only by a start that found none, which is still
alone with that.

*Hook.* `RequestsHaveWaiters`: a request that is at the daemon has a wrapper that waits
for it or is gone, so one that has fallen back has none (`NoLiveDaemonAsksToo`).
`OneToken`: without a removal and without a start that has written over a token, the token
file, the daemon's token and every
token that was read are the same, whatever daemons and other starts there have been
(`RejectedOnlyAfterRotation`). With these, `Implements` takes each step of a wrapper, a
handler or a daemon's life to the step of `PlanReview` it is; a handler's answer to a wrapper
that is gone, a review that ends unheard and everything about tokens to stuttering. Without
`RequestsHaveWaiters` an answer could come for a call that its wrapper's user has.

*Paths.* `Join` and `EvalSymlinks` are defined by recursion, over the names of a path and
over the links of a walk. The library's induction theorems take a predicate and cannot be
used here; `Least` and `Induction` restate induction for a set of numbers, from the library's
well-foundedness of inclusion among finite sets (`0..k` is smaller than `0..m` exactly if
`k < m`), and `Recursion` gives what a recursive function needs to be one. Then:
what `Join` returns is a clean path (`JoinType`); what `EvalSymlinks` returns has no link
left in it (`Resolved`), and a path that has none is left alone (`Stays`), so that resolving
twice is resolving once (`RealIsReal`), on which the comparison of `descendant` rests; the walk
to a missing file in a resolved directory fails at that file (`MissingFails`). The
inductive invariant says that an answer is the answer to what was asked; the properties
follow from the lemmas. `PathsAssumption` says of the file systems only that a link's target is
a path, and that the markers for missing, plain, rejected and pending are no paths.

Only model-checked: everything under fairness (`EndIsReported`, `PollsReturn`,
`CallsReturn`, `StopReturns`, `LostLinkIsFatal`, `FatalStopsTheDaemon`,
`HeartbeatRestores`, `SignalledDaemonExits`, `CommandsReturn`, `LaunchdHeals`,
`HookReturns`, `AbandonedReviewsEnd`), since liveness under fairness is
out of the prover's reach. No module declares a RECURSIVE operator.

## Not modelled

- The skill installers (`install-claude-skills.sh`, `uninstall-claude-skills.sh`): they
  splice a block of text into CLAUDE.md and make links, one script at a time. What can go
  wrong there (a block without its end marker takes the rest of the file with it) is a
  matter of text.
- The bash guard, which matches one command's text; the deployment scripts, but for
  the plist's `KeepAlive`.
- The contents of messages, tokens, headers and environment variables, and their parsing
  (`LoadFromEnv`, `LoadScopeToken`: a check of the start that may fail); the routing of the
  callback server; truncation of captured output.
- The contents of plannotator's `sessions/<pid>.json`: plannotator writes them, and the
  models say only that a URL is found or not.
- I/O errors of reading and writing the pidfile; reuse of process numbers; intervals as
  durations (a zero heartbeat panics at start-up, which no model here shows).

## Plan

1. `Sessions` with the path check and the refusals of each verb taken apart, and
   `DiscoverSessionURL` with torn files and reused numbers, if the repository comes
   to say what plannotator writes.
2. `Daemon` implementing a coarser specification of what launchd and argus see of it (a
   daemon is registered, or is on its way, or was stopped), proved step by step.
3. `PidLock` implementing a specification of who serves at an address and what a command
   may say of it, with no file in it; `Daemon`'s lock refined to `PidLock`'s system calls.
4. `Hook` and `Daemon` joined by a specification of the token's life that both implement.
