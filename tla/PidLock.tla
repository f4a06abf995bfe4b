------------------------------ MODULE PidLock -------------------------------
(***************************************************************************)
(* The pidfile and its advisory lock, as the daemon, `plannotator-argus    *)
(* status` and `plannotator-argus stop` use them at the same time: open,   *)
(* flock, read, write and unlink are separate system calls, and unlinking  *)
(* the path says nothing about who has the file open or locked.            *)
(*                                                                         *)
(* A daemon stands for its process number too: a number found in the       *)
(* pidfile names the daemon that wrote it, whether it still lives or not.  *)
(***************************************************************************)
CONSTANTS
    Daemons,     \* processes that run `plannotator-argus start`, one life each
    Clients,     \* shells that run `status` and `stop`, any number of times
    Inodes,      \* files the pidfile's path may name in turn
    Nobody,      \* no process, no process number
    NoFile,      \* no inode
    SharedAddr   \* all daemons are configured with one listen address

ASSUME PidLockAssumption ==
    /\ Daemons \cap Clients = {}
    /\ Nobody \notin Daemons \cup Clients
    /\ NoFile \notin Inodes
    /\ SharedAddr \in BOOLEAN

Processes == Daemons \cup Clients

VARIABLES
    path,      \* the inode the pidfile's path names
    content,   \* [Inodes -> Daemons \cup {Nobody}]: the number written in each
    flock,     \* [Inodes -> Processes \cup {Nobody}]: who holds its lock
    fd,        \* [Processes -> Inodes \cup {NoFile}]: the open descriptor
    listener,  \* who is bound to the shared address
    daemon,    \* [Daemons -> phases of Run]
    sigterm,   \* daemons that have got a SIGTERM or SIGINT
    cmd,       \* [Clients -> what the running command probes for]
    client,    \* [Clients -> where the command is]
    pid,       \* [Clients -> the number its probe has read]
    signalled, \* [Clients -> the number its `stop` has signalled]
    proved     \* history: when the probe found the lock held, did the daemon it
               \* had read the number of hold it?

files    == <<path, content, flock, fd>>
daemons  == <<listener, daemon, sigterm>>
commands == <<cmd, client, pid, signalled, proved>>
vars     == <<files, daemons, commands>>

TypeOK ==
    /\ path \in Inodes \cup {NoFile}
    /\ content \in [Inodes -> Daemons \cup {Nobody}]
    /\ flock \in [Inodes -> Processes \cup {Nobody}]
    /\ fd \in [Processes -> Inodes \cup {NoFile}]
    /\ listener \in Daemons \cup {Nobody}
    /\ daemon \in [Daemons -> {"off", "up", "opened", "locked", "truncated", "serving",
                               "leaving", "unlocked", "closing", "exited"}]
    /\ sigterm \in SUBSET Daemons
    /\ cmd \in [Clients -> {"none", "status", "stop", "await"}]
    /\ client \in [Clients -> {"idle", "probe", "opened", "read", "holding", "signal", "sleep",
                               "removeStale", "removeStopped", "stopped"}]
    /\ pid \in [Clients -> Daemons \cup {Nobody}]
    /\ signalled \in [Clients -> Daemons \cup {Nobody}]
    /\ proved \in [Clients -> BOOLEAN]

Init ==
    /\ path = NoFile
    /\ content = [i \in Inodes |-> Nobody]
    /\ flock = [i \in Inodes |-> Nobody]
    /\ fd = [p \in Processes |-> NoFile]
    /\ listener = Nobody
    /\ daemon = [d \in Daemons |-> "off"]
    /\ sigterm = {}
    /\ cmd = [c \in Clients |-> "none"]
    /\ client = [c \in Clients |-> "idle"]
    /\ pid = [c \in Clients |-> Nobody]
    /\ signalled = [c \in Clients |-> Nobody]
    /\ proved = [c \in Clients |-> FALSE]

Goto(d, from, to) == daemon[d] = from /\ daemon' = [daemon EXCEPT ![d] = to]

-----------------------------------------------------------------------------
(***************************************************************************)
(* Run.  Start binds the listener before Run looks at the pidfile.         *)
(***************************************************************************)

Start(d) ==
    /\ Goto(d, "off", "up")
    /\ IF SharedAddr THEN listener = Nobody /\ listener' = d ELSE UNCHANGED listener
    /\ UNCHANGED <<files, sigterm, commands>>

StartFails(d) ==
    /\ Goto(d, "off", "exited")
    /\ UNCHANGED <<files, listener, sigterm, commands>>

\* AcquirePIDLock, open(O_CREATE): an inode nothing refers to is used afresh.
OpenPidFile(d) ==
    /\ Goto(d, "up", "opened")
    /\ IF path # NoFile
       THEN fd' = [fd EXCEPT ![d] = path] /\ UNCHANGED <<path, content>>
       ELSE \E i \in Inodes :
               /\ \A p \in Processes : fd[p] # i
               /\ path' = i /\ fd' = [fd EXCEPT ![d] = i]
               /\ content' = [content EXCEPT ![i] = Nobody]
    /\ UNCHANGED <<flock, listener, sigterm, commands>>

\* Mutant: the error of flock is not looked at.
BugFlockUnchecked(d) ==
    /\ Goto(d, "opened", "locked")
    /\ flock' = [flock EXCEPT ![fd[d]] = d]
    /\ UNCHANGED <<path, content, fd, listener, sigterm, commands>>

TakeLock(d) ==
    /\ Goto(d, "opened", "locked")
    /\ flock[fd[d]] = Nobody
    /\ flock' = [flock EXCEPT ![fd[d]] = d]
    /\ UNCHANGED <<path, content, fd, listener, sigterm, commands>>

\* Somebody holds the lock, a daemon or a probe: Run fails and Stop runs.
LockBusy(d) ==
    /\ Goto(d, "opened", "closing")
    /\ flock[fd[d]] # Nobody
    /\ fd' = [fd EXCEPT ![d] = NoFile]
    /\ UNCHANGED <<path, content, flock, listener, sigterm, commands>>

TruncatePidFile(d) ==
    /\ Goto(d, "locked", "truncated")
    /\ content' = [content EXCEPT ![fd[d]] = Nobody]
    /\ UNCHANGED <<path, flock, fd, listener, sigterm, commands>>

\* Mutant: the number of the descriptor is written, not the process number.
BugWritesFd(d) ==
    /\ Goto(d, "truncated", "serving")
    /\ content' = [content EXCEPT ![fd[d]] = fd[d]]
    /\ UNCHANGED <<path, flock, fd, listener, sigterm, commands>>

WritePid(d) ==
    /\ Goto(d, "truncated", "serving")
    /\ content' = [content EXCEPT ![fd[d]] = d]
    /\ UNCHANGED <<path, flock, fd, listener, sigterm, commands>>

\* Mutant: the listener is closed before the lock is released.
BugStopBeforeRelease(d) ==
    /\ Goto(d, "serving", "leaving")
    /\ listener' = Nobody
    /\ UNCHANGED <<files, sigterm, commands>>

\* Mutant: only a fatal heartbeat ends the select.
BugSignalIgnored(d) ==
    /\ d \notin sigterm
    /\ Goto(d, "serving", "leaving")
    /\ UNCHANGED <<files, listener, sigterm, commands>>

\* A signal or a fatal heartbeat ends the select.
LeaveSelect(d) ==
    /\ Goto(d, "serving", "leaving")
    /\ UNCHANGED <<files, listener, sigterm, commands>>

\* The deferred calls of Run, last deferred first: Release unlocks ...
Unlock(d) ==
    /\ Goto(d, "leaving", "unlocked")
    /\ flock' = [flock EXCEPT ![fd[d]] = Nobody]
    /\ UNCHANGED <<path, content, fd, listener, sigterm, commands>>

\* ... removes whatever the path names by then, and closes the descriptor ...
RemovePidFile(d) ==
    /\ Goto(d, "unlocked", "closing")
    /\ path' = NoFile
    /\ fd' = [fd EXCEPT ![d] = NoFile]
    /\ UNCHANGED <<content, flock, listener, sigterm, commands>>

\* ... and then Stop joins the sessions, unregisters, closes the listener.
Unbind(d) == listener' = IF listener = d THEN Nobody ELSE listener

Stop(d) ==
    /\ Goto(d, "closing", "exited")
    /\ Unbind(d)
    /\ UNCHANGED <<files, sigterm, commands>>

\* SIGTERM or SIGINT from elsewhere than `stop`: Ctrl-C, launchd, kill.  NotifyContext has
\* been there since before Run, so one that comes before the select is kept for it.
Interrupt(d) ==
    /\ daemon[d] \notin {"off", "exited"}
    /\ sigterm' = sigterm \cup {d}
    /\ UNCHANGED <<files, listener, daemon, commands>>

\* The process dies at any point; the kernel closes what it had.
Crash(d) ==
    /\ daemon[d] \notin {"off", "exited"}
    /\ daemon' = [daemon EXCEPT ![d] = "exited"]
    /\ flock' = [i \in Inodes |-> IF flock[i] = d THEN Nobody ELSE flock[i]]
    /\ fd' = [fd EXCEPT ![d] = NoFile]
    /\ Unbind(d)
    /\ UNCHANGED <<path, content, sigterm, commands>>

-----------------------------------------------------------------------------
(***************************************************************************)
(* ProbePIDFile, as `status`, `stop` and the waiting loop of `stop` call   *)
(* it: open, read the number, then try the lock.                           *)
(***************************************************************************)

\* The command is over; its local variables go with it.
Finish(c) ==
    /\ client' = [client EXCEPT ![c] = "idle"]
    /\ cmd' = [cmd EXCEPT ![c] = "none"]
    /\ pid' = [pid EXCEPT ![c] = Nobody]
    /\ signalled' = [signalled EXCEPT ![c] = Nobody]
    /\ proved' = [proved EXCEPT ![c] = FALSE]

Begin(c) ==
    /\ client[c] = "idle"
    /\ \E k \in {"status", "stop"} : cmd' = [cmd EXCEPT ![c] = k]
    /\ client' = [client EXCEPT ![c] = "probe"]
    /\ UNCHANGED <<files, daemons, pid, signalled, proved>>

\* There is no pidfile: the command reports it, and a waiting `stop` takes it
\* for the end of the daemon.
ProbeFindsNothing(c) ==
    /\ client[c] = "probe" /\ path = NoFile
    /\ IF cmd[c] = "await"
       THEN /\ client' = [client EXCEPT ![c] = "removeStopped"]
            /\ UNCHANGED <<cmd, pid, signalled, proved>>
       ELSE Finish(c)
    /\ UNCHANGED <<files, daemons>>

ProbeOpens(c) ==
    /\ client[c] = "probe" /\ path # NoFile
    /\ fd' = [fd EXCEPT ![c] = path]
    /\ client' = [client EXCEPT ![c] = "opened"]
    /\ UNCHANGED <<path, content, flock, daemons, cmd, pid, signalled, proved>>

ProbeReads(c) ==
    /\ client[c] = "opened"
    /\ pid' = [pid EXCEPT ![c] = content[fd[c]]]
    /\ client' = [client EXCEPT ![c] = "read"]
    /\ UNCHANGED <<files, daemons, cmd, signalled, proved>>

\* The lock is held: the verdict is "running".  `stop` signals the number it
\* has read, if it has one, and its waiting loop sleeps and tries again.
ProbeFindsLock(c) ==
    /\ client[c] = "read" /\ flock[fd[c]] # Nobody
    /\ fd' = [fd EXCEPT ![c] = NoFile]
    /\ \/ /\ cmd[c] \in {"status", "stop"} /\ (cmd[c] = "stop" => pid[c] = Nobody)
          /\ Finish(c)
       \/ /\ cmd[c] = "stop" /\ pid[c] # Nobody
          /\ client' = [client EXCEPT ![c] = "signal"]
          /\ proved' = [proved EXCEPT ![c] = flock[fd[c]] = pid[c]]
          /\ UNCHANGED <<cmd, pid, signalled>>
       \/ /\ cmd[c] = "await"
          /\ client' = [client EXCEPT ![c] = "sleep"]
          /\ UNCHANGED <<cmd, pid, signalled, proved>>
    /\ UNCHANGED <<path, content, flock, daemons>>

\* The lock is free: the probe holds it for a moment.
ProbeTakesLock(c) ==
    /\ client[c] = "read" /\ flock[fd[c]] = Nobody
    /\ flock' = [flock EXCEPT ![fd[c]] = c]
    /\ client' = [client EXCEPT ![c] = "holding"]
    /\ UNCHANGED <<path, content, fd, daemons, cmd, pid, signalled, proved>>

\* The verdict is "not running"; both stops go on to remove the pidfile.
ProbeReleases(c) ==
    /\ client[c] = "holding"
    /\ flock' = [flock EXCEPT ![fd[c]] = Nobody]
    /\ fd' = [fd EXCEPT ![c] = NoFile]
    /\ IF cmd[c] = "status" THEN Finish(c)
       ELSE /\ client' = [client EXCEPT ![c] =
                   IF cmd[c] = "stop" THEN "removeStale" ELSE "removeStopped"]
            /\ UNCHANGED <<cmd, pid, signalled, proved>>
    /\ UNCHANGED <<path, content, daemons>>

-----------------------------------------------------------------------------
\* Mutant: `stop` does not wait for the lock.
BugNoPolling(c) ==
    /\ client[c] = "signal" /\ daemon[pid[c]] # "exited"
    /\ sigterm' = sigterm \cup {pid[c]}
    /\ signalled' = [signalled EXCEPT ![c] = pid[c]]
    /\ client' = [client EXCEPT ![c] = "removeStopped"]
    /\ UNCHANGED <<files, listener, daemon, cmd, pid, proved>>

\* `stop` sends SIGTERM and starts to wait; a number no process has is an error.
Signal(c) ==
    /\ client[c] = "signal"
    /\ IF daemon[pid[c]] = "exited"
       THEN Finish(c) /\ UNCHANGED sigterm
       ELSE /\ sigterm' = sigterm \cup {pid[c]}
            /\ signalled' = [signalled EXCEPT ![c] = pid[c]]
            /\ cmd' = [cmd EXCEPT ![c] = "await"]
            /\ client' = [client EXCEPT ![c] = "probe"]
            /\ UNCHANGED <<pid, proved>>
    /\ UNCHANGED <<files, listener, daemon>>

PollAgain(c) ==
    /\ client[c] = "sleep"
    /\ client' = [client EXCEPT ![c] = "probe"]
    /\ UNCHANGED <<files, daemons, cmd, pid, signalled, proved>>

\* Mutant: the waiting loop ends only with the pidfile.
BugNoDeadline(c) ==
    /\ client[c] = "sleep" /\ path = NoFile
    /\ Finish(c)
    /\ UNCHANGED <<files, daemons>>

\* Ten seconds have passed.
PollTimesOut(c) ==
    /\ client[c] = "sleep"
    /\ Finish(c)
    /\ UNCHANGED <<files, daemons>>

RemoveStale(c) ==
    /\ client[c] = "removeStale"
    /\ path' = NoFile
    /\ Finish(c)
    /\ UNCHANGED <<content, flock, fd, daemons>>

RemoveStopped(c) ==
    /\ client[c] = "removeStopped"
    /\ path' = NoFile
    /\ client' = [client EXCEPT ![c] = "stopped"]
    /\ UNCHANGED <<content, flock, fd, daemons, cmd, pid, signalled, proved>>

\* "stopped pid N" is printed.
ReportStopped(c) ==
    /\ client[c] = "stopped"
    /\ Finish(c)
    /\ UNCHANGED <<files, daemons>>

-----------------------------------------------------------------------------
Acquire(d) == \/ OpenPidFile(d) \/ TakeLock(d) \/ LockBusy(d)
              \/ TruncatePidFile(d) \/ WritePid(d)
Release(d) == Unlock(d) \/ RemovePidFile(d)
Probe(c)   == \/ ProbeFindsNothing(c) \/ ProbeOpens(c) \/ ProbeReads(c)
              \/ ProbeFindsLock(c) \/ ProbeTakesLock(c) \/ ProbeReleases(c)
Command(c) == \/ Probe(c) \/ Signal(c) \/ PollAgain(c) \/ PollTimesOut(c)
              \/ RemoveStale(c) \/ RemoveStopped(c) \/ ReportStopped(c)

\* Every daemon has lived its life.
Terminated == (\A d \in Daemons : daemon[d] = "exited") /\ UNCHANGED vars

Next ==
    \/ \E d \in Daemons :
          \/ Start(d) \/ StartFails(d) \/ Acquire(d) \/ LeaveSelect(d)
          \/ Release(d) \/ Stop(d) \/ Interrupt(d) \/ Crash(d)
    \/ \E c \in Clients : Begin(c) \/ Command(c)
    \/ Terminated

Spec == Init /\ [][Next]_vars

(***************************************************************************)
(* Processes that can run do, a SIGTERM ends the select, and the ten       *)
(* seconds of a waiting `stop` pass however often it polls (SF).  Nobody   *)
(* has to start a daemon or a command, and nothing has to crash.           *)
(***************************************************************************)
Fairness ==
    /\ \A d \in Daemons :
          /\ WF_vars(Acquire(d)) /\ WF_vars(d \in sigterm /\ LeaveSelect(d))
          /\ WF_vars(Release(d)) /\ WF_vars(Stop(d))
    /\ \A c \in Clients : WF_vars(Command(c)) /\ SF_vars(PollTimesOut(c))

FairSpec == Spec /\ Fairness

-----------------------------------------------------------------------------
\* Run holds the lock.
HasLock(d) == daemon[d] \in {"locked", "truncated", "serving", "leaving"}

\* Of the daemons configured with one address at most one holds a pidfile lock,
\* although unlinking can leave several locked files behind: Start binds the
\* address before the lock is taken and Stop lets go of it after (run.go).
OneDaemonPerAddress ==
    SharedAddr => \A d, e \in Daemons : HasLock(d) /\ HasLock(e) => d = e

\* While a daemon serves, the file it locked carries its number: nobody
\* truncates, rewrites or locks it, whatever becomes of the path
\* (pidfile.go: AcquirePIDLock; status and stop only read).
ServingFileNamesDaemon ==
    \A d \in Daemons :
        /\ HasLock(d) => fd[d] # NoFile /\ flock[fd[d]] = d
        /\ daemon[d] \in {"serving", "leaving"} => content[fd[d]] = d

\* With one operator and one address, `stop` does not say "stopped" of a daemon
\* that still serves: every way the pidfile can vanish or come unlocked is by
\* then behind that daemon (stop.go: the waiting loop).
StoppedMeansNotServing ==
    (\A b, c \in Clients : b = c) /\ SharedAddr =>
        \A c \in Clients : client[c] = "stopped" => ~HasLock(signalled[c])

\* A daemon that listens and gets SIGTERM or SIGINT exits, also if that was before it had
\* the lock or came to Run's select, whoever else has the lock meanwhile, a probe too
\* (start.go 36-37, run.go 192-206).  What a signal does to Start is in Daemon.
SignalledDaemonExits == \A d \in Daemons : d \in sigterm ~> daemon[d] = "exited"

\* Every command ends, whatever the daemons do.
CommandsReturn == \A c \in Clients : client[c] # "idle" ~> client[c] = "idle"

\* What stop.go says of its probe: it "proves a live plannotator-argus daemon
\* holds this exact file", which makes the number read from it safe to signal.
ProbeProvesADaemon == \A c \in Clients : client[c] = "signal" => proved[c]

\* What stop is documented to do: wait for the daemon's process to exit before
\* it reports it stopped.
StoppedMeansExited ==
    \A c \in Clients : client[c] = "stopped" => daemon[signalled[c]] = "exited"

\* What run.go says of Run: it refuses to start if another daemon already holds
\* the lock.
OneLockHolder == \A d, e \in Daemons : HasLock(d) /\ HasLock(e) => d = e
=============================================================================
