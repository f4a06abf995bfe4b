---------------------------- MODULE PidLockProofs ----------------------------
(***************************************************************************)
(* The safety properties of PidLock for any number of daemons, commands    *)
(* and files.                                                              *)
(***************************************************************************)
EXTENDS PidLock, TLAPS

\* A descriptor is open from open to close, and a lock belongs to the process
\* that has the file open and took the lock: there is no lock left behind.
LocksAreHeld ==
    /\ \A d \in Daemons :
          /\ daemon[d] \in {"off", "up", "closing", "exited"} <=> fd[d] = NoFile
          /\ HasLock(d) => flock[fd[d]] = d
    /\ \A c \in Clients :
          /\ client[c] \in {"opened", "read", "holding"} <=> fd[c] # NoFile
          /\ client[c] = "holding" => flock[fd[c]] = c
    /\ \A i \in Inodes :
          /\ flock[i] \in Daemons => HasLock(flock[i]) /\ fd[flock[i]] = i
          /\ flock[i] \in Clients => client[flock[i]] = "holding" /\ fd[flock[i]] = i

\* A daemon that runs is bound to the shared address.
ListenerIsOwned ==
    SharedAddr => \A d \in Daemons : daemon[d] \notin {"off", "exited"} => listener = d

\* A number stands in a file only when its daemon has come to serve, and as
\* long as that daemon has the lock, in the file it locked.
Named(d) == daemon[d] \in {"serving", "leaving", "unlocked", "closing", "exited"}

NumbersAreWritten ==
    /\ \A i \in Inodes : content[i] # Nobody =>
          /\ Named(content[i])
          /\ HasLock(content[i]) => fd[content[i]] = i
    /\ \A d \in Daemons : daemon[d] \in {"serving", "leaving"} => content[fd[d]] = d
    /\ \A c \in Clients :
          /\ pid[c] # Nobody => Named(pid[c])
          /\ client[c] = "signal" => pid[c] # Nobody /\ cmd[c] = "stop"
          /\ cmd[c] = "await" <=> signalled[c] # Nobody
          /\ signalled[c] # Nobody => Named(signalled[c])
          /\ client[c] \in {"stopped", "removeStopped", "sleep"} => cmd[c] = "await"
          /\ client[c] = "removeStale" => cmd[c] = "stop"
          /\ client[c] = "idle" <=> cmd[c] = "none"

IInv == TypeOK /\ LocksAreHeld /\ ListenerIsOwned /\ NumbersAreWritten

\* Init establishes it.
LEMMA InitIInv == ASSUME Init PROVE IInv
<1> USE PidLockAssumption DEF Init, Processes, HasLock, Named
<1>1. TypeOK
  BY DEF TypeOK
<1>2. LocksAreHeld /\ ListenerIsOwned
  BY DEF LocksAreHeld, ListenerIsOwned
<1>3. NumbersAreWritten
  BY DEF NumbersAreWritten
<1> QED
  BY <1>1, <1>2, <1>3 DEF IInv

\* A step of a daemon that starts keeps it.
LEMMA AcquireKeepsIInv ==
    ASSUME IInv, NEW d \in Daemons,
           \/ Start(d) \/ StartFails(d) \/ OpenPidFile(d) \/ TakeLock(d)
           \/ LockBusy(d) \/ TruncatePidFile(d) \/ WritePid(d)
    PROVE  IInv'
<1> USE PidLockAssumption DEF Processes, HasLock, Named, files, daemons, commands
<1>1. CASE Start(d)
  <2>1. TypeOK'
    BY <1>1 DEF Start, Goto, TypeOK, IInv
  <2>2. LocksAreHeld'
    BY <1>1 DEF Start, Goto, TypeOK, LocksAreHeld, IInv
  <2>3. ListenerIsOwned'
    BY <1>1 DEF Start, Goto, TypeOK, ListenerIsOwned, IInv
  <2>4. NumbersAreWritten'
    BY <1>1 DEF Start, Goto, TypeOK, NumbersAreWritten, IInv
  <2> QED
    BY <2>1, <2>2, <2>3, <2>4 DEF IInv
<1>2. CASE StartFails(d)
  <2>1. TypeOK'
    BY <1>2 DEF StartFails, Goto, TypeOK, IInv
  <2>2. LocksAreHeld'
    BY <1>2 DEF StartFails, Goto, TypeOK, LocksAreHeld, IInv
  <2>3. ListenerIsOwned'
    BY <1>2 DEF StartFails, Goto, TypeOK, ListenerIsOwned, IInv
  <2>4. NumbersAreWritten'
    BY <1>2 DEF StartFails, Goto, TypeOK, NumbersAreWritten, IInv
  <2> QED
    BY <2>1, <2>2, <2>3, <2>4 DEF IInv
<1>3. CASE OpenPidFile(d)
  <2>1. TypeOK'
    BY <1>3 DEF OpenPidFile, Goto, TypeOK, IInv
  <2>2. LocksAreHeld'
    BY <1>3 DEF OpenPidFile, Goto, TypeOK, LocksAreHeld, IInv
  <2>3. ListenerIsOwned'
    BY <1>3 DEF OpenPidFile, Goto, TypeOK, ListenerIsOwned, IInv
  <2>4. NumbersAreWritten'
    BY <1>3 DEF OpenPidFile, Goto, TypeOK, LocksAreHeld, NumbersAreWritten, IInv
  <2> QED
    BY <2>1, <2>2, <2>3, <2>4 DEF IInv
<1>4. CASE TakeLock(d)
  <2>1. TypeOK'
    BY <1>4 DEF TakeLock, Goto, TypeOK, IInv
  <2>2. LocksAreHeld'
    BY <1>4 DEF TakeLock, Goto, TypeOK, LocksAreHeld, IInv
  <2>3. ListenerIsOwned'
    BY <1>4 DEF TakeLock, Goto, TypeOK, ListenerIsOwned, IInv
  <2>4. NumbersAreWritten'
    BY <1>4 DEF TakeLock, Goto, TypeOK, NumbersAreWritten, IInv
  <2> QED
    BY <2>1, <2>2, <2>3, <2>4 DEF IInv
<1>5. CASE LockBusy(d)
  <2>1. TypeOK'
    BY <1>5 DEF LockBusy, Goto, TypeOK, IInv
  <2>2. LocksAreHeld'
    BY <1>5 DEF LockBusy, Goto, TypeOK, LocksAreHeld, IInv
  <2>3. ListenerIsOwned'
    BY <1>5 DEF LockBusy, Goto, TypeOK, ListenerIsOwned, IInv
  <2>4. NumbersAreWritten'
    BY <1>5 DEF LockBusy, Goto, TypeOK, NumbersAreWritten, IInv
  <2> QED
    BY <2>1, <2>2, <2>3, <2>4 DEF IInv
<1>6. CASE TruncatePidFile(d)
  <2>1. TypeOK'
    BY <1>6 DEF TruncatePidFile, Goto, TypeOK, IInv
  <2>2. LocksAreHeld'
    BY <1>6 DEF TruncatePidFile, Goto, TypeOK, LocksAreHeld, IInv
  <2>3. ListenerIsOwned'
    BY <1>6 DEF TruncatePidFile, Goto, TypeOK, ListenerIsOwned, IInv
  <2>4. NumbersAreWritten'
    BY <1>6 DEF TruncatePidFile, Goto, TypeOK, LocksAreHeld, NumbersAreWritten, IInv
  <2> QED
    BY <2>1, <2>2, <2>3, <2>4 DEF IInv
<1>7. CASE WritePid(d)
  <2>1. TypeOK'
    BY <1>7 DEF WritePid, Goto, TypeOK, IInv
  <2>2. LocksAreHeld'
    BY <1>7 DEF WritePid, Goto, TypeOK, LocksAreHeld, IInv
  <2>3. ListenerIsOwned'
    BY <1>7 DEF WritePid, Goto, TypeOK, ListenerIsOwned, IInv
  <2>4. NumbersAreWritten'
    BY <1>7 DEF WritePid, Goto, TypeOK, LocksAreHeld, NumbersAreWritten, IInv
  <2> QED
    BY <2>1, <2>2, <2>3, <2>4 DEF IInv
<1> QED
  BY <1>1, <1>2, <1>3, <1>4, <1>5, <1>6, <1>7

\* A step of a daemon that leaves, or dies, keeps it.
LEMMA ReleaseKeepsIInv ==
    ASSUME IInv, NEW d \in Daemons,
           \/ LeaveSelect(d) \/ Unlock(d) \/ RemovePidFile(d)
           \/ Stop(d) \/ Interrupt(d) \/ Crash(d)
    PROVE  IInv'
<1> USE PidLockAssumption DEF Processes, HasLock, Named, files, daemons, commands
<1>1. CASE LeaveSelect(d)
  <2>1. TypeOK'
    BY <1>1 DEF LeaveSelect, Goto, TypeOK, IInv
  <2>2. LocksAreHeld'
    BY <1>1 DEF LeaveSelect, Goto, TypeOK, LocksAreHeld, IInv
  <2>3. ListenerIsOwned'
    BY <1>1 DEF LeaveSelect, Goto, TypeOK, ListenerIsOwned, IInv
  <2>4. NumbersAreWritten'
    BY <1>1 DEF LeaveSelect, Goto, TypeOK, NumbersAreWritten, IInv
  <2> QED
    BY <2>1, <2>2, <2>3, <2>4 DEF IInv
<1>2. CASE Unlock(d)
  <2>1. TypeOK'
    BY <1>2 DEF Unlock, Goto, TypeOK, IInv
  <2>2. LocksAreHeld'
    BY <1>2 DEF Unlock, Goto, TypeOK, LocksAreHeld, IInv
  <2>3. ListenerIsOwned'
    BY <1>2 DEF Unlock, Goto, TypeOK, ListenerIsOwned, IInv
  <2>4. NumbersAreWritten'
    BY <1>2 DEF Unlock, Goto, TypeOK, NumbersAreWritten, IInv
  <2> QED
    BY <2>1, <2>2, <2>3, <2>4 DEF IInv
<1>3. CASE RemovePidFile(d)
  <2>1. TypeOK'
    BY <1>3 DEF RemovePidFile, Goto, TypeOK, IInv
  <2>2. LocksAreHeld'
    BY <1>3 DEF RemovePidFile, Goto, TypeOK, LocksAreHeld, IInv
  <2>3. ListenerIsOwned'
    BY <1>3 DEF RemovePidFile, Goto, TypeOK, ListenerIsOwned, IInv
  <2>4. NumbersAreWritten'
    BY <1>3 DEF RemovePidFile, Goto, TypeOK, NumbersAreWritten, IInv
  <2> QED
    BY <2>1, <2>2, <2>3, <2>4 DEF IInv
<1>4. CASE Stop(d)
  <2>1. TypeOK'
    BY <1>4 DEF Stop, Goto, Unbind, TypeOK, IInv
  <2>2. LocksAreHeld'
    BY <1>4 DEF Stop, Goto, Unbind, TypeOK, LocksAreHeld, IInv
  <2>3. ListenerIsOwned'
    BY <1>4 DEF Stop, Goto, Unbind, TypeOK, ListenerIsOwned, IInv
  <2>4. NumbersAreWritten'
    BY <1>4 DEF Stop, Goto, Unbind, TypeOK, NumbersAreWritten, IInv
  <2> QED
    BY <2>1, <2>2, <2>3, <2>4 DEF IInv
<1>5. CASE Crash(d)
  <2>1. TypeOK'
    BY <1>5 DEF Crash, Unbind, TypeOK, IInv
  <2>2. LocksAreHeld'
    BY <1>5 DEF Crash, Unbind, TypeOK, LocksAreHeld, IInv
  <2>3. ListenerIsOwned'
    BY <1>5 DEF Crash, Unbind, TypeOK, ListenerIsOwned, IInv
  <2>4. NumbersAreWritten'
    BY <1>5 DEF Crash, Unbind, TypeOK, NumbersAreWritten, IInv
  <2> QED
    BY <2>1, <2>2, <2>3, <2>4 DEF IInv
<1>6. CASE Interrupt(d)
  <2>1. TypeOK'
    BY <1>6 DEF Interrupt, TypeOK, IInv
  <2>2. LocksAreHeld'
    BY <1>6 DEF Interrupt, TypeOK, LocksAreHeld, IInv
  <2>3. ListenerIsOwned'
    BY <1>6 DEF Interrupt, TypeOK, ListenerIsOwned, IInv
  <2>4. NumbersAreWritten'
    BY <1>6 DEF Interrupt, TypeOK, NumbersAreWritten, IInv
  <2> QED
    BY <2>1, <2>2, <2>3, <2>4 DEF IInv
<1> QED
  BY <1>1, <1>2, <1>3, <1>4, <1>5, <1>6

\* A step of a probe keeps it.
LEMMA ProbeKeepsIInv ==
    ASSUME IInv, NEW c \in Clients,
           \/ Begin(c) \/ ProbeFindsNothing(c) \/ ProbeOpens(c) \/ ProbeReads(c)
           \/ ProbeFindsLock(c) \/ ProbeTakesLock(c) \/ ProbeReleases(c)
    PROVE  IInv'
<1> USE PidLockAssumption DEF Processes, HasLock, Named, files, daemons, commands
<1>1. CASE Begin(c)
  <2>1. TypeOK'
    BY <1>1 DEF Begin, TypeOK, IInv
  <2>2. LocksAreHeld'
    BY <1>1 DEF Begin, TypeOK, LocksAreHeld, IInv
  <2>3. ListenerIsOwned'
    BY <1>1 DEF Begin, TypeOK, ListenerIsOwned, IInv
  <2>4. NumbersAreWritten'
    BY <1>1 DEF Begin, TypeOK, NumbersAreWritten, IInv
  <2> QED
    BY <2>1, <2>2, <2>3, <2>4 DEF IInv
<1>2. CASE ProbeFindsNothing(c)
  <2>1. TypeOK'
    BY <1>2 DEF ProbeFindsNothing, Finish, TypeOK, IInv
  <2>2. LocksAreHeld'
    BY <1>2 DEF ProbeFindsNothing, Finish, TypeOK, LocksAreHeld, IInv
  <2>3. ListenerIsOwned'
    BY <1>2 DEF ProbeFindsNothing, Finish, TypeOK, ListenerIsOwned, IInv
  <2>4. NumbersAreWritten'
    BY <1>2 DEF ProbeFindsNothing, Finish, TypeOK, NumbersAreWritten, IInv
  <2> QED
    BY <2>1, <2>2, <2>3, <2>4 DEF IInv
<1>3. CASE ProbeOpens(c)
  <2>1. TypeOK'
    BY <1>3 DEF ProbeOpens, TypeOK, IInv
  <2>2. LocksAreHeld'
    BY <1>3 DEF ProbeOpens, TypeOK, LocksAreHeld, IInv
  <2>3. ListenerIsOwned'
    BY <1>3 DEF ProbeOpens, TypeOK, ListenerIsOwned, IInv
  <2>4. NumbersAreWritten'
    BY <1>3 DEF ProbeOpens, TypeOK, NumbersAreWritten, IInv
  <2> QED
    BY <2>1, <2>2, <2>3, <2>4 DEF IInv
<1>4. CASE ProbeReads(c)
  <2>1. TypeOK'
    BY <1>4 DEF ProbeReads, TypeOK, LocksAreHeld, IInv
  <2>2. LocksAreHeld'
    BY <1>4 DEF ProbeReads, TypeOK, LocksAreHeld, IInv
  <2>3. ListenerIsOwned'
    BY <1>4 DEF ProbeReads, TypeOK, ListenerIsOwned, IInv
  <2>4. NumbersAreWritten'
    BY <1>4 DEF ProbeReads, TypeOK, LocksAreHeld, NumbersAreWritten, IInv
  <2> QED
    BY <2>1, <2>2, <2>3, <2>4 DEF IInv
<1>5. CASE ProbeFindsLock(c)
  <2>1. TypeOK'
    <3>1. path' \in Inodes \cup {NoFile} /\ content' \in [Inodes -> Daemons \cup {Nobody}]
      BY <1>5 DEF ProbeFindsLock, Finish, TypeOK, IInv
    <3>2. flock' \in [Inodes -> Processes \cup {Nobody}] /\ fd' \in [Processes -> Inodes \cup {NoFile}]
      BY <1>5 DEF ProbeFindsLock, Finish, TypeOK, IInv
    <3>3. UNCHANGED <<listener, daemon>> /\ sigterm' \in SUBSET Daemons
      BY <1>5 DEF ProbeFindsLock, Finish, TypeOK, IInv
    <3>4. cmd' \in [Clients -> {"none", "status", "stop", "await"}]
      BY <1>5 DEF ProbeFindsLock, Finish, TypeOK, IInv
    <3>5. client' \in [Clients -> {"idle", "probe", "opened", "read", "holding", "signal",
                              "sleep", "removeStale", "removeStopped", "stopped"}]
      BY <1>5 DEF ProbeFindsLock, Finish, TypeOK, IInv
    <3>6. /\ pid' \in [Clients -> Daemons \cup {Nobody}]
          /\ signalled' \in [Clients -> Daemons \cup {Nobody}]
      BY <1>5 DEF ProbeFindsLock, Finish, TypeOK, IInv
    <3>7. proved' \in [Clients -> BOOLEAN]
      <4>1. \A b \in BOOLEAN : [proved EXCEPT ![c] = b] \in [Clients -> BOOLEAN]
        BY DEF IInv, TypeOK
      <4>2. \/ proved' = proved
            \/ proved' = [proved EXCEPT ![c] = FALSE]
            \/ proved' = [proved EXCEPT ![c] = (flock[fd[c]] = pid[c])]
        BY <1>5, Zenon DEF ProbeFindsLock, Finish
      <4>3. (flock[fd[c]] = pid[c]) \in BOOLEAN
        OBVIOUS
      <4> QED
        BY <4>1, <4>2, <4>3 DEF TypeOK, IInv
    <3> QED
      BY <3>1, <3>2, <3>3, <3>4, <3>5, <3>6, <3>7 DEF TypeOK, IInv
  <2>2. LocksAreHeld'
    BY <1>5 DEF ProbeFindsLock, Finish, TypeOK, LocksAreHeld, IInv
  <2>3. ListenerIsOwned'
    BY <1>5 DEF ProbeFindsLock, Finish, TypeOK, ListenerIsOwned, IInv
  <2>4. NumbersAreWritten'
    BY <1>5 DEF ProbeFindsLock, Finish, TypeOK, NumbersAreWritten, IInv
  <2> QED
    BY <2>1, <2>2, <2>3, <2>4 DEF IInv
<1>6. CASE ProbeTakesLock(c)
  <2>1. TypeOK'
    BY <1>6 DEF ProbeTakesLock, TypeOK, IInv
  <2>2. LocksAreHeld'
    BY <1>6 DEF ProbeTakesLock, TypeOK, LocksAreHeld, IInv
  <2>3. ListenerIsOwned'
    BY <1>6 DEF ProbeTakesLock, TypeOK, ListenerIsOwned, IInv
  <2>4. NumbersAreWritten'
    BY <1>6 DEF ProbeTakesLock, TypeOK, NumbersAreWritten, IInv
  <2> QED
    BY <2>1, <2>2, <2>3, <2>4 DEF IInv
<1>7. CASE ProbeReleases(c)
  <2>1. TypeOK'
    <3>1. path' \in Inodes \cup {NoFile} /\ content' \in [Inodes -> Daemons \cup {Nobody}]
      BY <1>7 DEF ProbeReleases, Finish, TypeOK, IInv
    <3>2. flock' \in [Inodes -> Processes \cup {Nobody}] /\ fd' \in [Processes -> Inodes \cup {NoFile}]
      BY <1>7 DEF ProbeReleases, Finish, TypeOK, IInv
    <3>3. UNCHANGED <<listener, daemon>> /\ sigterm' \in SUBSET Daemons
      BY <1>7 DEF ProbeReleases, Finish, TypeOK, IInv
    <3>4. cmd' \in [Clients -> {"none", "status", "stop", "await"}]
      BY <1>7 DEF ProbeReleases, Finish, TypeOK, IInv
    <3>5. client' \in [Clients -> {"idle", "probe", "opened", "read", "holding", "signal",
                              "sleep", "removeStale", "removeStopped", "stopped"}]
      BY <1>7 DEF ProbeReleases, Finish, TypeOK, IInv
    <3>6. /\ pid' \in [Clients -> Daemons \cup {Nobody}]
          /\ signalled' \in [Clients -> Daemons \cup {Nobody}]
      BY <1>7 DEF ProbeReleases, Finish, TypeOK, IInv
    <3>7. proved' \in [Clients -> BOOLEAN]
      <4>1. \A b \in BOOLEAN : [proved EXCEPT ![c] = b] \in [Clients -> BOOLEAN]
        BY DEF IInv, TypeOK
      <4>2. \/ proved' = proved
            \/ proved' = [proved EXCEPT ![c] = FALSE]
        BY <1>7, Zenon DEF ProbeReleases, Finish
      <4> QED
        BY <4>1, <4>2 DEF TypeOK, IInv
    <3> QED
      BY <3>1, <3>2, <3>3, <3>4, <3>5, <3>6, <3>7 DEF TypeOK, IInv
  <2>2. LocksAreHeld'
    BY <1>7 DEF ProbeReleases, Finish, TypeOK, LocksAreHeld, IInv
  <2>3. ListenerIsOwned'
    BY <1>7 DEF ProbeReleases, Finish, TypeOK, ListenerIsOwned, IInv
  <2>4. NumbersAreWritten'
    BY <1>7 DEF ProbeReleases, Finish, TypeOK, NumbersAreWritten, IInv
  <2> QED
    BY <2>1, <2>2, <2>3, <2>4 DEF IInv
<1> QED
  BY <1>1, <1>2, <1>3, <1>4, <1>5, <1>6, <1>7

\* A step of a command outside its probe keeps it.
LEMMA CommandKeepsIInv ==
    ASSUME IInv, NEW c \in Clients,
           \/ Signal(c) \/ PollAgain(c) \/ PollTimesOut(c)
           \/ RemoveStale(c) \/ RemoveStopped(c) \/ ReportStopped(c)
    PROVE  IInv'
<1> USE PidLockAssumption DEF Processes, HasLock, Named, files, daemons, commands
<1>1. CASE Signal(c)
  <2>1. TypeOK'
    <3>1. path' \in Inodes \cup {NoFile} /\ content' \in [Inodes -> Daemons \cup {Nobody}]
      BY <1>1 DEF Signal, Finish, TypeOK, IInv
    <3>2. flock' \in [Inodes -> Processes \cup {Nobody}] /\ fd' \in [Processes -> Inodes \cup {NoFile}]
      BY <1>1 DEF Signal, Finish, TypeOK, IInv
    <3>3. UNCHANGED <<listener, daemon>> /\ sigterm' \in SUBSET Daemons
      BY <1>1 DEF Signal, Finish, TypeOK, NumbersAreWritten, IInv
    <3>4. cmd' \in [Clients -> {"none", "status", "stop", "await"}]
      BY <1>1 DEF Signal, Finish, TypeOK, IInv
    <3>5. client' \in [Clients -> {"idle", "probe", "opened", "read", "holding", "signal",
                              "sleep", "removeStale", "removeStopped", "stopped"}]
      BY <1>1 DEF Signal, Finish, TypeOK, IInv
    <3>6. /\ pid' \in [Clients -> Daemons \cup {Nobody}]
          /\ signalled' \in [Clients -> Daemons \cup {Nobody}]
      BY <1>1 DEF Signal, Finish, TypeOK, IInv
    <3>7. proved' \in [Clients -> BOOLEAN]
      BY <1>1 DEF Signal, Finish, TypeOK, IInv
    <3> QED
      BY <3>1, <3>2, <3>3, <3>4, <3>5, <3>6, <3>7 DEF TypeOK, IInv
  <2>2. LocksAreHeld'
    BY <1>1 DEF Signal, Finish, TypeOK, LocksAreHeld, IInv
  <2>3. ListenerIsOwned'
    BY <1>1 DEF Signal, Finish, TypeOK, ListenerIsOwned, IInv
  <2>4. NumbersAreWritten'
    BY <1>1 DEF Signal, Finish, TypeOK, NumbersAreWritten, IInv
  <2> QED
    BY <2>1, <2>2, <2>3, <2>4 DEF IInv
<1>2. CASE PollAgain(c)
  <2>1. TypeOK'
    BY <1>2 DEF PollAgain, TypeOK, IInv
  <2>2. LocksAreHeld'
    BY <1>2 DEF PollAgain, TypeOK, LocksAreHeld, IInv
  <2>3. ListenerIsOwned'
    BY <1>2 DEF PollAgain, TypeOK, ListenerIsOwned, IInv
  <2>4. NumbersAreWritten'
    BY <1>2 DEF PollAgain, TypeOK, NumbersAreWritten, IInv
  <2> QED
    BY <2>1, <2>2, <2>3, <2>4 DEF IInv
<1>3. CASE PollTimesOut(c)
  <2>1. TypeOK'
    BY <1>3 DEF PollTimesOut, Finish, TypeOK, IInv
  <2>2. LocksAreHeld'
    BY <1>3 DEF PollTimesOut, Finish, TypeOK, LocksAreHeld, IInv
  <2>3. ListenerIsOwned'
    BY <1>3 DEF PollTimesOut, Finish, TypeOK, ListenerIsOwned, IInv
  <2>4. NumbersAreWritten'
    BY <1>3 DEF PollTimesOut, Finish, TypeOK, NumbersAreWritten, IInv
  <2> QED
    BY <2>1, <2>2, <2>3, <2>4 DEF IInv
<1>4. CASE RemoveStale(c)
  <2>1. TypeOK'
    BY <1>4 DEF RemoveStale, Finish, TypeOK, IInv
  <2>2. LocksAreHeld'
    BY <1>4 DEF RemoveStale, Finish, TypeOK, LocksAreHeld, IInv
  <2>3. ListenerIsOwned'
    BY <1>4 DEF RemoveStale, Finish, TypeOK, ListenerIsOwned, IInv
  <2>4. NumbersAreWritten'
    BY <1>4 DEF RemoveStale, Finish, TypeOK, NumbersAreWritten, IInv
  <2> QED
    BY <2>1, <2>2, <2>3, <2>4 DEF IInv
<1>5. CASE RemoveStopped(c)
  <2>1. TypeOK'
    BY <1>5 DEF RemoveStopped, TypeOK, IInv
  <2>2. LocksAreHeld'
    BY <1>5 DEF RemoveStopped, TypeOK, LocksAreHeld, IInv
  <2>3. ListenerIsOwned'
    BY <1>5 DEF RemoveStopped, TypeOK, ListenerIsOwned, IInv
  <2>4. NumbersAreWritten'
    BY <1>5 DEF RemoveStopped, TypeOK, NumbersAreWritten, IInv
  <2> QED
    BY <2>1, <2>2, <2>3, <2>4 DEF IInv
<1>6. CASE ReportStopped(c)
  <2>1. TypeOK'
    BY <1>6 DEF ReportStopped, Finish, TypeOK, IInv
  <2>2. LocksAreHeld'
    BY <1>6 DEF ReportStopped, Finish, TypeOK, LocksAreHeld, IInv
  <2>3. ListenerIsOwned'
    BY <1>6 DEF ReportStopped, Finish, TypeOK, ListenerIsOwned, IInv
  <2>4. NumbersAreWritten'
    BY <1>6 DEF ReportStopped, Finish, TypeOK, NumbersAreWritten, IInv
  <2> QED
    BY <2>1, <2>2, <2>3, <2>4 DEF IInv
<1> QED
  BY <1>1, <1>2, <1>3, <1>4, <1>5, <1>6

\* Every step keeps the invariant.
LEMMA NextKeepsIInv == ASSUME IInv, [Next]_vars PROVE IInv'
<1>1. ASSUME UNCHANGED vars PROVE IInv'
  BY <1>1 DEF TypeOK, LocksAreHeld, ListenerIsOwned, NumbersAreWritten, HasLock, Named, vars,
     files, daemons, commands, IInv
<1> QED
  BY <1>1, AcquireKeepsIInv, ReleaseKeepsIInv, ProbeKeepsIInv, CommandKeepsIInv
  DEF Next, Acquire, Release, Probe, Command, Terminated

\* The invariant holds in every reachable state.
THEOREM Invariance == Spec => []IInv
  BY InitIInv, NextKeepsIInv, PTL DEF Spec

\* Every variable has its type.
THEOREM TypeCorrect == Spec => []TypeOK
  BY Invariance, PTL DEF IInv

\* For any number of daemons with one address at most one holds a pidfile lock,
\* whatever was unlinked, and by whom.
THEOREM OneHolderPerAddress == Spec => []OneDaemonPerAddress
<1>1. IInv => OneDaemonPerAddress
  BY DEF IInv, ListenerIsOwned, OneDaemonPerAddress, HasLock
<1> QED
  BY <1>1, Invariance, PTL

\* The file a serving daemon has locked carries its number.
THEOREM NamedWhileServing == Spec => []ServingFileNamesDaemon
<1>1. IInv => ServingFileNamesDaemon
  BY DEF IInv, LocksAreHeld, NumbersAreWritten, ServingFileNamesDaemon, HasLock
<1> QED
  BY <1>1, Invariance, PTL

-----------------------------------------------------------------------------
\* The circumstances in which `stop` can be believed.
OneOperator == SharedAddr /\ \A b, c \in Clients : b = c

\* As long as the file a probe has open is the one a daemon has open, the path
\* names it: only a daemon that has had its turn, or this operator, unlinks.
PathIsOurs ==
    OneOperator =>
        \A c \in Clients : client[c] \in {"opened", "read"} =>
            \A d \in Daemons : fd[d] = fd[c] => path = fd[c]

\* A daemon that has the lock is found behind the path.
Behind(d) == HasLock(d) => path = fd[d]

\* So is the daemon `stop` has read the number of, and the one it has signalled,
\* until the probe has found the lock free.
StopWaits ==
    OneOperator =>
        \A c \in Clients :
            /\ client[c] = "read" /\ pid[c] # Nobody => Behind(pid[c])
            /\ client[c] = "signal" => Behind(pid[c])
            /\ cmd[c] = "await" =>
                  IF client[c] \in {"holding", "removeStopped", "stopped"}
                  THEN ~HasLock(signalled[c])
                  ELSE Behind(signalled[c])
            /\ cmd[c] = "await" /\ client[c] \in {"opened", "read"} /\ HasLock(signalled[c]) =>
                  fd[c] = fd[signalled[c]]

WaitInv == PathIsOurs /\ StopWaits

\* A daemon that starts finds the path empty or takes the file it names.
LEMMA AcquireKeepsWaitInv ==
    ASSUME IInv, WaitInv, OneOperator, NEW d \in Daemons,
           \/ Start(d) \/ StartFails(d) \/ OpenPidFile(d) \/ TakeLock(d)
           \/ LockBusy(d) \/ TruncatePidFile(d) \/ WritePid(d)
    PROVE  WaitInv'
<1> USE PidLockAssumption
<1> USE DEF Processes, HasLock, Named, Behind, OneOperator, files, daemons, commands
<1>1. CASE Start(d)
  <2>1. PathIsOurs'
    BY <1>1 DEF Start, Goto, TypeOK, WaitInv, PathIsOurs, IInv
  <2>2. StopWaits'
    BY <1>1 DEF Start, Goto, TypeOK, WaitInv, StopWaits, IInv
  <2> QED
    BY <2>1, <2>2 DEF WaitInv
<1>2. CASE StartFails(d)
  <2>1. PathIsOurs'
    BY <1>2 DEF StartFails, Goto, TypeOK, WaitInv, PathIsOurs, IInv
  <2>2. StopWaits'
    BY <1>2 DEF StartFails, Goto, TypeOK, WaitInv, StopWaits, IInv
  <2> QED
    BY <2>1, <2>2 DEF WaitInv
<1>3. CASE OpenPidFile(d)
  <2>1. PathIsOurs'
    BY <1>3 DEF OpenPidFile, Goto, TypeOK, LocksAreHeld, WaitInv, PathIsOurs, IInv
  <2>2. StopWaits'
    BY <1>3 DEF OpenPidFile, Goto, TypeOK, LocksAreHeld, NumbersAreWritten, WaitInv, StopWaits,
       IInv
  <2> QED
    BY <2>1, <2>2 DEF WaitInv
<1>4. CASE TakeLock(d)
  <2>1. PathIsOurs'
    BY <1>4 DEF TakeLock, Goto, TypeOK, WaitInv, PathIsOurs, IInv
  <2>2. StopWaits'
    BY <1>4 DEF TakeLock, Goto, TypeOK, NumbersAreWritten, WaitInv, StopWaits, IInv
  <2> QED
    BY <2>1, <2>2 DEF WaitInv
<1>5. CASE LockBusy(d)
  <2>1. PathIsOurs'
    BY <1>5 DEF LockBusy, Goto, TypeOK, LocksAreHeld, WaitInv, PathIsOurs, IInv
  <2>2. StopWaits'
    BY <1>5 DEF LockBusy, Goto, TypeOK, WaitInv, StopWaits, IInv
  <2> QED
    BY <2>1, <2>2 DEF WaitInv
<1>6. CASE TruncatePidFile(d)
  <2>1. PathIsOurs'
    BY <1>6 DEF TruncatePidFile, Goto, TypeOK, WaitInv, PathIsOurs, IInv
  <2>2. StopWaits'
    BY <1>6 DEF TruncatePidFile, Goto, TypeOK, WaitInv, StopWaits, IInv
  <2> QED
    BY <2>1, <2>2 DEF WaitInv
<1>7. CASE WritePid(d)
  <2>1. PathIsOurs'
    BY <1>7 DEF WritePid, Goto, TypeOK, WaitInv, PathIsOurs, IInv
  <2>2. StopWaits'
    BY <1>7 DEF WritePid, Goto, TypeOK, WaitInv, StopWaits, IInv
  <2> QED
    BY <2>1, <2>2 DEF WaitInv
<1> QED
  BY <1>1, <1>2, <1>3, <1>4, <1>5, <1>6, <1>7

\* A daemon that leaves unlinks while it is still bound to the address.
LEMMA ReleaseKeepsWaitInv ==
    ASSUME IInv, WaitInv, OneOperator, NEW d \in Daemons,
           \/ LeaveSelect(d) \/ Unlock(d) \/ RemovePidFile(d)
           \/ Stop(d) \/ Interrupt(d) \/ Crash(d)
    PROVE  WaitInv'
<1> USE PidLockAssumption
<1> USE DEF Processes, HasLock, Named, Behind, OneOperator, files, daemons, commands
<1>1. CASE LeaveSelect(d)
  <2>1. PathIsOurs'
    BY <1>1 DEF LeaveSelect, Goto, TypeOK, WaitInv, PathIsOurs, IInv
  <2>2. StopWaits'
    BY <1>1 DEF LeaveSelect, Goto, TypeOK, WaitInv, StopWaits, IInv
  <2> QED
    BY <2>1, <2>2 DEF WaitInv
<1>2. CASE Unlock(d)
  <2>1. PathIsOurs'
    BY <1>2 DEF Unlock, Goto, TypeOK, WaitInv, PathIsOurs, IInv
  <2>2. StopWaits'
    BY <1>2 DEF Unlock, Goto, TypeOK, WaitInv, StopWaits, IInv
  <2> QED
    BY <2>1, <2>2 DEF WaitInv
<1>3. CASE RemovePidFile(d)
  <2>1. PathIsOurs'
    BY <1>3 DEF RemovePidFile, Goto, TypeOK, LocksAreHeld, ListenerIsOwned, PathIsOurs, IInv
  <2>2. StopWaits'
    BY <1>3 DEF RemovePidFile, Goto, TypeOK, ListenerIsOwned, NumbersAreWritten, StopWaits, IInv
  <2> QED
    BY <2>1, <2>2 DEF WaitInv
<1>4. CASE Stop(d)
  <2>1. PathIsOurs'
    BY <1>4 DEF Stop, Goto, Unbind, TypeOK, WaitInv, PathIsOurs, IInv
  <2>2. StopWaits'
    BY <1>4 DEF Stop, Goto, Unbind, TypeOK, WaitInv, StopWaits, IInv
  <2> QED
    BY <2>1, <2>2 DEF WaitInv
<1>5. CASE Crash(d)
  <2>1. PathIsOurs'
    BY <1>5 DEF Crash, Unbind, TypeOK, LocksAreHeld, WaitInv, PathIsOurs, IInv
  <2>2. StopWaits'
    BY <1>5 DEF Crash, Unbind, TypeOK, WaitInv, StopWaits, IInv
  <2> QED
    BY <2>1, <2>2 DEF WaitInv
<1>6. CASE Interrupt(d)
  <2>1. PathIsOurs'
    BY <1>6 DEF Interrupt, TypeOK, WaitInv, PathIsOurs, IInv
  <2>2. StopWaits'
    BY <1>6 DEF Interrupt, TypeOK, WaitInv, StopWaits, IInv
  <2> QED
    BY <2>1, <2>2 DEF WaitInv
<1> QED
  BY <1>1, <1>2, <1>3, <1>4, <1>5, <1>6

\* The probe reads, and tries the lock of, the file the path named.
LEMMA ProbeKeepsWaitInv ==
    ASSUME IInv, WaitInv, OneOperator, NEW c \in Clients,
           \/ Begin(c) \/ ProbeFindsNothing(c) \/ ProbeOpens(c) \/ ProbeReads(c)
           \/ ProbeFindsLock(c) \/ ProbeTakesLock(c) \/ ProbeReleases(c)
    PROVE  WaitInv'
<1> USE PidLockAssumption
<1> USE DEF Processes, HasLock, Named, Behind, OneOperator, files, daemons, commands
<1>1. CASE Begin(c)
  <2>1. PathIsOurs'
    BY <1>1 DEF Begin, TypeOK, PathIsOurs, IInv
  <2>2. StopWaits'
    BY <1>1 DEF Begin, TypeOK, StopWaits, IInv
  <2> QED
    BY <2>1, <2>2 DEF WaitInv
<1>2. CASE ProbeFindsNothing(c)
  <2>1. PathIsOurs'
    BY <1>2 DEF ProbeFindsNothing, Finish, TypeOK, PathIsOurs, IInv
  <2>2. StopWaits'
    BY <1>2 DEF ProbeFindsNothing, Finish, TypeOK, LocksAreHeld, NumbersAreWritten, WaitInv,
       StopWaits, IInv
  <2> QED
    BY <2>1, <2>2 DEF WaitInv
<1>3. CASE ProbeOpens(c)
  <2>1. PathIsOurs'
    BY <1>3 DEF ProbeOpens, TypeOK, PathIsOurs, IInv
  <2>2. StopWaits'
    BY <1>3 DEF ProbeOpens, TypeOK, WaitInv, StopWaits, IInv
  <2> QED
    BY <2>1, <2>2 DEF WaitInv
<1>4. CASE ProbeReads(c)
  <2>1. PathIsOurs'
    BY <1>4 DEF ProbeReads, TypeOK, WaitInv, PathIsOurs, IInv
  <2>2. StopWaits'
    BY <1>4 DEF ProbeReads, TypeOK, LocksAreHeld, NumbersAreWritten, WaitInv, PathIsOurs,
       StopWaits, IInv
  <2> QED
    BY <2>1, <2>2 DEF WaitInv
<1>5. CASE ProbeFindsLock(c)
  <2>1. PathIsOurs'
    BY <1>5 DEF ProbeFindsLock, Finish, TypeOK, PathIsOurs, IInv
  <2>2. StopWaits'
    BY <1>5 DEF ProbeFindsLock, Finish, TypeOK, WaitInv, StopWaits, IInv
  <2> QED
    BY <2>1, <2>2 DEF WaitInv
<1>6. CASE ProbeTakesLock(c)
  <2>1. PathIsOurs'
    BY <1>6 DEF ProbeTakesLock, TypeOK, PathIsOurs, IInv
  <2>2. StopWaits'
    BY <1>6 DEF ProbeTakesLock, TypeOK, LocksAreHeld, NumbersAreWritten, WaitInv, StopWaits,
       IInv
  <2> QED
    BY <2>1, <2>2 DEF WaitInv
<1>7. CASE ProbeReleases(c)
  <2>1. PathIsOurs'
    BY <1>7 DEF ProbeReleases, Finish, TypeOK, PathIsOurs, IInv
  <2>2. StopWaits'
    BY <1>7 DEF ProbeReleases, Finish, TypeOK, WaitInv, StopWaits, IInv
  <2> QED
    BY <2>1, <2>2 DEF WaitInv
<1> QED
  BY <1>1, <1>2, <1>3, <1>4, <1>5, <1>6, <1>7

\* The operator unlinks only when the command is over, or the daemon has let go.
LEMMA CommandKeepsWaitInv ==
    ASSUME IInv, WaitInv, OneOperator, NEW c \in Clients,
           \/ Signal(c) \/ PollAgain(c) \/ PollTimesOut(c)
           \/ RemoveStale(c) \/ RemoveStopped(c) \/ ReportStopped(c)
    PROVE  WaitInv'
<1> USE PidLockAssumption
<1> USE DEF Processes, HasLock, Named, Behind, OneOperator, files, daemons, commands
<1>1. CASE Signal(c)
  <2>1. PathIsOurs'
    BY <1>1 DEF Signal, Finish, TypeOK, PathIsOurs, IInv
  <2>2. StopWaits'
    BY <1>1 DEF Signal, Finish, TypeOK, WaitInv, StopWaits, IInv
  <2> QED
    BY <2>1, <2>2 DEF WaitInv
<1>2. CASE PollAgain(c)
  <2>1. PathIsOurs'
    BY <1>2 DEF PollAgain, TypeOK, PathIsOurs, IInv
  <2>2. StopWaits'
    BY <1>2 DEF PollAgain, TypeOK, WaitInv, StopWaits, IInv
  <2> QED
    BY <2>1, <2>2 DEF WaitInv
<1>3. CASE PollTimesOut(c)
  <2>1. PathIsOurs'
    BY <1>3 DEF PollTimesOut, Finish, TypeOK, PathIsOurs, IInv
  <2>2. StopWaits'
    BY <1>3 DEF PollTimesOut, Finish, TypeOK, StopWaits, IInv
  <2> QED
    BY <2>1, <2>2 DEF WaitInv
<1>4. CASE RemoveStale(c)
  <2>1. PathIsOurs'
    BY <1>4 DEF RemoveStale, Finish, TypeOK, PathIsOurs, IInv
  <2>2. StopWaits'
    BY <1>4 DEF RemoveStale, Finish, TypeOK, StopWaits, IInv
  <2> QED
    BY <2>1, <2>2 DEF WaitInv
<1>5. CASE RemoveStopped(c)
  <2>1. PathIsOurs'
    BY <1>5 DEF RemoveStopped, TypeOK, PathIsOurs, IInv
  <2>2. StopWaits'
    BY <1>5 DEF RemoveStopped, TypeOK, WaitInv, StopWaits, IInv
  <2> QED
    BY <2>1, <2>2 DEF WaitInv
<1>6. CASE ReportStopped(c)
  <2>1. PathIsOurs'
    BY <1>6 DEF ReportStopped, Finish, TypeOK, PathIsOurs, IInv
  <2>2. StopWaits'
    BY <1>6 DEF ReportStopped, Finish, TypeOK, StopWaits, IInv
  <2> QED
    BY <2>1, <2>2 DEF WaitInv
<1> QED
  BY <1>1, <1>2, <1>3, <1>4, <1>5, <1>6

\* Every step keeps what one operator relies on.
LEMMA NextKeepsWaitInv == ASSUME IInv, WaitInv, OneOperator, [Next]_vars PROVE WaitInv'
<1>1. ASSUME UNCHANGED vars PROVE WaitInv'
  BY <1>1 DEF WaitInv, PathIsOurs, StopWaits, Behind, HasLock, vars, files, daemons, commands
<1> QED
  BY <1>1, AcquireKeepsWaitInv, ReleaseKeepsWaitInv, ProbeKeepsWaitInv, CommandKeepsWaitInv
  DEF Next, Acquire, Release, Probe, Command, Terminated

\* With one operator and one address, however many daemons are started and die
\* meanwhile, `stop` does not say "stopped" of a daemon that still serves.
THEOREM StoppedIsTrue == Spec => []StoppedMeansNotServing
<1>1. Init => WaitInv
  BY DEF Init, WaitInv, PathIsOurs, StopWaits
<1>2. IInv /\ WaitInv /\ [Next]_vars => WaitInv'
  <2>1. CASE OneOperator
    BY <2>1, NextKeepsWaitInv
  <2>2. CASE ~OneOperator
    BY <2>2 DEF WaitInv, PathIsOurs, StopWaits
  <2> QED
    BY <2>1, <2>2
<1>3. IInv /\ WaitInv => StoppedMeansNotServing
  BY DEF IInv, NumbersAreWritten, WaitInv, StopWaits, StoppedMeansNotServing, OneOperator
<1> QED
  BY <1>1, <1>2, <1>3, Invariance, PTL DEF Spec
=============================================================================
