--------------------------- MODULE SessionsProofs ---------------------------
(* The safety properties of Sessions for any sessions, clients and TTL. *)
EXTENDS Sessions, FiniteSetTheorems, TLAPS

\* What the handler has done so far bounds what the subprocess and the two
\* goroutines may be doing; a verdict about to be recorded is already true.
ThreadsInOrder ==
    \A s \in Sessions :
        /\ proc[s] = "none" <=> handler[s] \in {"idle", "refused"}
        /\ lifecycle[s] = "none" <=> handler[s] \notin {"replying", "answered"}
        /\ lifecycle[s] = "none" <=> discover[s] = "none"
        /\ lifecycle[s] = "markComplete" => proc[s] \in Outputs
        /\ lifecycle[s] = "markFailed" => proc[s] \in Ended /\ (proc[s] \in Outputs => Cancelled)
        /\ lifecycle[s] = "done" => proc[s] \in Ended

\* The entry of a session is there from Create on, pending until its lifecycle
\* goroutine has recorded the verdict.
StoreInOrder ==
    \A s \in Sessions :
        /\ status[s] = "pending" <=>
              handler[s] \in {"created", "replying", "answered"} /\ lifecycle[s] # "done"
        /\ handler[s] \in {"idle", "refused", "spawned"} => status[s] = "absent"
        /\ lifecycle[s] = "done" <=> completedAt[s] # Never
        /\ completedAt[s] # Never => completedAt[s] \in 0..now
        /\ status[s] \in {"absent", "pending"} => result[s] = "none"

\* Only a session whose identifier was handed out is asked for, and what was
\* told of it is where it stands or has stood.
ClientsInOrder ==
    /\ \A s \in Sessions :
          /\ told[s] = "nothing" <=> handler[s] \notin {"refused", "answered"}
          /\ told[s] = "refused" <=> handler[s] = "refused"
          /\ told[s] \in Terminal => status[s] \in {told[s], "absent"}
          /\ told[s] = "unknown" => status[s] = "absent"
    /\ \A p \in Pollers :
          poll[p] # "idle" => target[p] \in Sessions /\ handler[target[p]] = "answered"

\* A cutoff is at least a TTL old when it is used.
CutoffIsOld == gc = "cutoff" => cutoff + SessionTTL <= now

IInv ==
    /\ TypeOK /\ ThreadsInOrder /\ StoreInOrder /\ ClientsInOrder /\ CutoffIsOld
    /\ WakeupsAreExact /\ VerdictIsTheProcesss /\ ForgottenOnlyAfterTTL

\* Init establishes the invariant.
LEMMA InitIInv == ASSUME Init PROVE IInv
<1> USE TimeAssumption, NoSessionAssumption DEF Init, Never
<1>1. TypeOK
  <2>1. /\ completedAt \in [Sessions -> Int] /\ target \in [Pollers -> Sessions \cup {NoSession}]
        /\ now \in Nat /\ cutoff \in Int /\ SessionWG \in Int /\ stop \in StopPhases
    BY DEF StopPhases
  <2>2. /\ result \in [Sessions -> {"none", "null", "json", "raw"}]
        /\ told \in [Sessions -> {"nothing", "refused", "pending", "unknown"} \cup Terminal]
        /\ status \in [Sessions -> {"absent", "pending"} \cup Terminal]
    OBVIOUS
  <2> QED
    BY <2>1, <2>2 DEF TypeOK
<1>2. ThreadsInOrder /\ StoreInOrder
  BY DEF ThreadsInOrder, StoreInOrder
<1>3. ClientsInOrder /\ CutoffIsOld
  BY DEF ClientsInOrder, CutoffIsOld, Terminal
<1>4. WakeupsAreExact /\ VerdictIsTheProcesss /\ ForgottenOnlyAfterTTL
  BY DEF WakeupsAreExact, VerdictIsTheProcesss, ForgottenOnlyAfterTTL, Terminal
<1> QED
  BY <1>1, <1>2, <1>3, <1>4 DEF IInv

\* A step of a startSession call keeps it.
LEMMA HandlerKeepsIInv ==
    ASSUME IInv, NEW s \in Sessions, Spawn(s) \/ SpawnFails(s) \/ Create(s) \/ Launch(s) \/ Reply(s) \/ ReplyBlind(s) PROVE IInv'
<1> USE TimeAssumption, NoSessionAssumption, OutputsAssumption
<1> USE DEF IInv, threads, store, clients, daemon, Ended, Terminal, Never, Cancelled, Alive
<1>1. CASE Spawn(s)
  <2>1. TypeOK'
    BY <1>1 DEF Spawn, TypeOK, StopPhases
  <2>2. ThreadsInOrder'
    BY <1>1 DEF Spawn, ThreadsInOrder, TypeOK
  <2>3. StoreInOrder'
    BY <1>1 DEF Spawn, StoreInOrder, ThreadsInOrder, TypeOK
  <2>4. ClientsInOrder' /\ CutoffIsOld'
    BY <1>1 DEF Spawn, ClientsInOrder, CutoffIsOld, StoreInOrder, TypeOK
  <2>5. WakeupsAreExact' /\ ForgottenOnlyAfterTTL'
    BY <1>1 DEF Spawn, WakeupsAreExact, ForgottenOnlyAfterTTL, StoreInOrder, ThreadsInOrder, TypeOK
  <2>6. VerdictIsTheProcesss'
    BY <1>1 DEF Spawn, VerdictIsTheProcesss, ThreadsInOrder, StoreInOrder, TypeOK
  <2> QED
    BY <2>1, <2>2, <2>3, <2>4, <2>5, <2>6 DEF IInv
<1>2. CASE SpawnFails(s)
  <2>1. TypeOK'
    BY <1>2 DEF SpawnFails, TypeOK, StopPhases
  <2>2. ThreadsInOrder'
    BY <1>2 DEF SpawnFails, ThreadsInOrder, TypeOK
  <2>3. StoreInOrder'
    BY <1>2 DEF SpawnFails, StoreInOrder, ThreadsInOrder, TypeOK
  <2>4. ClientsInOrder' /\ CutoffIsOld'
    BY <1>2 DEF SpawnFails, ClientsInOrder, CutoffIsOld, StoreInOrder, TypeOK
  <2>5. WakeupsAreExact' /\ ForgottenOnlyAfterTTL'
    BY <1>2 DEF SpawnFails, WakeupsAreExact, ForgottenOnlyAfterTTL, StoreInOrder, ThreadsInOrder, TypeOK
  <2>6. VerdictIsTheProcesss'
    BY <1>2 DEF SpawnFails, VerdictIsTheProcesss, ThreadsInOrder, StoreInOrder, TypeOK
  <2> QED
    BY <2>1, <2>2, <2>3, <2>4, <2>5, <2>6 DEF IInv
<1>3. CASE Create(s)
  <2>1. TypeOK'
    BY <1>3 DEF Create, TypeOK, StopPhases
  <2>2. ThreadsInOrder'
    BY <1>3 DEF Create, ThreadsInOrder, TypeOK
  <2>3. StoreInOrder'
    <3>1. handler[s] = "spawned" /\ lifecycle[s] = "none" /\ completedAt[s] = Never
      BY <1>3 DEF Create, StoreInOrder, ThreadsInOrder
    <3>2. handler'[s] = "created" /\ status'[s] = "pending" /\ result[s] = "none"
      BY <1>3 DEF Create, StoreInOrder, TypeOK
    <3>3. /\ \A r \in Sessions \ {s} : status'[r] = status[r] /\ handler'[r] = handler[r]
          /\ UNCHANGED <<lifecycle, completedAt, result, now>>
      BY <1>3 DEF Create, TypeOK
    <3> QED
      BY <3>1, <3>2, <3>3 DEF StoreInOrder
  <2>4. ClientsInOrder' /\ CutoffIsOld'
    <3>1. told[s] = "nothing"
      BY <1>3 DEF Create, ClientsInOrder
    <3>2. /\ \A r \in Sessions \ {s} : status'[r] = status[r] /\ handler'[r] = handler[r]
          /\ handler'[s] = "created" /\ UNCHANGED <<told, poll, target, now, gc, cutoff>>
      BY <1>3 DEF Create, TypeOK
    <3> QED
      BY <1>3, <3>1, <3>2 DEF Create, ClientsInOrder, CutoffIsOld
  <2>5. WakeupsAreExact' /\ ForgottenOnlyAfterTTL'
    BY <1>3 DEF Create, WakeupsAreExact, ForgottenOnlyAfterTTL, StoreInOrder, ThreadsInOrder, TypeOK
  <2>6. VerdictIsTheProcesss'
    BY <1>3 DEF Create, VerdictIsTheProcesss, ThreadsInOrder, StoreInOrder, TypeOK
  <2> QED
    BY <2>1, <2>2, <2>3, <2>4, <2>5, <2>6 DEF IInv
<1>4. CASE Launch(s)
  <2>1. TypeOK'
    BY <1>4 DEF Launch, TypeOK, StopPhases
  <2>2. ThreadsInOrder'
    BY <1>4 DEF Launch, ThreadsInOrder, TypeOK
  <2>3. StoreInOrder'
    BY <1>4 DEF Launch, StoreInOrder, ThreadsInOrder, TypeOK
  <2>4. ClientsInOrder' /\ CutoffIsOld'
    BY <1>4 DEF Launch, ClientsInOrder, CutoffIsOld, StoreInOrder, TypeOK
  <2>5. WakeupsAreExact' /\ ForgottenOnlyAfterTTL'
    BY <1>4 DEF Launch, WakeupsAreExact, ForgottenOnlyAfterTTL, StoreInOrder, ThreadsInOrder, TypeOK
  <2>6. VerdictIsTheProcesss'
    BY <1>4 DEF Launch, VerdictIsTheProcesss, ThreadsInOrder, StoreInOrder, TypeOK
  <2> QED
    BY <2>1, <2>2, <2>3, <2>4, <2>5, <2>6 DEF IInv
<1>5. CASE Reply(s)
  <2>1. TypeOK'
    BY <1>5 DEF Reply, TypeOK, StopPhases
  <2>2. ThreadsInOrder'
    BY <1>5 DEF Reply, ThreadsInOrder, TypeOK
  <2>3. StoreInOrder'
    BY <1>5 DEF Reply, StoreInOrder, ThreadsInOrder, TypeOK
  <2>4. ClientsInOrder' /\ CutoffIsOld'
    BY <1>5 DEF Reply, ClientsInOrder, CutoffIsOld, StoreInOrder, TypeOK
  <2>5. WakeupsAreExact' /\ ForgottenOnlyAfterTTL'
    BY <1>5 DEF Reply, WakeupsAreExact, ForgottenOnlyAfterTTL, StoreInOrder, ThreadsInOrder, TypeOK
  <2>6. VerdictIsTheProcesss'
    BY <1>5 DEF Reply, VerdictIsTheProcesss, ThreadsInOrder, StoreInOrder, TypeOK
  <2> QED
    BY <2>1, <2>2, <2>3, <2>4, <2>5, <2>6 DEF IInv
<1>6. CASE ReplyBlind(s)
  <2>1. TypeOK'
    BY <1>6 DEF ReplyBlind, TypeOK, StopPhases
  <2>2. ThreadsInOrder'
    BY <1>6 DEF ReplyBlind, ThreadsInOrder, TypeOK
  <2>3. StoreInOrder'
    BY <1>6 DEF ReplyBlind, StoreInOrder, ThreadsInOrder, TypeOK
  <2>4. ClientsInOrder' /\ CutoffIsOld'
    BY <1>6 DEF ReplyBlind, ClientsInOrder, CutoffIsOld, StoreInOrder, TypeOK
  <2>5. WakeupsAreExact' /\ ForgottenOnlyAfterTTL'
    BY <1>6 DEF ReplyBlind, WakeupsAreExact, ForgottenOnlyAfterTTL, StoreInOrder, ThreadsInOrder, TypeOK
  <2>6. VerdictIsTheProcesss'
    BY <1>6 DEF ReplyBlind, VerdictIsTheProcesss, ThreadsInOrder, StoreInOrder, TypeOK
  <2> QED
    BY <2>1, <2>2, <2>3, <2>4, <2>5, <2>6 DEF IInv
<1> QED
  BY <1>1, <1>2, <1>3, <1>4, <1>5, <1>6

\* The end of a subprocess and a step of its URL discovery keep it.
LEMMA ProcessKeepsIInv ==
    ASSUME IInv, NEW s \in Sessions, Finish(s) \/ Kill(s) \/ FindURL(s) \/ FindNoURL(s) \/ SetURL(s) PROVE IInv'
<1> USE TimeAssumption, NoSessionAssumption, OutputsAssumption
<1> USE DEF IInv, threads, store, clients, daemon, Ended, Terminal, Never, Cancelled, Alive
<1>1. CASE Finish(s)
  <2>1. TypeOK'
    BY <1>1 DEF Finish, TypeOK, StopPhases
  <2>2. ThreadsInOrder'
    BY <1>1 DEF Finish, ThreadsInOrder, TypeOK
  <2>3. StoreInOrder'
    BY <1>1 DEF Finish, StoreInOrder, ThreadsInOrder, TypeOK
  <2>4. ClientsInOrder' /\ CutoffIsOld'
    BY <1>1 DEF Finish, ClientsInOrder, CutoffIsOld, StoreInOrder, TypeOK
  <2>5. WakeupsAreExact' /\ ForgottenOnlyAfterTTL'
    BY <1>1 DEF Finish, WakeupsAreExact, ForgottenOnlyAfterTTL, StoreInOrder, ThreadsInOrder, TypeOK
  <2>6. VerdictIsTheProcesss'
    BY <1>1 DEF Finish, VerdictIsTheProcesss, ThreadsInOrder, StoreInOrder, TypeOK
  <2> QED
    BY <2>1, <2>2, <2>3, <2>4, <2>5, <2>6 DEF IInv
<1>2. CASE Kill(s)
  <2>1. TypeOK'
    BY <1>2 DEF Kill, TypeOK, StopPhases
  <2>2. ThreadsInOrder'
    BY <1>2 DEF Kill, ThreadsInOrder, TypeOK
  <2>3. StoreInOrder'
    BY <1>2 DEF Kill, StoreInOrder, ThreadsInOrder, TypeOK
  <2>4. ClientsInOrder' /\ CutoffIsOld'
    BY <1>2 DEF Kill, ClientsInOrder, CutoffIsOld, StoreInOrder, TypeOK
  <2>5. WakeupsAreExact' /\ ForgottenOnlyAfterTTL'
    BY <1>2 DEF Kill, WakeupsAreExact, ForgottenOnlyAfterTTL, StoreInOrder, ThreadsInOrder, TypeOK
  <2>6. VerdictIsTheProcesss'
    BY <1>2 DEF Kill, VerdictIsTheProcesss, ThreadsInOrder, StoreInOrder, TypeOK
  <2> QED
    BY <2>1, <2>2, <2>3, <2>4, <2>5, <2>6 DEF IInv
<1>3. CASE FindURL(s)
  <2>1. TypeOK'
    BY <1>3 DEF FindURL, TypeOK, StopPhases
  <2>2. ThreadsInOrder'
    BY <1>3 DEF FindURL, ThreadsInOrder, TypeOK
  <2>3. StoreInOrder'
    BY <1>3 DEF FindURL, StoreInOrder, ThreadsInOrder, TypeOK
  <2>4. ClientsInOrder' /\ CutoffIsOld'
    BY <1>3 DEF FindURL, ClientsInOrder, CutoffIsOld, StoreInOrder, TypeOK
  <2>5. WakeupsAreExact' /\ ForgottenOnlyAfterTTL'
    BY <1>3 DEF FindURL, WakeupsAreExact, ForgottenOnlyAfterTTL, StoreInOrder, ThreadsInOrder, TypeOK
  <2>6. VerdictIsTheProcesss'
    BY <1>3 DEF FindURL, VerdictIsTheProcesss, ThreadsInOrder, StoreInOrder, TypeOK
  <2> QED
    BY <2>1, <2>2, <2>3, <2>4, <2>5, <2>6 DEF IInv
<1>4. CASE FindNoURL(s)
  <2>1. TypeOK'
    BY <1>4 DEF FindNoURL, TypeOK, StopPhases
  <2>2. ThreadsInOrder'
    BY <1>4 DEF FindNoURL, ThreadsInOrder, TypeOK
  <2>3. StoreInOrder'
    BY <1>4 DEF FindNoURL, StoreInOrder, ThreadsInOrder, TypeOK
  <2>4. ClientsInOrder' /\ CutoffIsOld'
    BY <1>4 DEF FindNoURL, ClientsInOrder, CutoffIsOld, StoreInOrder, TypeOK
  <2>5. WakeupsAreExact' /\ ForgottenOnlyAfterTTL'
    BY <1>4 DEF FindNoURL, WakeupsAreExact, ForgottenOnlyAfterTTL, StoreInOrder, ThreadsInOrder, TypeOK
  <2>6. VerdictIsTheProcesss'
    BY <1>4 DEF FindNoURL, VerdictIsTheProcesss, ThreadsInOrder, StoreInOrder, TypeOK
  <2> QED
    BY <2>1, <2>2, <2>3, <2>4, <2>5, <2>6 DEF IInv
<1>5. CASE SetURL(s)
  <2>1. TypeOK'
    BY <1>5 DEF SetURL, TypeOK, StopPhases
  <2>2. ThreadsInOrder'
    BY <1>5 DEF SetURL, ThreadsInOrder, TypeOK
  <2>3. StoreInOrder'
    BY <1>5 DEF SetURL, StoreInOrder, ThreadsInOrder, TypeOK
  <2>4. ClientsInOrder' /\ CutoffIsOld'
    BY <1>5 DEF SetURL, ClientsInOrder, CutoffIsOld, StoreInOrder, TypeOK
  <2>5. WakeupsAreExact' /\ ForgottenOnlyAfterTTL'
    BY <1>5 DEF SetURL, WakeupsAreExact, ForgottenOnlyAfterTTL, StoreInOrder, ThreadsInOrder, TypeOK
  <2>6. VerdictIsTheProcesss'
    BY <1>5 DEF SetURL, VerdictIsTheProcesss, ThreadsInOrder, StoreInOrder, TypeOK
  <2> QED
    BY <2>1, <2>2, <2>3, <2>4, <2>5, <2>6 DEF IInv
<1> QED
  BY <1>1, <1>2, <1>3, <1>4, <1>5

\* A step of a lifecycle goroutine keeps it.
LEMMA LifecycleKeepsIInv ==
    ASSUME IInv, NEW s \in Sessions, WaitSucceeds(s) \/ WaitFails(s) \/ MarkComplete(s) \/ MarkFailed(s) PROVE IInv'
<1> USE TimeAssumption, NoSessionAssumption, OutputsAssumption
<1> USE DEF IInv, threads, store, clients, daemon, Ended, Terminal, Never, Cancelled, Alive
<1>1. CASE WaitSucceeds(s)
  <2>1. TypeOK'
    BY <1>1 DEF WaitSucceeds, TypeOK, StopPhases
  <2>2. ThreadsInOrder'
    BY <1>1 DEF WaitSucceeds, ThreadsInOrder, TypeOK
  <2>3. StoreInOrder'
    BY <1>1 DEF WaitSucceeds, StoreInOrder, ThreadsInOrder, TypeOK
  <2>4. ClientsInOrder' /\ CutoffIsOld'
    BY <1>1 DEF WaitSucceeds, ClientsInOrder, CutoffIsOld, StoreInOrder, TypeOK
  <2>5. WakeupsAreExact' /\ ForgottenOnlyAfterTTL'
    BY <1>1 DEF WaitSucceeds, WakeupsAreExact, ForgottenOnlyAfterTTL, StoreInOrder, ThreadsInOrder, TypeOK
  <2>6. VerdictIsTheProcesss'
    BY <1>1 DEF WaitSucceeds, VerdictIsTheProcesss, ThreadsInOrder, StoreInOrder, TypeOK
  <2> QED
    BY <2>1, <2>2, <2>3, <2>4, <2>5, <2>6 DEF IInv
<1>2. CASE WaitFails(s)
  <2>1. TypeOK'
    BY <1>2 DEF WaitFails, TypeOK, StopPhases
  <2>2. ThreadsInOrder'
    BY <1>2 DEF WaitFails, ThreadsInOrder, TypeOK
  <2>3. StoreInOrder'
    BY <1>2 DEF WaitFails, StoreInOrder, ThreadsInOrder, TypeOK
  <2>4. ClientsInOrder' /\ CutoffIsOld'
    BY <1>2 DEF WaitFails, ClientsInOrder, CutoffIsOld, StoreInOrder, TypeOK
  <2>5. WakeupsAreExact' /\ ForgottenOnlyAfterTTL'
    BY <1>2 DEF WaitFails, WakeupsAreExact, ForgottenOnlyAfterTTL, StoreInOrder, ThreadsInOrder, TypeOK
  <2>6. VerdictIsTheProcesss'
    BY <1>2 DEF WaitFails, VerdictIsTheProcesss, ThreadsInOrder, StoreInOrder, TypeOK
  <2> QED
    BY <2>1, <2>2, <2>3, <2>4, <2>5, <2>6 DEF IInv
<1>3. CASE MarkComplete(s)
  <2>1. /\ lifecycle[s] = "markComplete" /\ handler[s] \in {"replying", "answered"}
        /\ status[s] = "pending" /\ completedAt[s] = Never /\ result[s] = "none"
    BY <1>3 DEF MarkComplete, ThreadsInOrder, StoreInOrder, TypeOK
  <2>2. /\ status' = [status EXCEPT ![s] = "complete"] /\ completedAt' = [completedAt EXCEPT ![s] = now]
        /\ done' = [done EXCEPT ![s] = TRUE] /\ lifecycle' = [lifecycle EXCEPT ![s] = "done"]
        /\ result' = [result EXCEPT ![s] = ResultOf(proc[s])]
        /\ SessionWG' = SessionWG - 1 /\ UNCHANGED <<handler, proc, discover, url, clients, daemon>>
    BY <1>3, <2>1 DEF MarkComplete, Resolves
  <2>3. TypeOK'
    BY <2>2 DEF TypeOK, ResultOf
  <2>4. ThreadsInOrder'
    BY <2>1, <2>2 DEF ThreadsInOrder, TypeOK
  <2>5. StoreInOrder'
    BY <2>1, <2>2 DEF StoreInOrder, TypeOK
  <2>6. ClientsInOrder' /\ CutoffIsOld'
    BY <2>1, <2>2 DEF ClientsInOrder, CutoffIsOld, TypeOK
  <2>7. WakeupsAreExact' /\ ForgottenOnlyAfterTTL'
    BY <2>1, <2>2 DEF WakeupsAreExact, ForgottenOnlyAfterTTL, TypeOK
  <2>8. VerdictIsTheProcesss'
    BY <2>1, <2>2 DEF VerdictIsTheProcesss, ThreadsInOrder, TypeOK
  <2> QED
    BY <2>3, <2>4, <2>5, <2>6, <2>7, <2>8 DEF IInv
<1>4. CASE MarkFailed(s)
  <2>1. /\ lifecycle[s] = "markFailed" /\ handler[s] \in {"replying", "answered"}
        /\ status[s] = "pending" /\ completedAt[s] = Never /\ result[s] = "none"
    BY <1>4 DEF MarkFailed, ThreadsInOrder, StoreInOrder, TypeOK
  <2>2. /\ status' = [status EXCEPT ![s] = "failed"] /\ completedAt' = [completedAt EXCEPT ![s] = now]
        /\ done' = [done EXCEPT ![s] = TRUE] /\ lifecycle' = [lifecycle EXCEPT ![s] = "done"]
        /\ UNCHANGED result
        /\ SessionWG' = SessionWG - 1 /\ UNCHANGED <<handler, proc, discover, url, clients, daemon>>
    BY <1>4, <2>1 DEF MarkFailed, Resolves
  <2>3. TypeOK'
    BY <2>2 DEF TypeOK, ResultOf
  <2>4. ThreadsInOrder'
    BY <2>1, <2>2 DEF ThreadsInOrder, TypeOK
  <2>5. StoreInOrder'
    BY <2>1, <2>2 DEF StoreInOrder, TypeOK
  <2>6. ClientsInOrder' /\ CutoffIsOld'
    BY <2>1, <2>2 DEF ClientsInOrder, CutoffIsOld, TypeOK
  <2>7. WakeupsAreExact' /\ ForgottenOnlyAfterTTL'
    BY <2>1, <2>2 DEF WakeupsAreExact, ForgottenOnlyAfterTTL, TypeOK
  <2>8. VerdictIsTheProcesss'
    BY <2>1, <2>2 DEF VerdictIsTheProcesss, ThreadsInOrder, TypeOK
  <2> QED
    BY <2>3, <2>4, <2>5, <2>6, <2>7, <2>8 DEF IInv
<1> QED
  BY <1>1, <1>2, <1>3, <1>4

\* A step of a session_result call keeps it.
LEMMA PollKeepsIInv ==
    ASSUME IInv, NEW p \in Pollers, WakeResolved(p) \/ WakeGivesUp(p) \/ PollReturns(p) PROVE IInv'
<1> USE TimeAssumption, NoSessionAssumption, OutputsAssumption
<1> USE DEF IInv, threads, store, clients, daemon, Ended, Terminal, Never, Cancelled, Alive
<1>1. CASE WakeResolved(p)
  <2>1. TypeOK'
    BY <1>1 DEF WakeResolved, TypeOK, StopPhases
  <2>2. ThreadsInOrder'
    BY <1>1 DEF WakeResolved, ThreadsInOrder, TypeOK
  <2>3. StoreInOrder'
    BY <1>1 DEF WakeResolved, StoreInOrder, ThreadsInOrder, TypeOK
  <2>4. ClientsInOrder' /\ CutoffIsOld'
    BY <1>1 DEF WakeResolved, ClientsInOrder, CutoffIsOld, StoreInOrder, TypeOK
  <2>5. WakeupsAreExact' /\ ForgottenOnlyAfterTTL'
    BY <1>1 DEF WakeResolved, WakeupsAreExact, ForgottenOnlyAfterTTL, StoreInOrder, ThreadsInOrder, TypeOK
  <2>6. VerdictIsTheProcesss'
    BY <1>1 DEF WakeResolved, VerdictIsTheProcesss, ThreadsInOrder, StoreInOrder, TypeOK
  <2> QED
    BY <2>1, <2>2, <2>3, <2>4, <2>5, <2>6 DEF IInv
<1>2. CASE WakeGivesUp(p)
  <2>1. TypeOK'
    BY <1>2 DEF WakeGivesUp, TypeOK, StopPhases
  <2>2. ThreadsInOrder'
    BY <1>2 DEF WakeGivesUp, ThreadsInOrder, TypeOK
  <2>3. StoreInOrder'
    BY <1>2 DEF WakeGivesUp, StoreInOrder, ThreadsInOrder, TypeOK
  <2>4. ClientsInOrder' /\ CutoffIsOld'
    BY <1>2 DEF WakeGivesUp, ClientsInOrder, CutoffIsOld, StoreInOrder, TypeOK
  <2>5. WakeupsAreExact' /\ ForgottenOnlyAfterTTL'
    BY <1>2 DEF WakeGivesUp, WakeupsAreExact, ForgottenOnlyAfterTTL, StoreInOrder, ThreadsInOrder, TypeOK
  <2>6. VerdictIsTheProcesss'
    BY <1>2 DEF WakeGivesUp, VerdictIsTheProcesss, ThreadsInOrder, StoreInOrder, TypeOK
  <2> QED
    BY <2>1, <2>2, <2>3, <2>4, <2>5, <2>6 DEF IInv
<1>3. CASE PollReturns(p)
  <2>1. TypeOK'
    <3>1. target[p] \in Sessions
      BY <1>3 DEF PollReturns, ClientsInOrder
    <3>2. Snapshot(target[p]) \in {"pending", "unknown"} \cup Terminal
      BY <3>1 DEF Snapshot, TypeOK
    <3>3. told' \in [Sessions -> {"nothing", "refused", "pending", "unknown"} \cup Terminal]
      BY <1>3, <3>1, <3>2 DEF PollReturns, TypeOK
    <3> QED
      BY <1>3, <3>3 DEF PollReturns, TypeOK
  <2>2. ThreadsInOrder'
    BY <1>3 DEF PollReturns, Snapshot, ThreadsInOrder, TypeOK
  <2>3. StoreInOrder'
    BY <1>3 DEF PollReturns, Snapshot, StoreInOrder, ThreadsInOrder, TypeOK
  <2>4. ClientsInOrder' /\ CutoffIsOld'
    BY <1>3 DEF PollReturns, Snapshot, ClientsInOrder, CutoffIsOld, StoreInOrder, TypeOK
  <2>5. WakeupsAreExact' /\ ForgottenOnlyAfterTTL'
    BY <1>3 DEF PollReturns, Snapshot, WakeupsAreExact, ForgottenOnlyAfterTTL, StoreInOrder, ThreadsInOrder, TypeOK
  <2>6. VerdictIsTheProcesss'
    BY <1>3 DEF PollReturns, Snapshot, VerdictIsTheProcesss, ThreadsInOrder, StoreInOrder, TypeOK
  <2> QED
    BY <2>1, <2>2, <2>3, <2>4, <2>5, <2>6 DEF IInv
<1> QED
  BY <1>1, <1>2, <1>3

\* The first look of a session_result call keeps it.
LEMMA PollBeginKeepsIInv ==
    ASSUME IInv, NEW p \in Pollers, NEW s \in Sessions, NEW w \in WaitInputs, PollAnswered(p, s, w) \/ PollWaits(p, s, w) PROVE IInv'
<1> USE TimeAssumption, NoSessionAssumption, OutputsAssumption
<1> USE DEF IInv, threads, store, clients, daemon, Ended, Terminal, Never, Cancelled, Alive
<1>1. CASE PollAnswered(p, s, w)
  <2>1. TypeOK'
    BY <1>1 DEF PollAnswered, Snapshot, TypeOK, StopPhases
  <2>2. ThreadsInOrder'
    BY <1>1 DEF PollAnswered, Snapshot, ThreadsInOrder, TypeOK
  <2>3. StoreInOrder'
    BY <1>1 DEF PollAnswered, Snapshot, StoreInOrder, ThreadsInOrder, TypeOK
  <2>4. ClientsInOrder' /\ CutoffIsOld'
    BY <1>1 DEF PollAnswered, Snapshot, ClientsInOrder, CutoffIsOld, StoreInOrder, TypeOK
  <2>5. WakeupsAreExact' /\ ForgottenOnlyAfterTTL'
    BY <1>1 DEF PollAnswered, Snapshot, WakeupsAreExact, ForgottenOnlyAfterTTL, StoreInOrder, ThreadsInOrder, TypeOK
  <2>6. VerdictIsTheProcesss'
    BY <1>1 DEF PollAnswered, Snapshot, VerdictIsTheProcesss, ThreadsInOrder, StoreInOrder, TypeOK
  <2> QED
    BY <2>1, <2>2, <2>3, <2>4, <2>5, <2>6 DEF IInv
<1>2. CASE PollWaits(p, s, w)
  <2>1. TypeOK'
    BY <1>2 DEF PollWaits, TypeOK, StopPhases
  <2>2. ThreadsInOrder'
    BY <1>2 DEF PollWaits, ThreadsInOrder, TypeOK
  <2>3. StoreInOrder'
    BY <1>2 DEF PollWaits, StoreInOrder, ThreadsInOrder, TypeOK
  <2>4. ClientsInOrder' /\ CutoffIsOld'
    BY <1>2 DEF PollWaits, ClientsInOrder, CutoffIsOld, StoreInOrder, TypeOK
  <2>5. WakeupsAreExact' /\ ForgottenOnlyAfterTTL'
    BY <1>2 DEF PollWaits, WakeupsAreExact, ForgottenOnlyAfterTTL, StoreInOrder, ThreadsInOrder, TypeOK
  <2>6. VerdictIsTheProcesss'
    BY <1>2 DEF PollWaits, VerdictIsTheProcesss, ThreadsInOrder, StoreInOrder, TypeOK
  <2> QED
    BY <2>1, <2>2, <2>3, <2>4, <2>5, <2>6 DEF IInv
<1> QED
  BY <1>1, <1>2

\* The collector and the clock keep it.
LEMMA CollectKeepsIInv ==
    ASSUME IInv, GCTick \/ GCSweep \/ GCExit \/ Tick PROVE IInv'
<1> USE TimeAssumption, NoSessionAssumption, OutputsAssumption
<1> USE DEF IInv, threads, store, clients, daemon, Ended, Terminal, Never, Cancelled, Alive
<1>1. CASE GCTick
  <2>1. TypeOK'
    BY <1>1 DEF GCTick, TypeOK, StopPhases
  <2>2. ThreadsInOrder'
    BY <1>1 DEF GCTick, ThreadsInOrder, TypeOK
  <2>3. StoreInOrder'
    BY <1>1 DEF GCTick, StoreInOrder, ThreadsInOrder, TypeOK
  <2>4. ClientsInOrder' /\ CutoffIsOld'
    BY <1>1 DEF GCTick, ClientsInOrder, CutoffIsOld, StoreInOrder, TypeOK
  <2>5. WakeupsAreExact' /\ ForgottenOnlyAfterTTL'
    BY <1>1 DEF GCTick, WakeupsAreExact, ForgottenOnlyAfterTTL, StoreInOrder, ThreadsInOrder, TypeOK
  <2>6. VerdictIsTheProcesss'
    BY <1>1 DEF GCTick, VerdictIsTheProcesss, ThreadsInOrder, StoreInOrder, TypeOK
  <2> QED
    BY <2>1, <2>2, <2>3, <2>4, <2>5, <2>6 DEF IInv
<1>2. CASE GCSweep
  <2>1. TypeOK'
    BY <1>2 DEF GCSweep, Expired, TypeOK, StopPhases
  <2>2. ThreadsInOrder'
    BY <1>2 DEF GCSweep, Expired, ThreadsInOrder, TypeOK
  <2>3. StoreInOrder'
    BY <1>2 DEF GCSweep, Expired, StoreInOrder, ThreadsInOrder, TypeOK
  <2>4. ClientsInOrder' /\ CutoffIsOld'
    BY <1>2 DEF GCSweep, Expired, ClientsInOrder, CutoffIsOld, StoreInOrder, TypeOK
  <2>5. WakeupsAreExact' /\ ForgottenOnlyAfterTTL'
    <3>1. \A s \in Expired : completedAt[s] # Never /\ completedAt[s] + SessionTTL < now
      <4> SUFFICES ASSUME NEW s \in Expired
                   PROVE  completedAt[s] # Never /\ completedAt[s] + SessionTTL < now
        OBVIOUS
      <4>1. s \in Sessions /\ status[s] \in Terminal /\ completedAt[s] < cutoff
        BY DEF Expired
      <4>2. completedAt[s] \in Int /\ cutoff \in Int /\ now \in Int /\ cutoff + SessionTTL <= now
        BY <1>2, <4>1 DEF GCSweep, CutoffIsOld, TypeOK
      <4>3. completedAt[s] # Never
        BY <4>1 DEF WakeupsAreExact
      <4> QED
        BY <4>1, <4>2, <4>3
    <3>2. /\ \A s \in Sessions : status'[s] = IF s \in Expired THEN "absent" ELSE status[s]
          /\ UNCHANGED <<handler, completedAt, done, now>>
      BY <1>2 DEF GCSweep
    <3>3. WakeupsAreExact'
      BY <3>2 DEF WakeupsAreExact
    <3>4. ForgottenOnlyAfterTTL'
      BY <3>1, <3>2 DEF ForgottenOnlyAfterTTL
    <3> QED
      BY <3>3, <3>4
  <2>6. VerdictIsTheProcesss'
    BY <1>2 DEF GCSweep, Expired, VerdictIsTheProcesss, ThreadsInOrder, StoreInOrder, TypeOK
  <2> QED
    BY <2>1, <2>2, <2>3, <2>4, <2>5, <2>6 DEF IInv
<1>3. CASE GCExit
  <2>1. TypeOK'
    BY <1>3 DEF GCExit, TypeOK, StopPhases
  <2>2. ThreadsInOrder'
    BY <1>3 DEF GCExit, ThreadsInOrder, TypeOK
  <2>3. StoreInOrder'
    BY <1>3 DEF GCExit, StoreInOrder, ThreadsInOrder, TypeOK
  <2>4. ClientsInOrder' /\ CutoffIsOld'
    BY <1>3 DEF GCExit, ClientsInOrder, CutoffIsOld, StoreInOrder, TypeOK
  <2>5. WakeupsAreExact' /\ ForgottenOnlyAfterTTL'
    BY <1>3 DEF GCExit, WakeupsAreExact, ForgottenOnlyAfterTTL, StoreInOrder, ThreadsInOrder, TypeOK
  <2>6. VerdictIsTheProcesss'
    BY <1>3 DEF GCExit, VerdictIsTheProcesss, ThreadsInOrder, StoreInOrder, TypeOK
  <2> QED
    BY <2>1, <2>2, <2>3, <2>4, <2>5, <2>6 DEF IInv
<1>4. CASE Tick
  <2>1. TypeOK'
    BY <1>4 DEF Tick, TypeOK, StopPhases
  <2>2. ThreadsInOrder'
    BY <1>4 DEF Tick, ThreadsInOrder, TypeOK
  <2>3. StoreInOrder'
    BY <1>4 DEF Tick, StoreInOrder, ThreadsInOrder, TypeOK
  <2>4. ClientsInOrder' /\ CutoffIsOld'
    BY <1>4 DEF Tick, ClientsInOrder, CutoffIsOld, StoreInOrder, TypeOK
  <2>5. WakeupsAreExact' /\ ForgottenOnlyAfterTTL'
    BY <1>4 DEF Tick, WakeupsAreExact, ForgottenOnlyAfterTTL, StoreInOrder, ThreadsInOrder, TypeOK
  <2>6. VerdictIsTheProcesss'
    BY <1>4 DEF Tick, VerdictIsTheProcesss, ThreadsInOrder, StoreInOrder, TypeOK
  <2> QED
    BY <2>1, <2>2, <2>3, <2>4, <2>5, <2>6 DEF IInv
<1> QED
  BY <1>1, <1>2, <1>3, <1>4

\* Each step of Stop keeps it.
LEMMA StopKeepsIInv == ASSUME IInv, Shutdown PROVE IInv'
<1> USE DEF IInv, threads, store, clients, daemon
<1>1. /\ UNCHANGED <<threads, store, clients, gc, cutoff, now>>
      /\ stop' \in StopPhases /\ stop' # "up" /\ graceExpired' \in BOOLEAN
  BY DEF Shutdown, ParentCancel, Join, GiveUpJoin, CloseGCStop, WaitForGC, BeginShutdown,
         FinishShutdown, StopStep, StopPhases, TypeOK
<1>2. TypeOK'
  BY <1>1 DEF TypeOK
<1>3. ThreadsInOrder' /\ VerdictIsTheProcesss'
  BY <1>1 DEF ThreadsInOrder, VerdictIsTheProcesss, Cancelled
<1>4. StoreInOrder' /\ ClientsInOrder' /\ CutoffIsOld'
  BY <1>1 DEF StoreInOrder, ClientsInOrder, CutoffIsOld
<1>5. WakeupsAreExact' /\ ForgottenOnlyAfterTTL'
  BY <1>1 DEF WakeupsAreExact, ForgottenOnlyAfterTTL
<1> QED
  BY <1>2, <1>3, <1>4, <1>5

\* A step that changes nothing keeps it.
LEMMA StutterKeepsIInv == ASSUME IInv, UNCHANGED vars PROVE IInv'
<1> USE DEF IInv, vars, threads, store, clients, daemon
<1>1. TypeOK' /\ ThreadsInOrder' /\ StoreInOrder'
  BY DEF TypeOK, ThreadsInOrder, StoreInOrder, Cancelled
<1>2. ClientsInOrder' /\ CutoffIsOld'
  BY DEF ClientsInOrder, CutoffIsOld
<1>3. WakeupsAreExact' /\ VerdictIsTheProcesss' /\ ForgottenOnlyAfterTTL'
  BY DEF WakeupsAreExact, VerdictIsTheProcesss, ForgottenOnlyAfterTTL, Cancelled
<1> QED
  BY <1>1, <1>2, <1>3

\* Every step keeps it.
LEMMA NextKeepsIInv == ASSUME IInv, [Next]_vars PROVE IInv'
<1>1. ASSUME NEW s \in Sessions,
             Spawn(s) \/ SpawnFails(s) \/ Handle(s) \/ Finish(s) \/ Kill(s) \/ Discover(s) \/ Lifecycle(s)
      PROVE  IInv'
  BY <1>1, HandlerKeepsIInv, ProcessKeepsIInv, LifecycleKeepsIInv DEF Handle, Discover, Lifecycle
<1>2. ASSUME NEW p \in Pollers, ResultOfPoll(p) PROVE IInv'
  BY <1>2, PollKeepsIInv DEF ResultOfPoll
<1>3. ASSUME NEW p \in Pollers, NEW s \in Sessions, NEW w \in WaitInputs,
             PollAnswered(p, s, w) \/ PollWaits(p, s, w)
      PROVE  IInv'
  BY <1>3, PollBeginKeepsIInv
<1>4. ASSUME Collect \/ Tick PROVE IInv'
  BY <1>4, CollectKeepsIInv DEF Collect
<1>5. ASSUME Shutdown PROVE IInv'
  BY <1>5, StopKeepsIInv
<1>6. ASSUME UNCHANGED vars PROVE IInv'
  BY <1>6, StutterKeepsIInv
<1> QED
  BY <1>1, <1>2, <1>3, <1>4, <1>5, <1>6 DEF Next, Terminated

\* The invariant holds in every reachable state.
THEOREM Invariance == Spec => []IInv
  BY InitIInv, NextKeepsIInv, PTL DEF Spec

-----------------------------------------------------------------------------
\* Every variable has its type.
THEOREM TypeCorrect == Spec => []TypeOK
  BY Invariance, PTL DEF IInv

\* For any number of sessions and clients the done channel is closed exactly
\* when its session has resolved: nobody sleeps through a verdict.
THEOREM NobodySleepsThrough == Spec => []WakeupsAreExact
  BY Invariance, PTL DEF IInv

\* A verdict is the subprocess's own, whatever the shutdown interrupts.
THEOREM VerdictsAreTrue == Spec => []VerdictIsTheProcesss
  BY Invariance, PTL DEF IInv

\* However old the cutoff of a sweep, a session is not forgotten before its
\* TTL has passed, and never while pending.
THEOREM NeverForgottenEarly == Spec => []ForgottenOnlyAfterTTL
  BY Invariance, PTL DEF IInv

\* What a step tells of a session moves forward from what was told before.
LEMMA ToldForward ==
    ASSUME IInv, [Next]_vars PROVE \A s \in Sessions : Promise!MayFollow(told[s], told'[s])
<1> USE DEF IInv, Promise!MayFollow, Promise!Resolved, Terminal
<1>1. ASSUME UNCHANGED told PROVE \A s \in Sessions : Promise!MayFollow(told[s], told'[s])
  BY <1>1
<1>2. ASSUME NEW s \in Sessions, SpawnFails(s) \/ Reply(s) \/ ReplyBlind(s)
      PROVE  \A r \in Sessions : Promise!MayFollow(told[r], told'[r])
  <2>1. told[s] = "nothing"
    BY <1>2 DEF SpawnFails, Reply, ReplyBlind, ClientsInOrder
  <2>2. \A r \in Sessions \ {s} : told'[r] = told[r]
    BY <1>2 DEF SpawnFails, Reply, ReplyBlind, TypeOK
  <2> QED
    BY <2>1, <2>2
<1>3. ASSUME NEW s \in Sessions, handler[s] = "answered",
             told' = [told EXCEPT ![s] = Snapshot(s)]
      PROVE  \A r \in Sessions : Promise!MayFollow(told[r], told'[r])
  <2>1. \A r \in Sessions \ {s} : told'[r] = told[r]
    BY <1>3 DEF TypeOK
  <2>2. told'[s] = Snapshot(s)
    BY <1>3 DEF TypeOK
  <2>3. /\ told[s] \in {"pending", "unknown", "complete", "failed"}
        /\ status[s] \in {"absent", "pending", "complete", "failed"}
    BY <1>3 DEF ClientsInOrder, TypeOK
  <2>4. Promise!MayFollow(told[s], told'[s])
    BY <2>2, <2>3 DEF Snapshot, ClientsInOrder
  <2> QED
    BY <2>1, <2>4
<1>4. ASSUME NEW p \in Pollers, NEW s \in Sessions, NEW w \in WaitInputs, PollAnswered(p, s, w)
      PROVE  \A r \in Sessions : Promise!MayFollow(told[r], told'[r])
  BY <1>3, <1>4 DEF PollAnswered
<1>5. ASSUME NEW p \in Pollers, PollReturns(p)
      PROVE  \A r \in Sessions : Promise!MayFollow(told[r], told'[r])
  <2>1. target[p] \in Sessions /\ handler[target[p]] = "answered"
    BY <1>5 DEF PollReturns, ClientsInOrder
  <2> QED
    BY <1>3, <1>5, <2>1 DEF PollReturns
<1>6. \/ UNCHANGED told
      \/ \E s \in Sessions : SpawnFails(s) \/ Reply(s) \/ ReplyBlind(s)
      \/ \E p \in Pollers, s \in Sessions, w \in WaitInputs : PollAnswered(p, s, w)
      \/ \E p \in Pollers : PollReturns(p)
  BY DEF Next, vars, clients, Create, Launch, Spawn, Finish, Kill, Handle, Discover, FindURL,
     FindNoURL, SetURL, Lifecycle, WaitSucceeds, WaitFails, MarkComplete, MarkFailed,
     ResultOfPoll, WakeResolved, WakeGivesUp, PollWaits, Collect, GCTick, GCSweep, GCExit, Tick,
     Shutdown, ParentCancel, Join, GiveUpJoin, CloseGCStop, WaitForGC, BeginShutdown,
     FinishShutdown, StopStep, Terminated
<1> QED
  BY <1>1, <1>2, <1>4, <1>5, <1>6

\* Answers about a session never go back, whoever asks and whenever.
THEOREM AnswersNeverGoBack == Spec => AnswersMoveForward
<1>1. ASSUME IInv, [Next]_vars
      PROVE  [\A s \in Sessions : Promise!MayFollow(told[s], told'[s])]_(Promise!vars)
  BY <1>1, ToldForward
<1> QED
  BY <1>1, Invariance, PTL DEF Spec, AnswersMoveForward, Promise!AnswersMoveForward
-----------------------------------------------------------------------------
\* The join of the shutdown: SessionWG counts the goroutines exactly, so a join that sees
\* it at zero has left none of them behind.

\* The goroutines that still owe a SessionWG.Done.
Waiting     == {s \in Sessions : lifecycle[s] \notin {"none", "done"}}
Discovering == {s \in Sessions : discover[s] \notin {"none", "done"}}

CounterIsExact ==
    /\ IsFiniteSet(Waiting) /\ IsFiniteSet(Discovering)
    /\ SessionWG = Cardinality(Waiting) + Cardinality(Discovering)

\* One goroutine that returns takes one unit of either term.
LEMMA OneLess ==
    ASSUME NEW S, IsFiniteSet(S), NEW s \in S
    PROVE  /\ IsFiniteSet(S \ {s})
           /\ Cardinality(S) \in Nat /\ Cardinality(S \ {s}) = Cardinality(S) - 1
  BY FS_RemoveElement, FS_CardinalityType

\* Initially there is no goroutine.
LEMMA InitCounter == ASSUME Init PROVE CounterIsExact
<1>1. Waiting = {} /\ Discovering = {} /\ SessionWG = 0
  BY DEF Init, Waiting, Discovering
<1> QED
  BY <1>1, FS_EmptySet DEF CounterIsExact

\* Launch announces both goroutines before either runs.
LEMMA LaunchCounts ==
    ASSUME IInv, CounterIsExact, NEW s \in Sessions, Launch(s) PROVE CounterIsExact'
<1>1. s \notin Waiting /\ s \notin Discovering
  BY DEF Launch, IInv, ThreadsInOrder, Waiting, Discovering
<1>2. Waiting' = Waiting \cup {s} /\ Discovering' = Discovering \cup {s}
  BY DEF Launch, IInv, TypeOK, Waiting, Discovering
<1>3. /\ IsFiniteSet(Waiting \cup {s}) /\ Cardinality(Waiting \cup {s}) = Cardinality(Waiting) + 1
      /\ IsFiniteSet(Discovering \cup {s})
      /\ Cardinality(Discovering \cup {s}) = Cardinality(Discovering) + 1
      /\ Cardinality(Waiting) \in Nat /\ Cardinality(Discovering) \in Nat
  BY <1>1, FS_AddElement, FS_CardinalityType DEF CounterIsExact
<1>4. SessionWG' = SessionWG + 2
  BY DEF Launch, AddedToWG
<1> QED
  BY <1>2, <1>3, <1>4 DEF CounterIsExact

\* A discovery goroutine that returns says so once.
LEMMA DiscoverCounts ==
    ASSUME IInv, CounterIsExact, NEW s \in Sessions, FindNoURL(s) \/ SetURL(s)
    PROVE  CounterIsExact'
<1>1. /\ s \in Discovering /\ Waiting' = Waiting /\ Discovering' = Discovering \ {s}
      /\ SessionWG' = SessionWG - 1
  BY DEF FindNoURL, SetURL, IInv, TypeOK, Waiting, Discovering
<1>2. /\ IsFiniteSet(Discovering \ {s}) /\ Cardinality(Waiting) \in Nat
      /\ Cardinality(Discovering) \in Nat
      /\ Cardinality(Discovering \ {s}) = Cardinality(Discovering) - 1
  BY <1>1, OneLess, FS_CardinalityType DEF CounterIsExact
<1> QED
  BY <1>1, <1>2 DEF CounterIsExact

\* So does a lifecycle goroutine, whichever verdict it records.
LEMMA LifecycleCounts ==
    ASSUME IInv, CounterIsExact, NEW s \in Sessions, MarkComplete(s) \/ MarkFailed(s)
    PROVE  CounterIsExact'
<1>1. /\ s \in Waiting /\ Waiting' = Waiting \ {s} /\ Discovering' = Discovering
      /\ SessionWG' = SessionWG - 1
  BY DEF MarkComplete, MarkFailed, IInv, TypeOK, Waiting, Discovering
<1>2. /\ IsFiniteSet(Waiting \ {s}) /\ Cardinality(Discovering) \in Nat
      /\ Cardinality(Waiting) \in Nat
      /\ Cardinality(Waiting \ {s}) = Cardinality(Waiting) - 1
  BY <1>1, OneLess, FS_CardinalityType DEF CounterIsExact
<1> QED
  BY <1>1, <1>2 DEF CounterIsExact

\* Every other step leaves the counter and what it counts alone.
LEMMA OthersDoNotCount ==
    ASSUME IInv, CounterIsExact,
           \/ UNCHANGED <<lifecycle, discover, SessionWG>>
           \/ \E s \in Sessions : FindURL(s) \/ WaitSucceeds(s) \/ WaitFails(s)
    PROVE  CounterIsExact'
<1>1. CASE UNCHANGED <<lifecycle, discover, SessionWG>>
  BY <1>1 DEF CounterIsExact, Waiting, Discovering
<1>2. ASSUME NEW s \in Sessions, FindURL(s) \/ WaitSucceeds(s) \/ WaitFails(s)
      PROVE  CounterIsExact'
  <2>1. Waiting' = Waiting /\ Discovering' = Discovering /\ SessionWG' = SessionWG
    BY <1>2 DEF FindURL, WaitSucceeds, WaitFails, IInv, TypeOK, Waiting, Discovering
  <2> QED
    BY <2>1 DEF CounterIsExact
<1> QED
  BY <1>1, <1>2

\* Every step keeps the counter exact.
LEMMA NextCounts == ASSUME IInv, CounterIsExact, [Next]_vars PROVE CounterIsExact'
<1>1. \/ \E s \in Sessions : Launch(s)
      \/ \E s \in Sessions : FindNoURL(s) \/ SetURL(s)
      \/ \E s \in Sessions : MarkComplete(s) \/ MarkFailed(s)
      \/ \E s \in Sessions : FindURL(s) \/ WaitSucceeds(s) \/ WaitFails(s)
      \/ UNCHANGED <<lifecycle, discover, SessionWG>>
  BY DEF Next, vars, threads, Create, Spawn, SpawnFails, Finish, Kill, Handle, Discover,
     Lifecycle, Reply, ReplyBlind, ResultOfPoll, WakeResolved, WakeGivesUp, PollWaits,
     PollAnswered, PollReturns, Collect, GCTick, GCSweep, GCExit, Tick, Shutdown, ParentCancel,
     Join, GiveUpJoin, CloseGCStop, WaitForGC, BeginShutdown, FinishShutdown, StopStep, Terminated
<1> QED
  BY <1>1, LaunchCounts, DiscoverCounts, LifecycleCounts, OthersDoNotCount

\* The counter is exact in every reachable state.
THEOREM CounterInvariance == Spec => []CounterIsExact
<1>1. ASSUME IInv, CounterIsExact, [Next]_vars PROVE CounterIsExact'
  BY <1>1, NextCounts
<1> QED
  BY InitCounter, <1>1, Invariance, PTL DEF Spec

\* A join that succeeds leaves nothing of any launched session behind: its
\* subprocess is reaped, its verdict recorded, both its goroutines are gone.
THEOREM CleanJoin == Spec => CleanJoinLeavesNothing
<1> DEFINE Over == \A s \in Sessions : handler[s] \in {"replying", "answered"} =>
                      /\ proc[s] \in Ended /\ lifecycle[s] = "done" /\ discover[s] = "done"
                      /\ status[s] # "pending"
<1>1. ASSUME IInv, CounterIsExact, SessionWG = 0 PROVE Over
  <2>1. Cardinality(Waiting) = 0 /\ Cardinality(Discovering) = 0
    BY <1>1, FS_CardinalityType DEF CounterIsExact
  <2>2. Waiting = {} /\ Discovering = {}
    BY <1>1, <2>1, FS_EmptySet DEF CounterIsExact
  <2>3. \A s \in Sessions : lifecycle[s] \in {"none", "done"} /\ discover[s] \in {"none", "done"}
    BY <2>2 DEF Waiting, Discovering
  <2> QED
    BY <1>1, <2>3 DEF IInv, ThreadsInOrder, StoreInOrder
<1>2. ASSUME IInv, CounterIsExact, [Next]_vars, stop = "cancelled", stop' = "joined", ~graceExpired'
      PROVE  SessionWG = 0
  BY <1>2 DEF Next, vars, daemon, Create, Launch, Spawn, SpawnFails, Finish, Kill, Handle,
     Discover, FindURL, FindNoURL, SetURL, Lifecycle, WaitSucceeds, WaitFails, MarkComplete,
     MarkFailed, Reply, ReplyBlind, ResultOfPoll, WakeResolved, WakeGivesUp, PollWaits,
     PollAnswered, PollReturns, Collect, GCTick, GCSweep, GCExit, Tick, Shutdown, ParentCancel,
     Join, GiveUpJoin, CloseGCStop, WaitForGC, BeginShutdown, FinishShutdown, StopStep, Terminated
<1>3. ASSUME IInv, CounterIsExact, [Next]_vars
      PROVE  [stop = "cancelled" /\ stop' = "joined" /\ ~graceExpired' => Over]_vars
  BY <1>1, <1>2, <1>3
<1> QED
  BY <1>3, Invariance, CounterInvariance, PTL DEF Spec, CleanJoinLeavesNothing
=============================================================================
