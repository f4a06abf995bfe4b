------------------------- MODULE SessionsRefinement -------------------------
(***************************************************************************)
(* Sessions implements SessionLifecycle, for any sessions and clients: the *)
(* step that does what a client can see of an operation maps to the        *)
(* abstract operation, and every other step leaves the register alone.     *)
(***************************************************************************)
EXTENDS SessionsProofs

\* The store before anybody asked for a session is the empty register.
LEMMA InitMaps == ASSUME Init PROVE Promise!Init
  BY DEF Init, Promise!Init, StateOf

\* A step that changes neither an entry, nor the part of a handler before
\* Create, nor an answer is invisible.
LEMMA Stutters ==
    ASSUME UNCHANGED <<handler, status, told>> PROVE UNCHANGED Promise!vars
  BY DEF Promise!vars, StateOf

\* Nor does a handler that has no session yet, or keeps it, move the register.
LEMMA HandlerStutters ==
    ASSUME IInv, NEW s \in Sessions, Spawn(s) \/ Launch(s) PROVE UNCHANGED Promise!vars
<1>1. /\ UNCHANGED <<status, told>>
      /\ \A r \in Sessions : handler'[r] \in {"idle", "refused", "spawned"}
                             <=> handler[r] \in {"idle", "refused", "spawned"}
  BY DEF Spawn, Launch, IInv, TypeOK, store, clients
<1>2. \A r \in Sessions : StateOf(r)' = StateOf(r)
  BY <1>1 DEF StateOf
<1> QED
  BY <1>1, <1>2 DEF Promise!vars

\* A refused call is a refusal.
LEMMA SpawnFailsRefuses ==
    ASSUME IInv, NEW s \in Sessions, SpawnFails(s) PROVE Promise!Refuse(s)
<1>1. handler[s] = "idle" /\ told[s] = "nothing" /\ status[s] = "absent"
  BY DEF SpawnFails, IInv, ClientsInOrder, StoreInOrder
<1>2. \A r \in Sessions : StateOf(r)' = StateOf(r)
  BY <1>1 DEF SpawnFails, store, StateOf, IInv, TypeOK
<1>3. StateOf(s) = "none"
  BY <1>1 DEF StateOf
<1> QED
  BY <1>1, <1>2, <1>3 DEF Promise!Refuse, SpawnFails

\* store.Create begins the session.
LEMMA CreateBegins ==
    ASSUME IInv, NEW s \in Sessions, Create(s) PROVE Promise!Begin(s)
<1>1. handler[s] = "spawned" /\ told[s] = "nothing" /\ status[s] = "absent"
  BY DEF Create, IInv, ClientsInOrder, StoreInOrder
<1>2. StateOf(s) = "none" /\ StateOf(s)' = "pending"
  BY <1>1 DEF Create, StateOf, IInv, TypeOK
<1>3. \A r \in Sessions \ {s} : StateOf(r)' = StateOf(r)
  BY DEF Create, StateOf, IInv, TypeOK
<1>4. [r \in Sessions |-> StateOf(r)]' =
         [[r \in Sessions |-> StateOf(r)] EXCEPT ![s] = "pending"]
  BY <1>2, <1>3
<1> QED
  BY <1>1, <1>2, <1>4 DEF Promise!Begin, Create, clients

\* Recording a verdict resolves the session: it is pending when the lifecycle
\* goroutine gets there.
LEMMA MarkResolves ==
    ASSUME IInv, NEW s \in Sessions, MarkComplete(s) \/ MarkFailed(s)
    PROVE  Promise!Resolve(s)
<1>1. status[s] = "pending"
  BY DEF MarkComplete, MarkFailed, IInv, StoreInOrder, ThreadsInOrder, TypeOK
<1>2. PICK v \in {"complete", "failed"} : Resolves(s, v)
  BY DEF MarkComplete, MarkFailed
<1>3. status' = [status EXCEPT ![s] = v] /\ UNCHANGED <<handler, told>>
  BY <1>1, <1>2 DEF Resolves, MarkComplete, MarkFailed, clients
<1>4. StateOf(s) = "pending" /\ StateOf(s)' = v
  BY <1>1, <1>3 DEF StateOf, IInv, TypeOK
<1>5. \A r \in Sessions \ {s} : StateOf(r)' = StateOf(r)
  BY <1>3 DEF StateOf, IInv, TypeOK
<1>6. [r \in Sessions |-> StateOf(r)]' = [[r \in Sessions |-> StateOf(r)] EXCEPT ![s] = v]
  BY <1>4, <1>5
<1> QED
  BY <1>3, <1>4, <1>6 DEF Promise!Resolve, Promise!Resolved

\* A sweep forgets resolved sessions only.
LEMMA SweepExpires == ASSUME IInv, GCSweep PROVE Promise!Expire
<1> DEFINE st == [s \in Sessions |-> StateOf(s)]
<1>1. \A s \in Expired : /\ status[s] \in Terminal /\ status'[s] = "absent"
                         /\ handler[s] \notin {"idle", "refused", "spawned"}
  BY DEF GCSweep, Expired, IInv, StoreInOrder, Terminal
<1>2. \A s \in Expired : st[s] \in Promise!Resolved /\ StateOf(s)' = "gone"
  BY <1>1 DEF StateOf, Promise!Resolved, GCSweep, threads, Terminal, Expired
<1>3. \A s \in Sessions \ Expired : StateOf(s)' = StateOf(s)
  BY DEF GCSweep, StateOf, threads
<1>4. Expired \in SUBSET {s \in Sessions : st[s] \in Promise!Resolved}
  BY <1>2 DEF Expired
<1>5. [s \in Sessions |-> StateOf(s)]' = [s \in Sessions |-> IF s \in Expired THEN "gone" ELSE st[s]]
  BY <1>2, <1>3
<1>6. UNCHANGED told
  BY DEF GCSweep, clients
<1> QED
  BY <1>4, <1>5, <1>6 DEF Promise!Expire

\* The envelope of the starting call is the first reply.
LEMMA ReplyIsFirst ==
    ASSUME IInv, NEW s \in Sessions, Reply(s) \/ ReplyBlind(s) PROVE Promise!FirstReply(s)
<1>1. handler[s] = "replying" /\ told[s] = "nothing"
  BY DEF Reply, ReplyBlind, IInv, ClientsInOrder
<1>2. \A r \in Sessions : StateOf(r)' = StateOf(r)
  BY <1>1 DEF Reply, ReplyBlind, store, StateOf, IInv, TypeOK
<1>3. StateOf(s) \in {"pending", "gone"} \cup Promise!Resolved
  BY <1>1 DEF StateOf, IInv, TypeOK, Terminal, Promise!Resolved
<1>4. \/ told' = [told EXCEPT ![s] = "pending"]
      \/ status[s] # "absent" /\ told' = [told EXCEPT ![s] = status[s]]
  BY DEF Reply, ReplyBlind
<1>5. \E a \in {"pending"} \cup ({StateOf(s)} \ {"gone"}) : told' = [told EXCEPT ![s] = a]
  BY <1>4 DEF StateOf, IInv, TypeOK, Terminal
<1> QED
  BY <1>1, <1>2, <1>3, <1>5 DEF Promise!FirstReply

\* What a look at the store tells is where the session stands.
LEMMA SnapshotTells ==
    ASSUME IInv, NEW s \in Sessions, handler[s] = "answered",
           told' = [told EXCEPT ![s] = Snapshot(s)], UNCHANGED <<handler, status>>
    PROVE  Promise!Tell(s)
<1>1. told[s] \notin {"nothing", "refused"}
  BY DEF IInv, ClientsInOrder
<1>2. Snapshot(s) = IF StateOf(s) = "gone" THEN "unknown" ELSE StateOf(s)
  BY DEF Snapshot, StateOf, IInv, TypeOK, Terminal
<1>3. \A r \in Sessions : StateOf(r)' = StateOf(r)
  BY DEF StateOf
<1> QED
  BY <1>1, <1>2, <1>3 DEF Promise!Tell

\* Both looks of a long poll do.
LEMMA PollTells ==
    ASSUME IInv, NEW p \in Pollers,
           PollReturns(p) \/ \E s \in Sessions, w \in WaitInputs : PollAnswered(p, s, w)
    PROVE  \E s \in Sessions : Promise!Tell(s)
<1>1. CASE PollReturns(p)
  <2>1. target[p] \in Sessions /\ handler[target[p]] = "answered"
    BY <1>1 DEF PollReturns, IInv, ClientsInOrder
  <2> QED
    BY <1>1, <2>1, SnapshotTells DEF PollReturns, threads, store
<1>2. CASE \E s \in Sessions, w \in WaitInputs : PollAnswered(p, s, w)
  BY <1>2, SnapshotTells DEF PollAnswered, threads, store
<1> QED
  BY <1>1, <1>2

\* Every step is an abstract step or invisible.
LEMMA NextMaps == ASSUME IInv, [Next]_vars PROVE [Promise!Next]_(Promise!vars)
<1>1. \/ \E s \in Sessions : Spawn(s) \/ Launch(s)
      \/ \E s \in Sessions : SpawnFails(s)
      \/ \E s \in Sessions : Create(s)
      \/ \E s \in Sessions : MarkComplete(s) \/ MarkFailed(s)
      \/ GCSweep
      \/ \E s \in Sessions : Reply(s) \/ ReplyBlind(s)
      \/ \E p \in Pollers : \/ PollReturns(p)
                            \/ \E s \in Sessions, w \in WaitInputs : PollAnswered(p, s, w)
      \/ UNCHANGED <<handler, status, told>>
  BY DEF Next, vars, threads, store, clients, Finish, Kill, Handle, Discover, FindURL, FindNoURL,
     SetURL, Lifecycle, WaitSucceeds, WaitFails, ResultOfPoll, WakeResolved, WakeGivesUp,
     PollWaits, Collect, GCTick, GCExit, Tick, Shutdown, ParentCancel, Join, GiveUpJoin,
     CloseGCStop, WaitForGC, BeginShutdown, FinishShutdown, StopStep, Terminated
<1> QED
  BY <1>1, Stutters, HandlerStutters, SpawnFailsRefuses, CreateBegins, MarkResolves,
     SweepExpires, ReplyIsFirst, PollTells DEF Promise!Next

\* The store with its goroutines, channels, collector and shutdown implements
\* the register: an answer is true when it is given.
THEOREM Implements == Spec => ImplementsPromise
<1>1. ASSUME IInv, [Next]_vars PROVE [Promise!Next]_(Promise!vars)
  BY <1>1, NextMaps
<1> QED
  BY <1>1, InitMaps, Invariance, PTL DEF Spec, ImplementsPromise, Promise!Spec
=============================================================================
