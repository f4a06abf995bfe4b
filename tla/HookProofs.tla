----------------------------- MODULE HookProofs -----------------------------
(* The safety properties of Hook for any number of wrappers and payloads. *)
EXTENDS Hook, TLAPS

\* A request is under way only while its wrapper waits, or has died waiting.
RequestsHaveWaiters ==
    \A h \in Hooks :
       /\ req[h] \in {"arrived", "running"} => pc[h] \in {"waiting", "killed"}
       /\ own[h] = "open" => pc[h] = "direct"

\* While nobody removes the file and no start writes over it there is one token, and a
\* wrapper that sends any sends that one.
OneToken ==
    /\ \A h \in Hooks :
          /\ pc[h] = "connect" => sent[h] # Nothing
          /\ req[h] = "arrived" => sent[h] # Nothing
    /\ rotations = 0 /\ ~replaced =>
          /\ daemon # "off" => token = tokenFile /\ token # Nothing
          /\ \A h \in Hooks : sent[h] # Nothing => sent[h] = tokenFile
          /\ \A h \in Hooks : out[h] # "unauthorized"

IInv == TypeOK /\ RequestsHaveWaiters /\ OneToken

USE HookAssumption

\* The counters have a zero, and a fault leaves its bound.
LEMMA Counters ==
    ASSUME TypeOK
    PROVE  0 \in 0..MaxFaults /\ 0 \in 0..MaxRotations /\ (Fault => faults' \in 0..MaxFaults)
  BY DEF Fault, TypeOK

\* Init establishes the invariant.
LEMMA InitIInv == ASSUME Init PROVE IInv
<1>1. TypeOK
  <2>1. replaced \in BOOLEAN
    BY Zenon DEF Init
  <2> QED
    BY <2>1 DEF Init, TypeOK, Reviews
<1>2. RequestsHaveWaiters /\ OneToken
  BY DEF Init, RequestsHaveWaiters, OneToken
<1> QED
  BY <1>1, <1>2 DEF IInv

\* The wrapper's steps, and its user's.
LEMMA WrapperKeepsIInv ==
    ASSUME IInv, NEW h \in Hooks, Wrapper(h) \/ User(h) \/ Abandon(h)
    PROVE  IInv'
<1> USE DEF IInv
<1>1. CASE ReadToken(h)
  <2>1. TypeOK' /\ RequestsHaveWaiters'
    BY <1>1 DEF ReadToken, Goto, TypeOK, RequestsHaveWaiters, server, work
  <2>2. OneToken'
    BY <1>1 DEF ReadToken, Goto, TypeOK, RequestsHaveWaiters, OneToken, server, work
  <2> QED
    BY <2>1, <2>2
<1>2. CASE Connect(h)
  BY <1>2 DEF Connect, Goto, TypeOK, RequestsHaveWaiters, OneToken, server
<1>3. CASE ConnectFails(h)
  <2>1. faults' \in 0..MaxFaults
    BY <1>3, Counters DEF ConnectFails, TypeOK
  <2> QED
    BY <1>3, <2>1 DEF ConnectFails, Goto, TypeOK, RequestsHaveWaiters, OneToken, server, work
<1>4. CASE FallBack(h)
  BY <1>4 DEF FallBack, Goto, TypeOK, RequestsHaveWaiters, OneToken, server, work, Reviews
<1>5. CASE ReviewEnds(h)
  BY <1>5 DEF ReviewEnds, TypeOK, RequestsHaveWaiters, OneToken, server, caller, Reviews
<1>6. CASE DirectEnds(h)
  BY <1>6 DEF DirectEnds, Goto, TypeOK, RequestsHaveWaiters, OneToken, server, work, Reviews
<1>7. CASE Abandon(h)
  BY <1>7, Counters DEF Abandon, Goto, TypeOK, RequestsHaveWaiters, OneToken, server, work
<1> QED
  BY <1>1, <1>2, <1>3, <1>4, <1>5, <1>6, <1>7 DEF Wrapper, User

\* The handler's steps.
LEMMA HandlerKeepsIInv ==
    ASSUME IInv, NEW h \in Hooks, Handler(h) \/ CallerGone(h)
    PROVE  IInv'
<1> USE DEF IInv, Serving
<1>1. CASE Reject(h)
  <2>1. TypeOK' /\ RequestsHaveWaiters'
    BY <1>1 DEF Reject, Answer, TypeOK, RequestsHaveWaiters, server
  <2>2. rotations # 0 \/ replaced
    BY <1>1 DEF Reject, OneToken
  <2>3. OneToken'
    BY <1>1, <2>2 DEF Reject, Answer, TypeOK, OneToken, server
  <2> QED
    BY <2>1, <2>3
<1>2. CASE Accept(h)
  BY <1>2 DEF Accept, TypeOK, RequestsHaveWaiters, OneToken, server, caller, Reviews
<1>3. CASE AcceptFails(h)
  <2>1. faults' \in 0..MaxFaults
    BY <1>3, Counters DEF AcceptFails, TypeOK
  <2> QED
    BY <1>3, <2>1 DEF AcceptFails, Answer, TypeOK, RequestsHaveWaiters, OneToken, server
<1>4. CASE Respond(h)
  BY <1>4 DEF Respond, Answer, TypeOK, RequestsHaveWaiters, OneToken, server
<1>5. CASE CallerGone(h)
  BY <1>5 DEF CallerGone, TypeOK, RequestsHaveWaiters, OneToken, server, caller, Reviews
<1> QED
  BY <1>1, <1>2, <1>3, <1>4, <1>5 DEF Handler

\* The daemon's lives, and the token file's.
LEMMA LivesKeepIInv ==
    ASSUME IInv, Start \/ OtherStart \/ Stop \/ Exit \/ Crash \/ RemoveToken \/ UNCHANGED vars
    PROVE  IInv'
<1> USE DEF IInv
<1>1. CASE Start \/ OtherStart
  <2>1. LoadOrCreateHookToken /\ UNCHANGED <<caller, work, rotations>>
    BY <1>1 DEF Start, OtherStart
  <2>2. tokenFile' \in Tokens /\ replaced' \in BOOLEAN /\ faults' \in 0..MaxFaults
    BY <2>1, Counters DEF LoadOrCreateHookToken, Made, TypeOK
  <2>3. \/ daemon' = "up" /\ token' = tokenFile'
        \/ UNCHANGED <<daemon, token>>
    BY <1>1 DEF Start, OtherStart
  <2>4. TypeOK' /\ RequestsHaveWaiters'
    BY <2>1, <2>2, <2>3 DEF TypeOK, RequestsHaveWaiters, caller, work
  <2>5. replaced' \/ (~replaced /\ (tokenFile' = tokenFile \/ tokenFile = Nothing))
    BY <2>1 DEF LoadOrCreateHookToken, TypeOK
  <2>6. OneToken'
    BY <2>1, <2>2, <2>3, <2>5 DEF OneToken, TypeOK, caller, work
  <2> QED
    BY <2>4, <2>6
<1>2. CASE Stop
  BY <1>2, Counters DEF Stop, TypeOK, RequestsHaveWaiters, OneToken, caller, work
<1>3. CASE Exit \/ Crash
  <2>1. Gone /\ faults' \in 0..MaxFaults
    BY <1>3, Counters DEF Exit, Crash, TypeOK
  <2>2. review' \in [Hooks -> Reviews]
    BY <2>1 DEF Gone, TypeOK, Reviews
  <2>3. TypeOK'
    BY <2>1, <2>2 DEF Gone, TypeOK
  <2>4. RequestsHaveWaiters'
    BY <2>1 DEF Gone, TypeOK, RequestsHaveWaiters
  <2>5. OneToken'
    BY <2>1 DEF Gone, TypeOK, OneToken
  <2> QED
    BY <2>3, <2>4, <2>5
<1>4. CASE RemoveToken
  <2>1. rotations' \in 0..MaxRotations /\ rotations' # 0
    BY <1>4 DEF RemoveToken, TypeOK
  <2> QED
    BY <1>4, <2>1 DEF RemoveToken, TypeOK, RequestsHaveWaiters, OneToken, caller, work
<1>5. CASE UNCHANGED vars
  BY <1>5 DEF vars, server, caller, work, TypeOK, RequestsHaveWaiters, OneToken
<1> QED
  BY <1>1, <1>2, <1>3, <1>4, <1>5

\* Every state satisfies the invariant.
LEMMA SpecIInv == Spec => []IInv
<1>1. ASSUME IInv, [Next]_vars PROVE IInv'
  BY <1>1, WrapperKeepsIInv, HandlerKeepsIInv, LivesKeepIInv DEF Next
<1> QED
  BY InitIInv, <1>1, PTL DEF Spec

\* Every variable has its type.
THEOREM TypeCorrect == Spec => []TypeOK
<1>1. IInv => TypeOK
  BY DEF IInv
<1> QED
  BY <1>1, SpecIInv, PTL

\* The wrapper asks the user only when no daemon that lives is at its request.
THEOREM NoLiveDaemonAsks == Spec => []NoLiveDaemonAsksToo
<1>1. IInv => NoLiveDaemonAsksToo
  BY DEF IInv, RequestsHaveWaiters, NoLiveDaemonAsksToo
<1> QED
  BY <1>1, SpecIInv, PTL

\* A hook is turned away only after somebody removed the token file or a start wrote over
\* the token in it, whatever other starts, stops and crashes there were.
THEOREM RejectedOnlyThen == Spec => []RejectedOnlyAfterRotation
<1>1. IInv => RejectedOnlyAfterRotation
  BY DEF IInv, OneToken, RejectedOnlyAfterRotation
<1> QED
  BY <1>1, SpecIInv, PTL
-----------------------------------------------------------------------------
(***************************************************************************)
(* Hook implements PlanReview.                                             *)
(***************************************************************************)

\* A call stands where it stood unless its wrapper, its request or its review moves.
LEMMA SameCall ==
    ASSUME NEW h \in Hooks, pc'[h] = pc[h], req'[h] = req[h], review'[h] = review[h]
    PROVE  AskedFor(h)' = AskedFor(h)
  BY DEF AskedFor

\* If one call moves, that is what PlanReview sees.
LEMMA OneCall ==
    ASSUME NEW h \in Hooks, NEW from, NEW to, AskedFor(h) \in from, AskedFor(h)' = to,
           \A i \in Hooks \ {h} : AskedFor(i)' = AskedFor(i)
    PROVE  Promise!Goes(h, from, to)
  BY DEF Promise!Goes

\* If none moves, nothing.
LEMMA NoCall ==
    ASSUME \A h \in Hooks : AskedFor(h)' = AskedFor(h), UNCHANGED out
    PROVE  UNCHANGED Promise!vars
  BY DEF Promise!vars

\* Calls the daemon does not answer pass on to their wrappers together.
LEMMA CallsPassOn ==
    ASSUME NEW lost \in SUBSET Hooks, UNCHANGED out,
           \A h \in lost : AskedFor(h) \in {"nobody", "daemon", "decided"} /\ AskedFor(h)' = "wrapper",
           \A h \in Hooks \ lost : AskedFor(h)' = AskedFor(h)
    PROVE  Promise!PassOn
<1>1. lost \in SUBSET {h \in Hooks : [i \in Hooks |-> AskedFor(i)][h] \in {"nobody", "daemon", "decided"}}
  OBVIOUS
<1>2. [h \in Hooks |-> AskedFor(h)']
         = [h \in Hooks |-> IF h \in lost THEN "wrapper" ELSE [i \in Hooks |-> AskedFor(i)][h]]
  OBVIOUS
<1> QED
  BY <1>1, <1>2 DEF Promise!PassOn

\* A step of one wrapper moves no other call.
LEMMA OthersStay ==
    ASSUME TypeOK, NEW h \in Hooks, NEW there, pc' = [pc EXCEPT ![h] = there], UNCHANGED work
    PROVE  \A i \in Hooks \ {h} : AskedFor(i)' = AskedFor(i)
<1>1. ASSUME NEW i \in Hooks \ {h} PROVE AskedFor(i)' = AskedFor(i)
  <2>1. pc'[i] = pc[i] /\ req'[i] = req[i] /\ review'[i] = review[i]
    BY DEF TypeOK, work
  <2> QED
    BY <2>1, SameCall
<1> QED
  BY <1>1

\* The wrapper's steps, its user's, and Claude Code's.
LEMMA WrapperMaps ==
    ASSUME IInv, NEW h \in Hooks, Wrapper(h) \/ DirectEnds(h) \/ Abandon(h)
    PROVE  Promise!Next \/ UNCHANGED Promise!vars
<1> USE DEF IInv
<1>1. TypeOK /\ pc[h] \in {"start", "connect", "waiting", "fallback", "direct", "done", "killed"} /\ h \in DOMAIN pc
  BY DEF TypeOK
<1>2. CASE ReadToken(h)
  <2>1. \A i \in Hooks \ {h} : AskedFor(i)' = AskedFor(i)
    BY <1>1, <1>2, OthersStay DEF ReadToken, Goto
  <2>2. AskedFor(h) = "nobody" /\ AskedFor(h)' \in {"nobody", "wrapper"} /\ UNCHANGED out
    BY <1>1, <1>2 DEF ReadToken, Goto, AskedFor
  <2>3. CASE AskedFor(h)' = "nobody"
    BY <2>1, <2>2, <2>3, NoCall
  <2>4. CASE AskedFor(h)' = "wrapper"
    <3>1. Promise!PassOn
      BY <2>1, <2>2, <2>4, CallsPassOn
    <3> QED
      BY <3>1 DEF Promise!Next
  <2> QED
    BY <2>2, <2>3, <2>4
<1>3. CASE Connect(h)
  <2>1. ASSUME NEW i \in Hooks PROVE AskedFor(i)' = AskedFor(i)
    BY <1>3 DEF Connect, Goto, TypeOK, AskedFor
  <2> QED
    BY <1>3, <2>1, NoCall DEF Connect
<1>4. CASE ConnectFails(h)
  <2>1. \A i \in Hooks \ {h} : AskedFor(i)' = AskedFor(i)
    BY <1>1, <1>4, OthersStay DEF ConnectFails, Goto
  <2>2. AskedFor(h) = "nobody" /\ AskedFor(h)' = "wrapper" /\ UNCHANGED out
    BY <1>1, <1>4 DEF ConnectFails, Goto, AskedFor
  <2>3. Promise!PassOn
    BY <2>1, <2>2, CallsPassOn
  <2> QED
    BY <2>3 DEF Promise!Next
<1>5. CASE FallBack(h)
  <2>1. \A i \in Hooks \ {h} : AskedFor(i)' = AskedFor(i)
    BY <1>1, <1>5, OthersStay DEF FallBack, Goto
  <2>2. CASE h \in Direct
    <3>1. AskedFor(h)' = AskedFor(h) /\ UNCHANGED out
      BY <1>1, <1>5, <2>2 DEF FallBack, Goto, AskedFor
    <3> QED
      BY <2>1, <3>1, NoCall
  <2>3. CASE h \notin Direct
    <3>1. AskedFor(h) \in {"wrapper"} /\ AskedFor(h)' = "over" /\ out' = [out EXCEPT ![h] = "failed"]
      BY <1>1, <1>5, <2>3 DEF FallBack, Goto, AskedFor
    <3>2. Promise!Answer(h, {"wrapper"}, "failed")
      BY <2>1, <3>1, OneCall DEF Promise!Answer
    <3> QED
      BY <3>2 DEF Promise!Next
  <2> QED
    BY <2>2, <2>3
<1>6. CASE DirectEnds(h)
  <2>1. \A i \in Hooks \ {h} : AskedFor(i)' = AskedFor(i)
    BY <1>1, <1>6, OthersStay DEF DirectEnds, Goto
  <2>2. /\ AskedFor(h) = "wrapper" /\ AskedFor(h)' = "over"
        /\ out' = [out EXCEPT ![h] = "review"] \/ out' = [out EXCEPT ![h] = "failed"]
    BY <1>1, <1>6 DEF DirectEnds, Goto, AskedFor
  <2>3. \/ Promise!Answer(h, {"decided", "wrapper"}, "review")
        \/ Promise!Answer(h, {"wrapper"}, "failed")
    BY <2>1, <2>2, OneCall DEF Promise!Answer
  <2> QED
    BY <2>3 DEF Promise!Next
<1>7. CASE Abandon(h)
  <2>1. \A i \in Hooks \ {h} : AskedFor(i)' = AskedFor(i)
    BY <1>1, <1>7, OthersStay DEF Abandon, Goto
  <2>2. AskedFor(h) \in {"nobody", "daemon", "decided"} /\ AskedFor(h)' = "over" /\ UNCHANGED out
    BY <1>1, <1>7 DEF Abandon, Goto, AskedFor
  <2>3. Promise!GiveUp(h)
    BY <2>1, <2>2, OneCall DEF Promise!GiveUp
  <2> QED
    BY <2>3 DEF Promise!Next
<1> QED
  BY <1>2, <1>3, <1>4, <1>5, <1>6, <1>7 DEF Wrapper

\* What the handler writes reaches its wrapper if that still waits, and is then the
\* call's answer; else it is written to nobody.
LEMMA AnswerMaps ==
    ASSUME IInv, NEW h \in Hooks, NEW body, NEW from,
           pc[h] = "waiting" => AskedFor(h) \in from,
           req[h] \in {"arrived", "running"}, req' = [req EXCEPT ![h] = "over"],
           UNCHANGED review, Answer(h, body)
    PROVE  Promise!Answer(h, from, body) \/ UNCHANGED Promise!vars
<1> USE DEF IInv
<1>1. pc[h] \in {"waiting", "killed"} /\ h \in DOMAIN pc
  BY DEF TypeOK, RequestsHaveWaiters
<1>2. \A i \in Hooks \ {h} : AskedFor(i)' = AskedFor(i)
  <2>1. ASSUME NEW i \in Hooks \ {h} PROVE AskedFor(i)' = AskedFor(i)
    <3>1. pc'[i] = pc[i] /\ req'[i] = req[i] /\ review'[i] = review[i]
      BY DEF TypeOK, Answer
    <3> QED
      BY <3>1, SameCall
  <2> QED
    BY <2>1
<1>3. CASE pc[h] = "waiting"
  <2>1. AskedFor(h)' = "over" /\ out' = [out EXCEPT ![h] = body]
    BY <1>1, <1>3 DEF Answer, AskedFor
  <2>2. Promise!Answer(h, from, body)
    BY <1>2, <1>3, <2>1, OneCall DEF Promise!Answer
  <2> QED
    BY <2>2
<1>4. CASE pc[h] = "killed"
  <2>1. AskedFor(h)' = AskedFor(h) /\ UNCHANGED out
    BY <1>4 DEF Answer, AskedFor
  <2> QED
    BY <1>2, <2>1, NoCall
<1> QED
  BY <1>1, <1>3, <1>4

\* The handler's steps, and those of the plannotator it started.
LEMMA HandlerMaps ==
    ASSUME IInv, NEW h \in Hooks, Handler(h) \/ CallerGone(h) \/ ReviewEnds(h)
    PROVE  Promise!Next \/ UNCHANGED Promise!vars
<1> USE DEF IInv
<1>0. TypeOK /\ h \in DOMAIN req /\ h \in DOMAIN review
  BY DEF TypeOK
<1>1. ASSUME \A i \in Hooks \ {h} : pc'[i] = pc[i] /\ req'[i] = req[i] /\ review'[i] = review[i]
      PROVE  \A i \in Hooks \ {h} : AskedFor(i)' = AskedFor(i)
  <2>1. ASSUME NEW i \in Hooks \ {h} PROVE AskedFor(i)' = AskedFor(i)
    BY <1>1, SameCall
  <2> QED
    BY <2>1
<1>2. CASE Reject(h)
  <2>1. AskedFor(h) \in {"nobody"} \/ pc[h] # "waiting"
    BY <1>2 DEF Reject, AskedFor
  <2>2. /\ req[h] \in {"arrived", "running"} /\ req' = [req EXCEPT ![h] = "over"]
        /\ UNCHANGED review /\ Answer(h, "unauthorized")
    BY <1>2 DEF Reject
  <2>3. Promise!Answer(h, {"nobody"}, "unauthorized") \/ UNCHANGED Promise!vars
    BY <2>1, <2>2, AnswerMaps
  <2> QED
    BY <2>3 DEF Promise!Next
<1>3. CASE Accept(h)
  <2>1. pc[h] \in {"waiting", "killed"} /\ UNCHANGED <<pc, out>>
    BY <1>3 DEF Accept, RequestsHaveWaiters, caller
  <2>2. \A i \in Hooks \ {h} : AskedFor(i)' = AskedFor(i)
    BY <1>0, <1>1, <1>3, <2>1 DEF Accept
  <2>3. CASE pc[h] = "waiting"
    <3>1. AskedFor(h) \in {"nobody"} /\ AskedFor(h)' = "daemon"
      BY <1>0, <1>3, <2>1, <2>3 DEF Accept, AskedFor
    <3>2. Promise!AskDaemon(h)
      BY <2>1, <2>2, <3>1, OneCall DEF Promise!AskDaemon
    <3> QED
      BY <3>2 DEF Promise!Next
  <2>4. CASE pc[h] = "killed"
    <3>1. AskedFor(h)' = AskedFor(h)
      BY <2>1, <2>4 DEF AskedFor
    <3> QED
      BY <2>1, <2>2, <3>1, NoCall
  <2> QED
    BY <2>1, <2>3, <2>4
<1>4. CASE AcceptFails(h)
  <2>1. AskedFor(h) \in {"nobody", "daemon"} \/ pc[h] # "waiting"
    BY <1>4 DEF AcceptFails, AskedFor
  <2>2. /\ req[h] \in {"arrived", "running"} /\ req' = [req EXCEPT ![h] = "over"]
        /\ UNCHANGED review /\ Answer(h, "error")
    BY <1>4 DEF AcceptFails
  <2>3. Promise!Answer(h, {"nobody", "daemon"}, "error") \/ UNCHANGED Promise!vars
    BY <2>1, <2>2, AnswerMaps
  <2> QED
    BY <2>3 DEF Promise!Next
<1>5. CASE Respond(h)
  <2>0. /\ req[h] \in {"arrived", "running"} /\ req' = [req EXCEPT ![h] = "over"]
        /\ UNCHANGED review
    BY <1>5 DEF Respond
  <2>1. CASE review[h] = "done"
    <3>1. AskedFor(h) \in {"decided", "wrapper"} \/ pc[h] # "waiting"
      BY <1>5, <2>1 DEF Respond, AskedFor
    <3>2. Answer(h, "review")
      BY <1>5, <2>1 DEF Respond
    <3>3. Promise!Answer(h, {"decided", "wrapper"}, "review") \/ UNCHANGED Promise!vars
      BY <2>0, <3>1, <3>2, AnswerMaps
    <3> QED
      BY <3>3 DEF Promise!Next
  <2>2. CASE review[h] # "done"
    <3>1. AskedFor(h) \in {"nobody", "daemon"} \/ pc[h] # "waiting"
      BY <1>5, <2>2 DEF Respond, AskedFor
    <3>2. Answer(h, "error")
      BY <1>5, <2>2 DEF Respond
    <3>3. Promise!Answer(h, {"nobody", "daemon"}, "error") \/ UNCHANGED Promise!vars
      BY <2>0, <3>1, <3>2, AnswerMaps
    <3> QED
      BY <3>3 DEF Promise!Next
  <2> QED
    BY <2>1, <2>2
<1>6. CASE CallerGone(h)
  <2>1. pc[h] = "killed" /\ UNCHANGED <<pc, out, req>>
    BY <1>6 DEF CallerGone, caller
  <2>2. \A i \in Hooks \ {h} : AskedFor(i)' = AskedFor(i)
    BY <1>0, <1>1, <1>6, <2>1 DEF CallerGone
  <2>3. AskedFor(h)' = AskedFor(h)
    BY <2>1 DEF AskedFor
  <2> QED
    BY <2>1, <2>2, <2>3, NoCall
<1>7. CASE ReviewEnds(h)
  <2>1. UNCHANGED <<pc, out, req>> /\ review[h] = "open"
    BY <1>7 DEF ReviewEnds, caller
  <2>2. PICK how \in {"done", "failed"} : review' = [review EXCEPT ![h] = how]
    BY <1>7 DEF ReviewEnds
  <2>3. \A i \in Hooks \ {h} : AskedFor(i)' = AskedFor(i)
    BY <1>0, <1>1, <2>1, <2>2
  <2>4. CASE pc[h] = "waiting" /\ req[h] # "arrived" /\ how = "done"
    <3>1. AskedFor(h) \in {"daemon"} /\ AskedFor(h)' = "decided"
      BY <1>0, <2>1, <2>2, <2>4 DEF AskedFor
    <3>2. Promise!Decide(h)
      BY <2>1, <2>3, <3>1, OneCall DEF Promise!Decide
    <3> QED
      BY <3>2 DEF Promise!Next
  <2>5. CASE ~(pc[h] = "waiting" /\ req[h] # "arrived" /\ how = "done")
    <3>1. AskedFor(h)' = AskedFor(h)
      BY <1>0, <2>1, <2>2, <2>5 DEF AskedFor
    <3> QED
      BY <2>1, <2>3, <3>1, NoCall
  <2> QED
    BY <2>4, <2>5
<1> QED
  BY <1>2, <1>3, <1>4, <1>5, <1>6, <1>7 DEF Handler

\* The end of the daemon passes the calls that wait for it on; no other turn of its life
\* moves any.
LEMMA LivesMap ==
    ASSUME IInv, Start \/ OtherStart \/ Stop \/ Exit \/ Crash \/ RemoveToken \/ UNCHANGED vars
    PROVE  Promise!Next \/ UNCHANGED Promise!vars
<1>1. CASE Exit \/ Crash
  <2> DEFINE lost == {h \in Hooks : pc[h] = "waiting"}
  <2>1. Gone
    BY <1>1 DEF Exit, Crash
  <2>2. ASSUME NEW h \in lost
        PROVE  AskedFor(h) \in {"nobody", "daemon", "decided"} /\ AskedFor(h)' = "wrapper"
    BY <2>1 DEF Gone, AskedFor
  <2>3. ASSUME NEW h \in Hooks \ lost PROVE AskedFor(h)' = AskedFor(h)
    BY <2>1 DEF Gone, AskedFor
  <2>4. lost \in SUBSET Hooks /\ UNCHANGED out
    BY <2>1 DEF Gone
  <2> HIDE DEF lost
  <2>5. Promise!PassOn
    BY <2>2, <2>3, <2>4, CallsPassOn
  <2> QED
    BY <2>5 DEF Promise!Next
<1>2. CASE Start \/ OtherStart \/ Stop \/ RemoveToken \/ UNCHANGED vars
  <2>1. UNCHANGED <<pc, req, review, out>>
    BY <1>2 DEF Start, OtherStart, Stop, RemoveToken, vars, caller, work
  <2>2. ASSUME NEW h \in Hooks PROVE AskedFor(h)' = AskedFor(h)
    BY <2>1 DEF AskedFor
  <2> QED
    BY <2>1, <2>2, NoCall
<1> QED
  BY <1>1, <1>2

\* The wrapper, the handler and the processes behind them implement PlanReview, for any
\* number of calls and whatever happens to daemons and tokens meanwhile.
THEOREM Implements == Spec => ImplementsPlanReview
<1>1. Init => Promise!Init
  BY DEF Init, Promise!Init, AskedFor
<1>2. ASSUME IInv, [Next]_vars PROVE [Promise!Next]_(Promise!vars)
  BY <1>2, WrapperMaps, HandlerMaps, LivesMap DEF Next, User
<1> QED
  BY <1>1, <1>2, SpecIInv, PTL DEF Spec, ImplementsPlanReview, Promise!Spec
=============================================================================
