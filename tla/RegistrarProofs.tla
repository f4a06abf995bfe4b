-------------------------- MODULE RegistrarProofs ---------------------------
(* The safety properties of Registrar for any number of tools. *)
EXTENDS Registrar, TLAPS

\* The worst outcome of a round so far, against what its POSTs have met.
WorstIsJust ==
    /\ worst = outcomeSuccess <=> seen \subseteq {outcomeSuccess}
    /\ worst = outcomeUnauthorized <=> outcomeUnauthorized \in seen
    /\ worst = outcomeTransportFailed <=>
          outcomeTransportFailed \in seen /\ outcomeUnauthorized \notin seen

\* Until the fatal error the counter counts failures, the timer is set exactly
\* while one is outstanding, and nothing has been sent.
BeforeFatal ==
    ~fatalOnce =>
        /\ consecutiveTransport = failures /\ failures \in {0, 1}
        /\ fatalCh = "empty" /\ runResult \in {"running", "nil"}
        /\ pc # "exited" => (fastRetryTimer # "none" <=> failures = 1)
        /\ isFastRetry => failures = 1

\* The loop's own bounds, and the threads' order: deleting starts when the loop
\* has exited.
LoopThenDeletes ==
    /\ pc = "round" => consecutiveTransport < MaxFailures
    /\ deleted # {} => stop \in {"deleting", "stopped"}
    /\ stop \in {"deleting", "stopped"} => pc = "exited"

IInv ==
    /\ TypeOK /\ WorstIsJust /\ BeforeFatal /\ LoopThenDeletes
    /\ FatalNeedsEvidence /\ UnregisteredStaysUnregistered

\* The outcome of a POST is one of the four.
LEMMA PostOutcomeType == ASSUME TypeOK, NEW b PROVE PostOutcome(b) \in Outcomes
  BY DEF PostOutcome, AnswerOutcome, TypeOK, ArgusStates, Outcomes, outcomeSuccess, outcomeHTTPWarn, outcomeTransportFailed,
         outcomeUnauthorized

\* A POST registers its tool or leaves argus as it is, and may be late.
LEMMA PostEffectType ==
    ASSUME TypeOK, NEW t \in Tools, NEW b, PostEffect(t, b)
    PROVE  /\ registered' \in SUBSET Tools /\ argus' \in ArgusStates
           /\ late' \in [Tools -> {"no", "inFlight", "landed"}]
  BY DEF PostEffect, TypeOK

\* Init establishes the invariant.
LEMMA InitIInv == ASSUME Init PROVE IInv
<1>1. TypeOK
  <2>1. 1 \in 1..(NumTools + 1) /\ 0 \in 0..RoundTimeouts /\ 0 \in 0..MaxFailures
    BY RegistrarAssumption
  <2>2. outcomeSuccess \in Outcomes
    BY DEF Outcomes, outcomeSuccess, outcomeUnauthorized
  <2>3. late \in [Tools -> {"no", "inFlight", "landed"}]
    BY <2>2 DEF Init
  <2> QED
    BY <2>1, <2>2, <2>3 DEF Init, TypeOK
<1>2. WorstIsJust
  BY DEF Init, WorstIsJust, outcomeSuccess, outcomeTransportFailed, outcomeUnauthorized
<1>3. BeforeFatal
  BY DEF Init, BeforeFatal
<1>4. LoopThenDeletes /\ FatalNeedsEvidence /\ UnregisteredStaysUnregistered
  BY DEF Init, LoopThenDeletes, FatalNeedsEvidence, UnregisteredStaysUnregistered
<1> QED
  BY <1>1, <1>2, <1>3, <1>4 DEF IInv

\* A step of Start keeps it.
LEMMA StartKeepsIInv ==
    ASSUME IInv, StartPost \/ StartInterrupted \/ StartDone PROVE IInv'
<1> USE RegistrarAssumption
<1> USE DEF IInv, link, stopper, history, world
<1>1. CASE StartPost
  <2>1. next \in Tools
    BY <1>1 DEF StartPost, TypeOK, Tools
  <2>2. TypeOK'
    BY <1>1, <2>1, PostEffectType DEF StartPost, TypeOK
  <2>3. BeforeFatal' /\ LoopThenDeletes' /\ WorstIsJust' /\ FatalNeedsEvidence'
    BY <1>1 DEF StartPost, BeforeFatal, LoopThenDeletes, WorstIsJust, FatalNeedsEvidence
  <2>4. UnregisteredStaysUnregistered'
    BY <1>1 DEF StartPost, LoopThenDeletes, UnregisteredStaysUnregistered
  <2> QED
    BY <2>2, <2>3, <2>4
<1>2. CASE StartInterrupted
  <2>1. TypeOK'
    BY <1>2 DEF StartInterrupted, TypeOK
  <2>2. BeforeFatal' /\ LoopThenDeletes' /\ WorstIsJust' /\ FatalNeedsEvidence'
    BY <1>2 DEF StartInterrupted, BeforeFatal, LoopThenDeletes, WorstIsJust, FatalNeedsEvidence
  <2>3. UnregisteredStaysUnregistered'
    BY <1>2 DEF StartInterrupted, LoopThenDeletes, UnregisteredStaysUnregistered
  <2> QED
    BY <2>1, <2>2, <2>3
<1>3. CASE StartDone
  BY <1>3 DEF StartDone, TypeOK, BeforeFatal, LoopThenDeletes, WorstIsJust, FatalNeedsEvidence,
              UnregisteredStaysUnregistered
<1> QED
  BY <1>1, <1>2, <1>3

\* The select of the loop, whichever branch it takes, keeps it.
LEMMA SelectKeepsIInv ==
    ASSUME IInv, HeartbeatTick \/ FastRetryFires \/ LoopExits PROVE IInv'
<1> USE RegistrarAssumption
<1> USE DEF IInv, link, stopper, history, world, BeginRound
<1>1. CASE HeartbeatTick
  <2>1. TypeOK'
    <3>1. budget' \in 0..RoundTimeouts
      BY <1>1 DEF HeartbeatTick
    <3> QED
      BY <1>1, <3>1 DEF HeartbeatTick, TypeOK
  <2>2. BeforeFatal' /\ LoopThenDeletes' /\ WorstIsJust'
    BY <1>1 DEF HeartbeatTick, BeforeFatal, LoopThenDeletes, WorstIsJust
  <2>3. FatalNeedsEvidence' /\ UnregisteredStaysUnregistered'
    BY <1>1 DEF HeartbeatTick, FatalNeedsEvidence, UnregisteredStaysUnregistered
  <2> QED
    BY <2>1, <2>2, <2>3
<1>2. CASE FastRetryFires
  BY <1>2 DEF FastRetryFires, TypeOK, BeforeFatal, LoopThenDeletes, WorstIsJust,
              FatalNeedsEvidence, UnregisteredStaysUnregistered
<1>3. CASE LoopExits
  BY <1>3 DEF LoopExits, TypeOK, BeforeFatal, LoopThenDeletes, WorstIsJust,
              FatalNeedsEvidence, UnregisteredStaysUnregistered
<1> QED
  BY <1>1, <1>2, <1>3

\* A POST of a round keeps it.
LEMMA PostKeepsIInv == ASSUME IInv, RoundPost PROVE IInv'
<1> USE DEF IInv, link, stopper
<1>1. next \in Tools /\ PostOutcome(budget) \in Outcomes /\ PostEffect(next, budget)
  BY PostOutcomeType DEF RoundPost, TypeOK, Tools
<1>2. TypeOK'
  <2>1. /\ registered' \in SUBSET Tools /\ argus' \in ArgusStates
        /\ late' \in [Tools -> {"no", "inFlight", "landed"}]
    BY <1>1, PostEffectType
  <2>2. next' \in 1..(NumTools + 1) /\ budget' \in 0..RoundTimeouts
    BY RegistrarAssumption DEF RoundPost, TypeOK
  <2>3. worst' \in Outcomes /\ seen' \in SUBSET Outcomes
    BY <1>1 DEF RoundPost, TypeOK, Worse
  <2> QED
    BY <2>1, <2>2, <2>3 DEF RoundPost, TypeOK
<1>3. WorstIsJust'
  <2> DEFINE o == PostOutcome(budget)
  <2>1. o \in 0..3 /\ worst \in 0..3 /\ seen' = seen \cup {o}
    BY <1>1 DEF RoundPost, TypeOK, Outcomes, outcomeSuccess, outcomeUnauthorized
  <2>2. worst' = IF o > worst THEN o ELSE worst
    BY DEF RoundPost, Worse
  <2> HIDE DEF o
  <2>3. worst' = 0 <=> seen' \subseteq {0}
    BY <2>1, <2>2 DEF WorstIsJust, outcomeSuccess
  <2>4. worst' = 3 <=> 3 \in seen'
    BY <2>1, <2>2 DEF WorstIsJust, outcomeUnauthorized
  <2>5. worst' = 2 <=> 2 \in seen' /\ 3 \notin seen'
    BY <2>1, <2>2 DEF WorstIsJust, outcomeUnauthorized, outcomeTransportFailed
  <2> QED
    BY <2>3, <2>4, <2>5
       DEF WorstIsJust, outcomeSuccess, outcomeUnauthorized, outcomeTransportFailed
<1>4. BeforeFatal' /\ LoopThenDeletes' /\ FatalNeedsEvidence'
  BY DEF RoundPost, BeforeFatal, LoopThenDeletes, FatalNeedsEvidence
<1>5. UnregisteredStaysUnregistered'
  BY DEF RoundPost, LoopThenDeletes, UnregisteredStaysUnregistered
<1> QED
  BY <1>2, <1>3, <1>4, <1>5

\* What a round's outcome does to the link state keeps it; this is where the
\* evidence for a fatal error is gathered.
LEMMA HandleKeepsIInv == ASSUME IInv, HandleRound PROVE IInv'
<1> USE RegistrarAssumption
<1> USE DEF IInv, link, stopper, world
<1>1. /\ fatalOnce /\ fatalOnce' => UNCHANGED <<failures, sawUnauthorized>>
      /\ pc = "round" /\ pc' = "select" /\ ~isFastRetry' /\ worst' = outcomeSuccess /\ seen' = {}
      /\ UNCHANGED <<stop, runResult, nextDelete, deleted, argus, registered, late>>
  BY DEF HandleRound, Record
<1>2. /\ consecutiveTransport' \in 0..MaxFailures
      /\ fastRetryTimer' \in {"none", "armed", "drained"}
      /\ fatalCh' \in {"empty", "transport", "unauthorized"} /\ fatalOnce' \in BOOLEAN
      /\ fatalOnce => fatalOnce'
  <2> USE DEF TypeOK
  <2>1. CASE OnSuccess
    BY <2>1 DEF OnSuccess
  <2>2. CASE OnUnauthorized
    BY <2>2 DEF OnUnauthorized, EmitFatal
  <2>3. CASE OnHTTPWarn
    BY <2>3 DEF OnHTTPWarn
  <2>4. CASE OnFirstTransportFailure
    BY <2>4 DEF OnFirstTransportFailure
  <2>5. CASE OnSecondTransportFailure
    <3>1. consecutiveTransport' \in 0..MaxFailures
      BY <1>1, <2>5 DEF OnSecondTransportFailure, LoopThenDeletes
    <3> QED
      BY <3>1, <2>5 DEF OnSecondTransportFailure, EmitFatal
  <2> QED
    BY <2>1, <2>2, <2>3, <2>4, <2>5 DEF HandleRound
<1>3. failures' \in Nat /\ sawUnauthorized' \in BOOLEAN
  <2>1. failures' \in Nat
    BY DEF HandleRound, Record, TypeOK
  <2>2. sawUnauthorized' \in BOOLEAN
    BY DEF HandleRound, Record, TypeOK
  <2> QED
    BY <2>1, <2>2
<1>4. TypeOK'
  <2>1. next' \in 1..(NumTools + 1) /\ budget' \in 0..RoundTimeouts
    BY DEF HandleRound
  <2>2. worst' \in Outcomes
    BY <1>1 DEF Outcomes, outcomeSuccess, outcomeUnauthorized
  <2>3. UNCHANGED <<stop, runResult, nextDelete, deleted, argus, registered, late>>
    BY <1>1
  <2>4. pc' = "select" /\ isFastRetry' = FALSE /\ seen' = {}
    BY DEF HandleRound
  <2> QED
    BY <1>2, <1>3, <2>1, <2>2, <2>3, <2>4 DEF TypeOK
<1>5. WorstIsJust' /\ LoopThenDeletes' /\ UnregisteredStaysUnregistered'
  BY <1>1 DEF WorstIsJust, LoopThenDeletes, UnregisteredStaysUnregistered, outcomeSuccess,
              outcomeTransportFailed, outcomeUnauthorized
<1>6. BeforeFatal' /\ FatalNeedsEvidence'
  <2>1. CASE fatalOnce
    BY <1>1, <1>2, <2>1 DEF HandleRound, Record, BeforeFatal, FatalNeedsEvidence, OnSuccess,
       OnUnauthorized, OnHTTPWarn, OnFirstTransportFailure, OnSecondTransportFailure, EmitFatal
  <2>2. CASE ~fatalOnce /\ OnSuccess
    BY <1>1, <2>2 DEF HandleRound, Record, BeforeFatal, FatalNeedsEvidence, OnSuccess,
       WorstIsJust, TypeOK
  <2>3. CASE ~fatalOnce /\ OnUnauthorized
    BY <1>1, <2>3 DEF HandleRound, Record, BeforeFatal, FatalNeedsEvidence, OnUnauthorized,
       WorstIsJust, EmitFatal, TypeOK
  <2>4. CASE ~fatalOnce /\ OnHTTPWarn
    BY <1>1, <2>4 DEF HandleRound, Record, BeforeFatal, FatalNeedsEvidence, OnHTTPWarn,
       WorstIsJust, TypeOK, outcomeSuccess, outcomeHTTPWarn, outcomeTransportFailed,
       outcomeUnauthorized
  <2>5. CASE ~fatalOnce /\ OnFirstTransportFailure
    BY <1>1, <2>5 DEF HandleRound, Record, BeforeFatal, FatalNeedsEvidence,
       OnFirstTransportFailure, WorstIsJust, TypeOK, outcomeSuccess, outcomeTransportFailed,
       outcomeUnauthorized
  <2>6. CASE ~fatalOnce /\ OnSecondTransportFailure
    BY <1>1, <2>6 DEF HandleRound, Record, BeforeFatal, FatalNeedsEvidence,
       OnSecondTransportFailure, EmitFatal, WorstIsJust, TypeOK, outcomeSuccess,
       outcomeTransportFailed, outcomeUnauthorized
  <2> QED
    BY <2>1, <2>2, <2>3, <2>4, <2>5, <2>6 DEF HandleRound
<1> QED
  BY <1>4, <1>5, <1>6

\* Run and Registrar.Stop keep it.
LEMMA StopKeepsIInv ==
    ASSUME IInv, Signalled \/ ReceiveFatal \/ BeginDeletes \/ Delete \/ DeletesDone PROVE IInv'
<1> USE RegistrarAssumption
<1> USE DEF IInv, loop, link, history, world
<1>1. CASE Signalled
  BY <1>1 DEF Signalled, TypeOK, BeforeFatal, LoopThenDeletes, WorstIsJust, FatalNeedsEvidence,
              UnregisteredStaysUnregistered
<1>2. CASE ReceiveFatal
  BY <1>2 DEF ReceiveFatal, TypeOK, BeforeFatal, LoopThenDeletes, WorstIsJust,
              FatalNeedsEvidence, UnregisteredStaysUnregistered
<1>3. CASE BeginDeletes
  <2>1. TypeOK'
    BY <1>3 DEF BeginDeletes, TypeOK
  <2>2. BeforeFatal' /\ LoopThenDeletes' /\ WorstIsJust'
    BY <1>3 DEF BeginDeletes, BeforeFatal, LoopThenDeletes, WorstIsJust
  <2>3. FatalNeedsEvidence' /\ UnregisteredStaysUnregistered'
    BY <1>3 DEF BeginDeletes, FatalNeedsEvidence, UnregisteredStaysUnregistered
  <2> QED
    BY <2>1, <2>2, <2>3
<1>4. CASE Delete
  <2>1. nextDelete \in Tools /\ nextDelete' \in 1..(NumTools + 1)
    BY <1>4 DEF Delete, TypeOK, Tools
  <2>2. TypeOK'
    <3>1. registered' \in SUBSET Tools /\ deleted' \in SUBSET Tools
      BY <1>4, <2>1 DEF Delete, TypeOK
    <3>2. budget' \in 0..RoundTimeouts
      BY <1>4 DEF Delete, TypeOK
    <3> QED
      BY <1>4, <2>1, <3>1, <3>2 DEF Delete, TypeOK
  <2>3. BeforeFatal' /\ LoopThenDeletes' /\ WorstIsJust'
    BY <1>4 DEF Delete, BeforeFatal, LoopThenDeletes, WorstIsJust
  <2>4. FatalNeedsEvidence' /\ UnregisteredStaysUnregistered'
    BY <1>4 DEF Delete, FatalNeedsEvidence, UnregisteredStaysUnregistered
  <2> QED
    BY <2>2, <2>3, <2>4
<1>5. CASE DeletesDone
  BY <1>5 DEF DeletesDone, TypeOK, BeforeFatal, LoopThenDeletes, WorstIsJust,
              FatalNeedsEvidence, UnregisteredStaysUnregistered
<1> QED
  BY <1>1, <1>2, <1>3, <1>4, <1>5

\* Whatever argus does keeps it.
LEMMA WorldKeepsIInv == ASSUME IInv, ArgusChanges \/ ArgusServesLate PROVE IInv'
<1> USE DEF IInv, loop, link, stopper, history
<1>1. CASE ArgusChanges
  BY <1>1 DEF ArgusChanges, TypeOK, BeforeFatal, LoopThenDeletes, WorstIsJust,
              FatalNeedsEvidence, UnregisteredStaysUnregistered
<1>2. CASE ArgusServesLate
  BY <1>2 DEF ArgusServesLate, TypeOK, BeforeFatal, LoopThenDeletes, WorstIsJust,
              FatalNeedsEvidence, UnregisteredStaysUnregistered
<1> QED
  BY <1>1, <1>2

\* The invariant holds in every reachable state.
THEOREM Invariance == Spec => []IInv
<1>1. IInv /\ [Next]_vars => IInv'
  <2> SUFFICES ASSUME IInv, [Next]_vars PROVE IInv'
    OBVIOUS
  <2>1. CASE Heartbeat
    BY <2>1, StartKeepsIInv, SelectKeepsIInv, PostKeepsIInv, HandleKeepsIInv
       DEF Heartbeat, StartStep, Round
  <2>2. CASE Signalled \/ ReceiveFatal \/ Stopping
    BY <2>2, StopKeepsIInv DEF Stopping
  <2>3. CASE World
    BY <2>3, WorldKeepsIInv DEF World
  <2>4. CASE UNCHANGED vars
    BY <2>4 DEF vars, loop, link, stopper, world, history, IInv, TypeOK, BeforeFatal,
       LoopThenDeletes, WorstIsJust, FatalNeedsEvidence, UnregisteredStaysUnregistered
  <2> QED
    BY <2>1, <2>2, <2>3, <2>4 DEF Next, Terminated
<1> QED
  BY <1>1, InitIInv, PTL DEF Spec

-----------------------------------------------------------------------------
\* Every variable has its type, for any number of tools.
THEOREM TypeCorrect == Spec => []TypeOK
  BY Invariance, PTL DEF IInv

\* A single lost heartbeat never brings the daemon down: whatever argus does,
\* the error Run receives and returns rests on a 401 or on two failed rounds
\* without a success between them.
THEOREM FatalIsJustified == Spec => []FatalNeedsEvidence
  BY Invariance, PTL DEF IInv

\* A tool that argus has unregistered for Stop is not registered again, except
\* by a POST that was given up before Stop and answered late.
THEOREM UnregisteredForGood == Spec => []UnregisteredStaysUnregistered
  BY Invariance, PTL DEF IInv

\* The fast retry is scheduled exactly while one failure is outstanding, so
\* the round it triggers is a second failure's "by construction".
THEOREM FastRetryIsSecond == Spec => []FastRetryIffOneFailure
<1>1. IInv => FastRetryIffOneFailure
  BY DEF IInv, BeforeFatal, FastRetryIffOneFailure
<1> QED
  BY <1>1, Invariance, PTL
-----------------------------------------------------------------------------
(***************************************************************************)
(* Registrar implements LinkVerdict.                                       *)
(***************************************************************************)

\* Once the fatal error has been emitted it is somewhere, and in one place only: Run
\* returns none unless it has received it.
VerdictIsKept ==
    /\ stop = "no" => runResult = "running"
    /\ fatalOnce => CurrentVerdict # "none"
    /\ fatalCh # "empty" => runResult \in {"running", "nil"}

\* Until the fatal error there is no verdict.
LEMMA NoneBeforeFatal == ASSUME IInv, ~fatalOnce PROVE CurrentVerdict = "none"
  BY DEF IInv, BeforeFatal, CurrentVerdict

\* What concerns neither the failures nor the verdict is a stuttering step.
LEMMA VerdictStutters ==
    ASSUME VerdictIsKept, UNCHANGED <<failures, fatalOnce, fatalCh, runResult>>,
           stop' = "no" => stop = "no"
    PROVE  VerdictIsKept' /\ UNCHANGED Verdict!vars
  BY DEF VerdictIsKept, CurrentVerdict, Verdict!vars

\* A round before the fatal error is a step of LinkVerdict, and one after it none.
LEMMA HandleMaps ==
    ASSUME IInv, VerdictIsKept, HandleRound
    PROVE  VerdictIsKept' /\ [Verdict!Next]_(Verdict!vars)
<1> USE DEF HandleRound, stopper
<1> DEFINE After == VerdictIsKept' /\ [Verdict!Next]_(Verdict!vars)
<1>1. CASE fatalOnce
  <2>1. fatalOnce' /\ UNCHANGED <<failures, fatalCh, runResult>>
    BY <1>1 DEF Record, link, OnSuccess, OnUnauthorized, OnHTTPWarn, OnFirstTransportFailure,
       OnSecondTransportFailure, EmitFatal
  <2> QED
    BY <1>1, <2>1 DEF VerdictIsKept, CurrentVerdict, Verdict!vars
<1>2. CASE ~fatalOnce
  <2>1. /\ CurrentVerdict = "none" /\ fatalCh = "empty" /\ runResult \in {"running", "nil"}
        /\ consecutiveTransport = failures /\ failures \in {0, 1}
        /\ isFastRetry => failures = 1
    BY <1>2, NoneBeforeFatal DEF IInv, BeforeFatal
  <2> USE DEF outcomeSuccess, outcomeHTTPWarn, outcomeTransportFailed, outcomeUnauthorized
  <2>2. WorstIsJust
    BY DEF IInv
  <2>3. CASE OnSuccess
    <3>1. failures' = 0 /\ UNCHANGED <<fatalOnce, fatalCh, runResult>>
      BY <1>2, <2>2, <2>3 DEF OnSuccess, Record, WorstIsJust
    <3>2. UNCHANGED CurrentVerdict
      BY <3>1 DEF CurrentVerdict
    <3> QED
      BY <1>2, <2>1, <3>1, <3>2 DEF VerdictIsKept, Verdict!Next, Verdict!AllWell
  <2>4. CASE OnUnauthorized
    <3>1. failures' = failures /\ fatalCh' = "unauthorized" /\ fatalOnce' /\ UNCHANGED runResult
      BY <1>2, <2>1, <2>2, <2>4 DEF OnUnauthorized, EmitFatal, Record, WorstIsJust
    <3>2. CurrentVerdict' = "unauthorized"
      BY <3>1 DEF CurrentVerdict
    <3> QED
      BY <2>1, <3>1, <3>2 DEF VerdictIsKept, Verdict!Next, Verdict!Refuse
  <2>5. CASE OnHTTPWarn
    <3>1. UNCHANGED <<failures, fatalOnce, fatalCh, runResult, stop>>
      BY <1>2, <2>2, <2>5 DEF OnHTTPWarn, Record, WorstIsJust, link
    <3> QED
      BY <3>1, VerdictStutters
  <2>6. CASE OnFirstTransportFailure
    <3>1. failures = 0 /\ failures' = 1 /\ UNCHANGED <<fatalOnce, fatalCh, runResult>>
      BY <1>2, <2>1, <2>2, <2>6 DEF OnFirstTransportFailure, Record, WorstIsJust
    <3>2. UNCHANGED CurrentVerdict
      BY <3>1 DEF CurrentVerdict
    <3> QED
      BY <1>2, <2>1, <3>1, <3>2 DEF VerdictIsKept, Verdict!Next, Verdict!Doubt
  <2>7. CASE OnSecondTransportFailure
    <3>1. /\ failures = 1 /\ failures' = 2 /\ fatalCh' = "transport"
          /\ fatalOnce' /\ UNCHANGED runResult
      BY <1>2, <2>1, <2>2, <2>7 DEF OnSecondTransportFailure, EmitFatal, Record, WorstIsJust
    <3>2. CurrentVerdict' = "transport"
      BY <3>1 DEF CurrentVerdict
    <3> QED
      BY <2>1, <3>1, <3>2 DEF VerdictIsKept, Verdict!Next, Verdict!Lose
  <2> QED
    BY <2>3, <2>4, <2>5, <2>6, <2>7
<1> QED
  BY <1>1, <1>2

\* Run's receive moves the error, and the signal does not overtake one it has received.
LEMMA RunMaps ==
    ASSUME IInv, VerdictIsKept, Signalled \/ ReceiveFatal
    PROVE  VerdictIsKept' /\ UNCHANGED Verdict!vars
<1>1. CASE Signalled
  BY <1>1 DEF Signalled, VerdictIsKept, CurrentVerdict, Verdict!vars, loop, link, history
<1>2. CASE ReceiveFatal
  BY <1>2 DEF ReceiveFatal, VerdictIsKept, CurrentVerdict, Verdict!vars, IInv, TypeOK, loop,
     link, history
<1> QED
  BY <1>1, <1>2

LEMMA StepMaps ==
    ASSUME IInv, VerdictIsKept, [Next]_vars
    PROVE  VerdictIsKept' /\ [Verdict!Next]_(Verdict!vars)
<1>1. CASE HandleRound
  BY <1>1, HandleMaps
<1>2. CASE Signalled \/ ReceiveFatal
  BY <1>2, RunMaps
<1>3. CASE ~(HandleRound \/ Signalled \/ ReceiveFatal)
  <2>1. UNCHANGED <<failures, fatalOnce, fatalCh, runResult>> /\ (stop' = "no" => stop = "no")
    BY <1>3 DEF Next, vars, loop, link, stopper, world, history, Heartbeat, StartStep, StartPost,
       StartInterrupted, StartDone, HeartbeatTick, FastRetryFires, BeginRound, LoopExits, Round,
       RoundPost, Stopping, BeginDeletes, Delete, DeletesDone, World, ArgusChanges,
       ArgusServesLate, Terminated
  <2> QED
    BY <2>1, VerdictStutters
<1> QED
  BY <1>1, <1>2, <1>3

\* The counter, the fast retry and the channel implement LinkVerdict for any number of
\* tools: the second failure is the fatal one, and its error reaches Run's select or
\* stays in the channel.
THEOREM Implements == Spec => ImplementsVerdict
<1>1. Init => VerdictIsKept /\ Verdict!Init
  BY DEF Init, VerdictIsKept, CurrentVerdict, Verdict!Init
<1>2. ASSUME IInv, VerdictIsKept, [Next]_vars
      PROVE  VerdictIsKept' /\ [Verdict!Next]_(Verdict!vars)
  BY <1>2, StepMaps
<1> QED
  BY <1>1, <1>2, Invariance, PTL DEF Spec, ImplementsVerdict, Verdict!Spec
=============================================================================
