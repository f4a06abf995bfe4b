---------------------------- MODULE DaemonProofs ----------------------------
(* The safety properties of Daemon for any number of daemons and tools. *)
EXTENDS Daemon, TLAPS

\* Who is bound and who beats, by Run's statements.
PhasesAgree ==
    \A d \in Daemons :
       /\ d \in bound <=> phase[d] \in Listening
       /\ beat[d] > 0 => phase[d] \in Beating

\* While one start makes a token there is none on file, and nobody has one.
TokenIsMadeAlone ==
    /\ \A d \in Daemons : phase[d] = "truncated" => hookToken[d] # Nothing
    /\ mishap \/ \A d \in Daemons :
          /\ phase[d] \in Tokened => hookToken[d] = tokenFile /\ tokenFile # Nothing
          /\ Creating(d) => tokenFile = Nothing /\ \A e \in Daemons : Creating(e) => e = d

\* What a stop whose DELETEs are served has behind it is no longer its own.
StopsForget ==
    \A d \in Daemons :
       /\ phase[d] \in Beating => next[d] = 1
       /\ d \notin missed /\ phase[d] = "deleting" => \A t \in Tools : t < next[d] => registry[t] # d
       /\ d \notin missed /\ phase[d] \in {"closing", "draining"} => \A t \in Tools : registry[t] # d

IInv == TypeOK /\ PhasesAgree /\ TokenIsMadeAlone /\ CallbacksAreServed /\ StopsForget

USE DaemonAssumption DEF Tools

\* The tools have a first one, and the counters a zero.
LEMMA FirstTool == 1 \in Tools /\ 0 \in 0..NumTools /\ 0 \in 0..MaxFaults
  OBVIOUS

\* What argus may hold after a request is about its tool and its caller alone.
LEMMA AskedChanges ==
    ASSUME TypeOK, NEW d \in Daemons, NEW t \in Tools, NEW who \in Daemons \cup {Nobody},
           NEW reg \in Asked(d, t, who)
    PROVE  /\ reg \in [Tools -> Daemons \cup {Nobody, Dead}]
           /\ \A u \in Tools : reg[u] = registry[u] \/ (u = t /\ reg[u] = who)
  BY DEF Asked, TypeOK

\* A fault leaves the bound.
LEMMA FaultType == ASSUME TypeOK, Fault PROVE faults' \in 0..MaxFaults
  BY DEF Fault, TypeOK

\* Init establishes the invariant.
LEMMA InitIInv == ASSUME Init PROVE IInv
<1>1. TypeOK
  BY FirstTool DEF Init, TypeOK, Phases
<1>2. PhasesAgree /\ TokenIsMadeAlone /\ CallbacksAreServed /\ StopsForget
  BY DEF Init, PhasesAgree, TokenIsMadeAlone, CallbacksAreServed, StopsForget, Listening, Beating, Tokened, Creating
<1> QED
  BY <1>1, <1>2 DEF IInv

\* The end of a process keeps it: what is left of d is nothing.
LEMMA ExitKeepsIInv ==
    ASSUME IInv, NEW d \in Daemons, NEW how \in {"none", "clean", "failed"},
           Exit(d, how), faults' \in 0..MaxFaults
    PROVE  IInv'
<1> USE DEF IInv
<1>1. TypeOK'
  BY FirstTool DEF Exit, TypeOK, Phases
<1>2. PhasesAgree'
  BY DEF Exit, TypeOK, PhasesAgree, Listening, Beating
<1>3. TokenIsMadeAlone'
  BY DEF Exit, TypeOK, TokenIsMadeAlone, Tokened, Listening, Creating
<1>4. \A e \in Daemons, t \in Tools : registry'[t] = e => registry[t] = e /\ e # d
  BY DEF Exit, TypeOK
<1>5. CallbacksAreServed'
  <2>1. ASSUME NEW e \in Daemons, NEW t \in Tools, registry'[t] = e
        PROVE  e \in bound' \/ phase'[e] = "aborting" \/ e \in missed'
    BY <1>4, <2>1 DEF Exit, CallbacksAreServed, TypeOK
  <2>2. \A e, f \in bound' : addr'[e] = addr'[f] => e = f
    BY DEF Exit, CallbacksAreServed
  <2> QED
    BY <2>1, <2>2 DEF CallbacksAreServed
<1>6. StopsForget'
  <2>1. phase'[d] = "off"
    BY DEF Exit, TypeOK
  <2>2. \A e \in Daemons \ {d} : phase'[e] = phase[e] /\ next'[e] = next[e] /\ (e \in missed' <=> e \in missed)
    BY DEF Exit, TypeOK
  <2> QED
    BY <1>4, <2>1, <2>2 DEF StopsForget, Beating
<1> QED
  BY <1>1, <1>2, <1>3, <1>5, <1>6

\* A start that has no tool with argus yet has nothing to forget.
LEMMA StartsForget ==
    ASSUME IInv, NEW d \in Daemons,
           NEW where \in {"configured", "create", "truncated", "checking", "starting", "aborting"},
           phase' = [phase EXCEPT ![d] = where], UNCHANGED <<next, missed>>,
           \A e \in Daemons \ {d}, t \in Tools : registry'[t] = e => registry[t] = e
    PROVE  StopsForget'
<1>1. phase'[d] = where /\ \A e \in Daemons \ {d} : phase'[e] = phase[e]
  BY DEF IInv, TypeOK
<1> QED
  BY <1>1 DEF IInv, StopsForget, Beating

\* The checks before the listener is there.
LEMMA ChecksKeepIInv ==
    ASSUME IInv, NEW d \in Daemons, Configure(d) \/ CheckFails(d) \/ ListenFails(d) \/ Listen(d)
    PROVE  IInv'
<1> USE DEF IInv
<1>1. CASE Configure(d)
  <2>1. TypeOK'
    BY <1>1 DEF Configure, Goto, DiscoveredPorts, TypeOK, Phases, files, world
  <2>2. PhasesAgree'
    BY <1>1 DEF Configure, Goto, TypeOK, PhasesAgree, Listening, Beating
  <2>3. TokenIsMadeAlone'
    BY <1>1 DEF Configure, Goto, TypeOK, TokenIsMadeAlone, Tokened, Listening, Creating, files
  <2>4. CallbacksAreServed'
    BY <1>1 DEF Configure, Goto, CallbacksAreServed, TypeOK, world
  <2>5. StopsForget'
    BY <1>1, StartsForget DEF Configure, Goto, world
  <2> QED
    BY <2>1, <2>2, <2>3, <2>4, <2>5
<1>2. CASE CheckFails(d)
  <2>1. faults' \in 0..MaxFaults
    BY <1>2, FaultType DEF CheckFails, TypeOK
  <2> QED
    BY <1>2, <2>1, ExitKeepsIInv DEF CheckFails, TypeOK
<1>3. CASE ListenFails(d)
  BY <1>3, ExitKeepsIInv DEF ListenFails, TypeOK
<1>4. CASE Listen(d)
  <2>1. TypeOK'
    BY <1>4 DEF Listen, Goto, TypeOK, Phases, files, world
  <2>2. PhasesAgree'
    BY <1>4 DEF Listen, Goto, TypeOK, PhasesAgree, Listening, Beating
  <2>3. TokenIsMadeAlone'
    BY <1>4 DEF Listen, Goto, TypeOK, TokenIsMadeAlone, Tokened, Listening, Creating, files
  <2>4. CallbacksAreServed'
    BY <1>4 DEF Listen, Goto, Taken, CallbacksAreServed, TypeOK, world
  <2>5. StopsForget'
    BY <1>4, StartsForget DEF Listen, Goto, world
  <2> QED
    BY <2>1, <2>2, <2>3, <2>4, <2>5
<1> QED
  BY <1>1, <1>2, <1>3, <1>4

\* LoadOrCreateHookToken.
LEMMA TokenKeepsIInv ==
    ASSUME IInv, NEW d \in Daemons, ReadHookToken(d) \/ TruncateTokenFile(d) \/ WriteHookToken(d)
    PROVE  IInv'
<1> USE DEF IInv
<1>1. CASE ReadHookToken(d)
  <2>0. \/ /\ phase' = [phase EXCEPT ![d] = "checking"]
           /\ tokenFile # Nothing /\ hookToken' = [hookToken EXCEPT ![d] = tokenFile]
        \/ phase' = [phase EXCEPT ![d] = "create"] /\ UNCHANGED hookToken
    BY <1>1, Zenon DEF ReadHookToken
  <2>1. TypeOK'
    <3>1. faults' \in 0..MaxFaults
      BY <1>1, FaultType DEF ReadHookToken, TypeOK
    <3>2. mishap' \in BOOLEAN
      BY <1>1, Zenon DEF ReadHookToken, TypeOK
    <3>3. phase' \in [Daemons -> Phases] /\ hookToken' \in [Daemons -> Tokens \cup {Nothing}]
      <4>1. tokenFile \in Tokens \cup {Nothing} /\ {"checking", "create"} \subseteq Phases
        BY DEF TypeOK, Phases
      <4>2. phase \in [Daemons -> Phases] /\ hookToken \in [Daemons -> Tokens \cup {Nothing}]
        BY DEF TypeOK
      <4> QED
        BY <2>0, <4>1, <4>2
    <3>4. UNCHANGED <<addr, base, next, beat, fatal, sigterm, result, missed, bound, lock, tokenFile, argus, port, registry>>
      BY <1>1, Zenon DEF ReadHookToken, world
    <3> QED
      BY <3>1, <3>2, <3>3, <3>4 DEF TypeOK
  <2>2. PhasesAgree'
    BY <1>1, <2>0 DEF ReadHookToken, TypeOK, PhasesAgree, Listening, Beating
  <2>3. TokenIsMadeAlone'
    <3>1. phase[d] = "configured" /\ UNCHANGED tokenFile
      BY <1>1, Zenon DEF ReadHookToken
    <3>2. \A e \in Daemons : phase'[e] = "truncated" => hookToken'[e] # Nothing
      BY <2>0, <3>1 DEF TypeOK, TokenIsMadeAlone
    <3>3. CASE mishap'
      BY <3>2, <3>3 DEF TokenIsMadeAlone
    <3>4. CASE ~mishap' /\ phase'[d] = "checking"
      <4>1. /\ phase' = [phase EXCEPT ![d] = "checking"]
            /\ tokenFile # Nothing /\ hookToken' = [hookToken EXCEPT ![d] = tokenFile]
        BY <2>0, <3>4 DEF TypeOK
      <4>2. ~mishap
        BY <1>1, <3>4, Zenon DEF ReadHookToken
      <4> QED
        BY <3>1, <3>2, <4>1, <4>2 DEF TypeOK, TokenIsMadeAlone, Tokened, Listening, Creating
    <3>5. CASE ~mishap' /\ phase'[d] # "checking"
      <4>1. phase' = [phase EXCEPT ![d] = "create"] /\ UNCHANGED hookToken
        BY <2>0, <3>5 DEF TypeOK
      <4>2. ~mishap /\ tokenFile = Nothing /\ ~\E e \in Daemons : Creating(e)
        BY <1>1, <3>5, <4>1 DEF ReadHookToken, TypeOK
      <4> QED
        BY <3>1, <3>2, <4>1, <4>2 DEF TypeOK, TokenIsMadeAlone, Tokened, Listening, Creating
    <3> QED
      BY <3>3, <3>4, <3>5
  <2>4. CallbacksAreServed' /\ StopsForget'
    <3>1. /\ phase[d] \in {"configured", "create", "truncated"}
          /\ \E where \in {"create", "truncated", "checking"} : phase' = [phase EXCEPT ![d] = where]
          /\ UNCHANGED <<addr, next, missed, bound, registry>>
      BY <1>1, Zenon DEF ReadHookToken, Goto, world
    <3> QED
      BY <3>1, StartsForget DEF CallbacksAreServed, TypeOK
  <2> QED
    BY <2>1, <2>2, <2>3, <2>4
<1>2. CASE TruncateTokenFile(d)
  <2>0. PICK tok \in Tokens : hookToken' = [hookToken EXCEPT ![d] = tok]
    BY <1>2, Zenon DEF TruncateTokenFile, Fresh
  <2>1. TypeOK'
    <3>1. hookToken' \in [Daemons -> Tokens \cup {Nothing}] /\ tokenFile' \in Tokens \cup {Nothing}
      BY <1>2, <2>0 DEF TruncateTokenFile, TypeOK
    <3>2. phase' \in [Daemons -> Phases]
      BY <1>2 DEF TruncateTokenFile, Goto, TypeOK, Phases
    <3>3. UNCHANGED <<addr, base, next, beat, fatal, sigterm, result, missed, bound, lock, mishap, argus, port, registry, faults>>
      BY <1>2, Zenon DEF TruncateTokenFile, world
    <3> QED
      BY <3>1, <3>2, <3>3 DEF TypeOK
  <2>2. PhasesAgree'
    BY <1>2 DEF TruncateTokenFile, Goto, TypeOK, PhasesAgree, Listening, Beating
  <2>3. TokenIsMadeAlone'
    <3>1. /\ phase[d] = "create" /\ phase' = [phase EXCEPT ![d] = "truncated"]
          /\ tokenFile' = Nothing /\ mishap' = mishap
      BY <1>2, Zenon DEF TruncateTokenFile, Goto
    <3> QED
      BY <2>0, <3>1 DEF TypeOK, TokenIsMadeAlone, Tokened, Listening, Creating
  <2>4. CallbacksAreServed' /\ StopsForget'
    <3>1. /\ phase[d] \in {"configured", "create", "truncated"}
          /\ \E where \in {"create", "truncated", "checking"} : phase' = [phase EXCEPT ![d] = where]
          /\ UNCHANGED <<addr, next, missed, bound, registry>>
      BY <1>2, Zenon DEF TruncateTokenFile, Goto, world
    <3> QED
      BY <3>1, StartsForget DEF CallbacksAreServed, TypeOK
  <2> QED
    BY <2>1, <2>2, <2>3, <2>4
<1>3. CASE WriteHookToken(d)
  <2>1. TypeOK'
    BY <1>3 DEF WriteHookToken, Goto, TypeOK, Phases, world
  <2>2. PhasesAgree'
    BY <1>3 DEF WriteHookToken, Goto, TypeOK, PhasesAgree, Listening, Beating
  <2>3. TokenIsMadeAlone'
    BY <1>3 DEF WriteHookToken, Goto, TypeOK, TokenIsMadeAlone, Tokened, Listening, Creating
  <2>4. CallbacksAreServed' /\ StopsForget'
    <3>1. /\ phase[d] \in {"configured", "create", "truncated"}
          /\ \E where \in {"create", "truncated", "checking"} : phase' = [phase EXCEPT ![d] = where]
          /\ UNCHANGED <<addr, next, missed, bound, registry>>
      BY <1>3, Zenon DEF WriteHookToken, Goto, world
    <3> QED
      BY <3>1, StartsForget DEF CallbacksAreServed, TypeOK
  <2> QED
    BY <2>1, <2>2, <2>3, <2>4
<1> QED
  BY <1>1, <1>2, <1>3

\* A bound daemon that asks argus for a tool of its own, or to forget one.
LEMMA AskingKeepsCallbacks ==
    ASSUME IInv, NEW d \in bound, NEW t \in Tools, NEW who \in {d, Nobody},
           registry' \in {registry} \cup Asked(d, t, who), UNCHANGED <<addr, bound>>,
           missed \subseteq missed', \A e \in Daemons \ {d} : phase'[e] = phase[e]
    PROVE  /\ registry' \in [Tools -> Daemons \cup {Nobody, Dead}]
           /\ \A e \in Daemons \ {d}, u \in Tools : registry'[u] = e => registry[u] = e
           /\ CallbacksAreServed'
<1> USE DEF IInv
<1>1. d \in Daemons
  BY DEF TypeOK
<1>2. /\ registry' \in [Tools -> Daemons \cup {Nobody, Dead}]
      /\ \A u \in Tools : registry'[u] = registry[u] \/ registry'[u] \in {d, Nobody}
  BY <1>1, AskedChanges DEF TypeOK
<1>3. \A e \in Daemons \ {d}, u \in Tools : registry'[u] = e => registry[u] = e
  BY <1>2
<1>4. ASSUME NEW e \in Daemons, NEW u \in Tools, registry'[u] = e
      PROVE  e \in bound' \/ phase'[e] = "aborting" \/ e \in missed'
  BY <1>3, <1>4 DEF CallbacksAreServed
<1> QED
  BY <1>2, <1>3, <1>4 DEF CallbacksAreServed

\* The registrations of a start.
LEMMA RegisterKeepsIInv ==
    ASSUME IInv, NEW d \in Daemons, RegisterTool(d) \/ RegisterFails(d)
    PROVE  IInv'
<1> USE DEF IInv
<1>0. d \in bound /\ next[d] \in Tools
  BY DEF RegisterTool, RegisterFails, Goto, PhasesAgree, Listening, TypeOK
<1>1. CASE RegisterTool(d)
  <2>1. \A e \in Daemons \ {d} : phase'[e] = phase[e]
    BY <1>1 DEF RegisterTool, TypeOK
  <2>2. /\ registry' \in [Tools -> Daemons \cup {Nobody, Dead}]
        /\ \A e \in Daemons \ {d}, u \in Tools : registry'[u] = e => registry[u] = e
        /\ CallbacksAreServed'
    BY <1>0, <1>1, <2>1, AskingKeepsCallbacks DEF RegisterTool, Asked
  <2>3. TypeOK'
    <3>1. next' \in [Daemons -> Tools] /\ phase' \in [Daemons -> Phases]
      <4>1. CASE next[d] = NumTools
        BY <1>1, <4>1, FirstTool DEF RegisterTool, TypeOK, Phases
      <4>2. CASE next[d] # NumTools
        <5>1. next[d] + 1 \in Tools
          BY <1>0, <4>2
        <5> QED
          BY <1>1, <4>2, <5>1 DEF RegisterTool, TypeOK
      <4> QED
        BY <4>1, <4>2
    <3>2. UNCHANGED <<addr, base, hookToken, beat, fatal, sigterm, result, missed, bound, lock, tokenFile, mishap, argus, port, faults>>
      BY <1>1, Zenon DEF RegisterTool, files
    <3> QED
      BY <2>2, <3>1, <3>2 DEF TypeOK
  <2>4. PhasesAgree'
    BY <1>1 DEF RegisterTool, TypeOK, PhasesAgree, Listening, Beating
  <2>5. TokenIsMadeAlone'
    BY <1>1 DEF RegisterTool, TypeOK, TokenIsMadeAlone, Tokened, Listening, Creating, files
  <2>6. StopsForget'
    <3>1. phase'[d] = "starting" \/ (phase'[d] = "up" /\ next'[d] = 1)
      BY <1>1 DEF RegisterTool, TypeOK
    <3>2. \A e \in Daemons \ {d} : next'[e] = next[e]
      BY <1>1 DEF RegisterTool, TypeOK
    <3> QED
      BY <1>1, <2>1, <2>2, <3>1, <3>2 DEF RegisterTool, StopsForget, Beating
  <2> QED
    BY <2>2, <2>3, <2>4, <2>5, <2>6
<1>2. CASE RegisterFails(d)
  <2>1. /\ phase[d] = "starting" /\ phase' = [phase EXCEPT ![d] = "aborting"] /\ bound' = bound \ {d}
        /\ registry' \in {registry} \cup Asked(d, next[d], d)
        /\ result' = [result EXCEPT ![d] = "failed"]
        /\ UNCHANGED <<addr, base, hookToken, next, beat, fatal, sigterm, missed, lock, tokenFile, mishap, argus, port, faults>>
    BY <1>2, Zenon DEF RegisterFails, Goto, files
  <2>2. /\ registry' \in [Tools -> Daemons \cup {Nobody, Dead}]
        /\ \A u \in Tools : registry'[u] = registry[u] \/ registry'[u] = d
    BY <1>0, <2>1, AskedChanges DEF TypeOK
  <2>3. TypeOK'
    BY <2>1, <2>2 DEF TypeOK, Phases
  <2>4. PhasesAgree'
    BY <2>1 DEF TypeOK, PhasesAgree, Listening, Beating
  <2>5. TokenIsMadeAlone'
    BY <2>1 DEF TypeOK, TokenIsMadeAlone, Tokened, Listening, Creating
  <2>6. CallbacksAreServed'
    BY <2>1, <2>2 DEF CallbacksAreServed, TypeOK
  <2>7. StopsForget'
    BY <2>1, <2>2, StartsForget
  <2> QED
    BY <2>3, <2>4, <2>5, <2>6, <2>7
<1> QED
  BY <1>1, <1>2

\* The heartbeat.
LEMMA HeartbeatKeepsIInv ==
    ASSUME IInv, NEW d \in Daemons, Heartbeat(d)
    PROVE  IInv'
<1> USE DEF IInv
<1>1. CASE HeartbeatTick(d)
  <2>1. TypeOK'
    BY <1>1, FirstTool DEF HeartbeatTick, TypeOK, files, world
  <2>2. PhasesAgree'
    BY <1>1 DEF HeartbeatTick, TypeOK, PhasesAgree
  <2>3. TokenIsMadeAlone' /\ CallbacksAreServed' /\ StopsForget'
    BY <1>1 DEF HeartbeatTick, TokenIsMadeAlone, Creating, CallbacksAreServed, StopsForget, files, world
  <2> QED
    BY <2>1, <2>2, <2>3
<1>2. CASE HeartbeatPost(d)
  <2>1. d \in bound /\ beat[d] \in Tools
    BY <1>2 DEF HeartbeatPost, PhasesAgree, Listening, Beating, TypeOK
  <2>2. /\ registry' \in [Tools -> Daemons \cup {Nobody, Dead}]
        /\ \A e \in Daemons \ {d}, u \in Tools : registry'[u] = e => registry[u] = e
        /\ CallbacksAreServed'
    BY <1>2, <2>1, AskingKeepsCallbacks DEF HeartbeatPost
  <2>3. beat' = [beat EXCEPT ![d] = (beat[d] + 1) % (NumTools + 1)]
           /\ (beat[d] + 1) % (NumTools + 1) \in 0..NumTools
    BY <1>2, <2>1 DEF HeartbeatPost
  <2>4. TypeOK'
    BY <1>2, <2>2, <2>3 DEF HeartbeatPost, TypeOK, files
  <2>5. PhasesAgree'
    BY <1>2, <2>1, <2>3 DEF HeartbeatPost, TypeOK, PhasesAgree
  <2>6. TokenIsMadeAlone'
    BY <1>2 DEF HeartbeatPost, TokenIsMadeAlone, Creating, files
  <2>7. StopsForget'
    BY <1>2, <2>1, <2>2 DEF HeartbeatPost, PhasesAgree, StopsForget, Beating
  <2> QED
    BY <2>2, <2>4, <2>5, <2>6, <2>7
<1> QED
  BY <1>1, <1>2 DEF Heartbeat

\* The DELETEs of a stop, and the end of its listener.
LEMMA StopKeepsIInv ==
    ASSUME IInv, NEW d \in Daemons, DeleteTool(d) \/ Close(d)
    PROVE  IInv'
<1> USE DEF IInv
<1>1. CASE DeleteTool(d)
  <2>1. d \in bound /\ next[d] \in Tools
    BY <1>1 DEF DeleteTool, PhasesAgree, Listening, TypeOK
  <2>2. \A e \in Daemons \ {d} : phase'[e] = phase[e] /\ next'[e] = next[e] /\ (e \in missed' <=> e \in missed)
    BY <1>1 DEF DeleteTool, TypeOK
  <2>3. /\ registry' \in [Tools -> Daemons \cup {Nobody, Dead}]
        /\ \A e \in Daemons \ {d}, u \in Tools : registry'[u] = e => registry[u] = e
        /\ CallbacksAreServed'
    <3>1. missed \subseteq missed' /\ UNCHANGED <<addr, bound>>
      BY <1>1 DEF DeleteTool
    <3>2. registry' \in {registry} \cup Asked(d, next[d], Nobody)
      BY <1>1 DEF DeleteTool
    <3> QED
      BY <2>1, <2>2, <3>1, <3>2, AskingKeepsCallbacks
  <2>4. TypeOK'
    <3>0. missed' \in SUBSET Daemons
      BY <1>1 DEF DeleteTool, TypeOK
    <3>1. next' \in [Daemons -> Tools] /\ phase' \in [Daemons -> Phases]
      <4>1. CASE next[d] = NumTools
        BY <1>1, <4>1, FirstTool DEF DeleteTool, TypeOK, Phases
      <4>2. CASE next[d] # NumTools
        <5>1. next[d] + 1 \in Tools
          BY <2>1, <4>2
        <5> QED
          BY <1>1, <4>2, <5>1 DEF DeleteTool, TypeOK
      <4> QED
        BY <4>1, <4>2
    <3>2. UNCHANGED <<addr, base, hookToken, beat, fatal, sigterm, result, bound, lock, tokenFile, mishap, argus, port, faults>>
      BY <1>1, Zenon DEF DeleteTool, files
    <3> QED
      BY <2>3, <3>0, <3>1, <3>2 DEF TypeOK
  <2>5. PhasesAgree'
    BY <1>1 DEF DeleteTool, TypeOK, PhasesAgree, Listening, Beating
  <2>6. TokenIsMadeAlone'
    BY <1>1 DEF DeleteTool, TypeOK, TokenIsMadeAlone, Tokened, Listening, Creating, files
  <2>7. StopsForget'
    <3>1. CASE d \in missed'
      <4>1. phase'[d] \notin Beating
        BY <1>1 DEF DeleteTool, TypeOK, Beating
      <4> QED
        BY <2>2, <2>3, <3>1, <4>1 DEF StopsForget
    <3>2. CASE d \notin missed'
      <4>1. registry' = [registry EXCEPT ![next[d]] = Nobody] /\ d \notin missed
        <5>1. Serves(d) /\ d \notin missed
          BY <1>1, <3>2 DEF DeleteTool
        <5>2. Asked(d, next[d], Nobody) = {[registry EXCEPT ![next[d]] = Nobody]}
          BY <5>1 DEF Asked, Serves
        <5>3. registry' \in Asked(d, next[d], Nobody) \cup (IF d \in missed THEN {registry} ELSE {})
          BY <1>1, Zenon DEF DeleteTool
        <5> QED
          BY <5>1, <5>2, <5>3
      <4>2. \A t \in Tools : t < next[d] + 1 => registry'[t] # d
        <5>1. \A t \in Tools : t < next[d] => registry[t] # d
          BY <1>1, <4>1 DEF DeleteTool, StopsForget
        <5> QED
          BY <2>1, <4>1, <5>1 DEF TypeOK
      <4>3. \/ phase'[d] = "closing" /\ next[d] = NumTools
            \/ phase'[d] = "deleting" /\ next'[d] = next[d] + 1
        BY <1>1 DEF DeleteTool, TypeOK
      <4> QED
        BY <2>1, <2>2, <2>3, <4>2, <4>3 DEF StopsForget, Beating
    <3> QED
      BY <3>1, <3>2
  <2> QED
    BY <2>3, <2>4, <2>5, <2>6, <2>7
<1>2. CASE Close(d)
  <2> USE <1>2 DEF Close, Goto, files, world
  <2>1. TypeOK'
    BY DEF TypeOK, Phases
  <2>2. PhasesAgree'
    BY DEF TypeOK, PhasesAgree, Listening, Beating
  <2>3. TokenIsMadeAlone'
    BY DEF TypeOK, TokenIsMadeAlone, Tokened, Listening, Creating
  <2>4. CallbacksAreServed'
    <3>1. d \in missed \/ \A t \in Tools : registry[t] # d
      BY DEF StopsForget
    <3>2. \A e \in Daemons \ {d} : phase'[e] = phase[e]
      BY DEF TypeOK
    <3> QED
      BY <3>1, <3>2 DEF CallbacksAreServed
  <2>5. StopsForget'
    BY DEF TypeOK, StopsForget, Beating
  <2> QED
    BY <2>1, <2>2, <2>3, <2>4, <2>5
<1> QED
  BY <1>1, <1>2

\* Run's other steps.
LEMMA RunKeepsIInv ==
    ASSUME IInv, NEW d \in Daemons,
           TakeLock(d) \/ LockFails(d) \/ LeaveSelect(d) \/ ReleaseLock(d) \/ JoinHeartbeat(d)
    PROVE  IInv'
<1> USE DEF IInv, TakeLock, LockFails, LeaveSelect, ReleaseLock, JoinHeartbeat, Goto, files, world
<1>1. TypeOK'
  BY FaultType DEF TypeOK, Phases
<1>2. PhasesAgree'
  BY DEF TypeOK, PhasesAgree, Listening, Beating
<1>3. TokenIsMadeAlone'
  BY DEF TypeOK, TokenIsMadeAlone, Tokened, Listening, Creating
<1>4. CallbacksAreServed'
  BY DEF CallbacksAreServed, TypeOK
<1>5. StopsForget'
  <2>1. phase[d] \in Beating /\ phase'[d] \in Beating \cup {"deleting"} /\ UNCHANGED <<next, missed, registry>>
    BY DEF TypeOK, Beating
  <2>2. \A e \in Daemons \ {d} : phase'[e] = phase[e]
    BY DEF TypeOK
  <2> QED
    BY <2>1, <2>2 DEF StopsForget, Beating
<1> QED
  BY <1>1, <1>2, <1>3, <1>4, <1>5

\* What else happens to a daemon, and argus.
LEMMA RestKeepsIInv ==
    ASSUME IInv, \/ \E d \in Daemons : Drained(d) \/ Crash(d) \/ Signal(d) \/ LinkLost(d)
                 \/ Argus
                 \/ UNCHANGED vars
    PROVE  IInv'
<1> USE DEF IInv
<1>1. ASSUME NEW d \in Daemons, Drained(d) \/ Crash(d) PROVE IInv'
  <2>1. faults' \in 0..MaxFaults
    BY <1>1, FaultType DEF Drained, Crash, TypeOK
  <2>2. PICK how \in {"none", "clean", "failed"} : Exit(d, how)
    BY <1>1 DEF Drained, Crash, TypeOK
  <2> QED
    BY <2>1, <2>2, ExitKeepsIInv
<1>2. ASSUME NEW d \in Daemons, Signal(d) \/ LinkLost(d) PROVE IInv'
  <2>1. TypeOK'
    BY <1>2, FaultType DEF Signal, LinkLost, TypeOK, files, world
  <2> QED
    BY <1>2, <2>1 DEF Signal, LinkLost, PhasesAgree, TokenIsMadeAlone, Creating, CallbacksAreServed, StopsForget, files, world
<1>3. CASE Argus
  <2> USE <1>3 DEF Argus, ArgusChanges, ArgusRestarts, ArgusSweeps, process, files
  <2>1. TypeOK'
    BY FaultType DEF TypeOK
  <2>2. PhasesAgree' /\ TokenIsMadeAlone'
    BY DEF PhasesAgree, TokenIsMadeAlone, Creating
  <2>3. \A d \in Daemons, t \in Tools : registry'[t] = d => registry[t] = d
    BY DEF TypeOK
  <2>4. CallbacksAreServed' /\ StopsForget'
    BY <2>3 DEF CallbacksAreServed, StopsForget
  <2> QED
    BY <2>1, <2>2, <2>4
<1>4. CASE UNCHANGED vars
  BY <1>4 DEF vars, process, files, world, TypeOK, PhasesAgree, TokenIsMadeAlone, Creating, CallbacksAreServed, StopsForget
<1> QED
  BY <1>1, <1>2, <1>3, <1>4

\* The invariant is inductive.
LEMMA NextKeepsIInv == ASSUME IInv, [Next]_vars PROVE IInv'
<1>1. ASSUME NEW d \in Daemons, Configure(d) \/ Startup(d) PROVE IInv'
  BY <1>1, ChecksKeepIInv, TokenKeepsIInv, RegisterKeepsIInv, RunKeepsIInv DEF Startup
<1>2. ASSUME NEW d \in Daemons, Heartbeat(d) \/ LeaveSelect(d) \/ Stopping(d) PROVE IInv'
  BY <1>2, HeartbeatKeepsIInv, StopKeepsIInv, RunKeepsIInv, RestKeepsIInv DEF Stopping
<1> QED
  BY <1>1, <1>2, RestKeepsIInv DEF Next

\* Every state satisfies the invariant.
LEMMA SpecIInv == Spec => []IInv
  BY InitIInv, NextKeepsIInv, PTL DEF Spec

\* Every variable has its type.
THEOREM TypeCorrect == Spec => []TypeOK
<1>1. IInv => TypeOK
  BY DEF IInv
<1> QED
  BY <1>1, SpecIInv, PTL

\* The token a daemon serves is the token on file, unless two starts made one at once
\* or one could not read it.
THEOREM TokenIsOnFile == Spec => []TokenOnFile
<1>1. IInv => TokenOnFile
  BY DEF IInv, TokenIsMadeAlone, TokenOnFile
<1> QED
  BY <1>1, SpecIInv, PTL

\* What argus has registered of a running process leads to an open listener, but for the
\* tools of a start that failed at a later one and of a stop whose DELETEs argus missed.
THEOREM CallbacksServed == Spec => []CallbacksAreServed
<1>1. IInv => CallbacksAreServed
  BY DEF IInv
<1> QED
  BY <1>1, SpecIInv, PTL

\* No step of another daemon takes a tool away, if none listens at another address.
LEMMA OthersKeepTools ==
    ASSUME IInv, NEW d \in bound, NEW t \in Tools, registry[t] = d,
           NEW e \in Daemons, e # d, ~\E f \in bound : addr[f] # addr[d],
           \/ Configure(e) \/ Startup(e) \/ Heartbeat(e) \/ LinkLost(e)
           \/ LeaveSelect(e) \/ Stopping(e) \/ Signal(e) \/ Crash(e)
    PROVE  registry'[t] = d
<1> USE DEF IInv
<1>1. e \notin bound /\ d \in Daemons
  BY DEF CallbacksAreServed, TypeOK
<1>2. phase[e] \notin Listening /\ beat[e] = 0
  BY <1>1 DEF PhasesAgree, Listening, Beating, TypeOK
<1>3. ASSUME NEW how, Exit(e, how) PROVE registry'[t] = d
  BY <1>3 DEF Exit
<1>4. CASE CheckFails(e) \/ ListenFails(e) \/ Drained(e) \/ Crash(e)
  BY <1>3, <1>4 DEF CheckFails, ListenFails, Drained, Crash
<1>5. ~RegisterTool(e) /\ ~RegisterFails(e) /\ ~DeleteTool(e) /\ ~HeartbeatPost(e) /\ ~Close(e)
  BY <1>2 DEF RegisterTool, RegisterFails, DeleteTool, HeartbeatPost, Close, Goto, Listening
<1>6. CASE \/ Configure(e) \/ ReadHookToken(e) \/ TruncateTokenFile(e) \/ WriteHookToken(e)
           \/ Listen(e) \/ TakeLock(e) \/ LockFails(e) \/ HeartbeatTick(e) \/ LinkLost(e)
           \/ LeaveSelect(e) \/ ReleaseLock(e) \/ JoinHeartbeat(e) \/ Signal(e)
  BY <1>6 DEF Configure, ReadHookToken, TruncateTokenFile, WriteHookToken, Listen, TakeLock, LockFails,
     HeartbeatTick, LinkLost, LeaveSelect, ReleaseLock, JoinHeartbeat, Signal, world
<1> QED
  BY <1>4, <1>5, <1>6 DEF Startup, Heartbeat, Stopping

\* A daemon's own steps take a tool away only when it unregisters or ends.
LEMMA OwnStepsKeepTools ==
    ASSUME IInv, NEW d \in Daemons, NEW t \in Tools, registry[t] = d,
           phase[d] # "deleting", phase'[d] # "off",
           \/ Configure(d) \/ Startup(d) \/ Heartbeat(d) \/ LinkLost(d)
           \/ LeaveSelect(d) \/ Stopping(d) \/ Signal(d) \/ Crash(d)
    PROVE  registry'[t] = d
<1> USE DEF IInv
<1>1. ~CheckFails(d) /\ ~ListenFails(d) /\ ~Drained(d) /\ ~Crash(d)
  BY DEF CheckFails, ListenFails, Drained, Crash, Exit, TypeOK
<1>2. CASE RegisterTool(d) \/ RegisterFails(d)
  <2>1. registry' \in {registry} \cup Asked(d, next[d], d) /\ next[d] \in Tools
    BY <1>2 DEF RegisterTool, RegisterFails, Asked, TypeOK
  <2> QED
    BY <2>1, AskedChanges
<1>3. CASE HeartbeatPost(d)
  <2>1. beat[d] \in Tools
    BY <1>3 DEF HeartbeatPost, TypeOK
  <2> QED
    BY <1>3, <2>1, AskedChanges DEF HeartbeatPost
<1>4. CASE DeleteTool(d)
  BY <1>4 DEF DeleteTool
<1>5. CASE \/ Configure(d) \/ ReadHookToken(d) \/ TruncateTokenFile(d) \/ WriteHookToken(d)
           \/ Listen(d) \/ TakeLock(d) \/ LockFails(d) \/ HeartbeatTick(d) \/ LinkLost(d)
           \/ LeaveSelect(d) \/ ReleaseLock(d) \/ JoinHeartbeat(d) \/ Close(d) \/ Signal(d)
  BY <1>5 DEF Configure, ReadHookToken, TruncateTokenFile, WriteHookToken, Listen, TakeLock, LockFails,
     HeartbeatTick, LinkLost, LeaveSelect, ReleaseLock, JoinHeartbeat, Close, Signal, world
<1> QED
  BY <1>1, <1>2, <1>3, <1>4, <1>5 DEF Startup, Heartbeat, Stopping

\* No start and no stop takes the tools of another daemon with the same address.
THEOREM ToolsMaintained == Spec => RegistrationsMaintained
<1> DEFINE Kept == \A d \in bound, t \in Tools :
                      registry[t] = d /\ registry'[t] # d =>
                         \/ Argus \/ phase[d] = "deleting" \/ phase'[d] = "off"
                         \/ \E e \in bound : addr[e] # addr[d]
<1>1. ASSUME IInv, [Next]_vars PROVE [Kept]_vars
  <2> SUFFICES ASSUME Next, NEW d \in bound, NEW t \in Tools, registry[t] = d, registry'[t] # d,
                      ~Argus, phase[d] # "deleting", phase'[d] # "off",
                      ~\E e \in bound : addr[e] # addr[d]
               PROVE  FALSE
    BY <1>1
  <2>1. PICK e \in Daemons : \/ Configure(e) \/ Startup(e) \/ Heartbeat(e) \/ LinkLost(e)
                             \/ LeaveSelect(e) \/ Stopping(e) \/ Signal(e) \/ Crash(e)
    BY DEF Next
  <2>2. d \in Daemons
    BY <1>1 DEF IInv, TypeOK
  <2>3. CASE e = d
    BY <1>1, <2>1, <2>2, <2>3, OwnStepsKeepTools
  <2>4. CASE e # d
    BY <1>1, <2>1, <2>4, OthersKeepTools
  <2> QED
    BY <2>3, <2>4
<1> QED
  BY <1>1, SpecIInv, PTL DEF Spec, RegistrationsMaintained

\* A step that touches the token file is one of the start that makes its token.
LEMMA StepsKeepToken ==
    ASSUME IInv, NEW d \in Daemons, ~mishap', tokenFile # Nothing,
           \/ Configure(d) \/ Startup(d) \/ Heartbeat(d) \/ LinkLost(d)
           \/ LeaveSelect(d) \/ Stopping(d) \/ Signal(d) \/ Crash(d)
    PROVE  tokenFile' = tokenFile
<1>1. ~(TruncateTokenFile(d) \/ WriteHookToken(d))
  <2> SUFFICES ASSUME TruncateTokenFile(d) \/ WriteHookToken(d) PROVE FALSE
    OBVIOUS
  <2>1. UNCHANGED mishap /\ (phase[d] = "create" \/ phase[d] = "truncated")
    BY Zenon DEF TruncateTokenFile, WriteHookToken, Goto
  <2> QED
    BY <2>1 DEF IInv, TokenIsMadeAlone, Creating
<1>2. ASSUME NEW how, Exit(d, how) PROVE tokenFile' = tokenFile
  BY <1>2 DEF Exit
<1>3. CASE CheckFails(d) \/ ListenFails(d) \/ Drained(d) \/ Crash(d)
  BY <1>2, <1>3 DEF CheckFails, ListenFails, Drained, Crash
<1>4. CASE \/ Configure(d) \/ ReadHookToken(d) \/ Listen(d) \/ RegisterTool(d) \/ RegisterFails(d) \/ TakeLock(d)
           \/ LockFails(d) \/ HeartbeatTick(d) \/ HeartbeatPost(d) \/ LinkLost(d) \/ LeaveSelect(d)
           \/ ReleaseLock(d) \/ JoinHeartbeat(d) \/ DeleteTool(d) \/ Close(d) \/ Signal(d)
  BY <1>4 DEF Configure, ReadHookToken, Listen, RegisterTool, RegisterFails, Close, TakeLock, LockFails, HeartbeatTick, HeartbeatPost,
     LinkLost, LeaveSelect, ReleaseLock, JoinHeartbeat, DeleteTool, Signal, files
<1> QED
  BY <1>1, <1>3, <1>4 DEF Startup, Heartbeat, Stopping

\* A token on file outlives every start, crash and stop of any number of daemons.
THEOREM TokenStays == Spec => TokenIsKept
<1>1. ASSUME IInv, [Next]_vars PROVE [~mishap' /\ tokenFile # Nothing => tokenFile' = tokenFile]_vars
  <2> SUFFICES ASSUME Next, ~mishap', tokenFile # Nothing PROVE tokenFile' = tokenFile
    BY <1>1
  <2>1. CASE Argus
    BY <2>1 DEF Argus, ArgusChanges, ArgusRestarts, ArgusSweeps, files
  <2> QED
    BY <1>1, <2>1, StepsKeepToken DEF Next
<1> QED
  BY <1>1, SpecIInv, PTL DEF Spec, TokenIsKept
=============================================================================
