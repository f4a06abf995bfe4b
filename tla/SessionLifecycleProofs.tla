----------------------- MODULE SessionLifecycleProofs -----------------------
(* The promise keeps itself: its answers are true and never go back. *)
EXTENDS SessionLifecycle, TLAPS

\* Neither conjunct is inductive alone: that Tell gives a known answer needs
\* that a session somebody knows of was begun.
IInv == TypeOK /\ AnswersAreTrue

\* Every session is in a known state, every answer is a known one, and it was
\* true when it was given: a verdict that was told is the session's verdict, or
\* was until the session was forgotten.
THEOREM TrueAnswers == Spec => []IInv
<1>1. Init => IInv
  BY DEF Init, IInv, TypeOK, AnswersAreTrue, States, Answers, Resolved
<1>2. IInv /\ [Next]_vars => IInv'
  <2> SUFFICES ASSUME IInv, [Next]_vars PROVE IInv'
    OBVIOUS
  <2> USE DEF IInv, TypeOK, AnswersAreTrue, States, Answers, Resolved
  <2>1. ASSUME NEW s \in Sessions, Refuse(s) PROVE IInv'
    BY <2>1 DEF Refuse
  <2>2. ASSUME NEW s \in Sessions, Begin(s) PROVE IInv'
    BY <2>2 DEF Begin
  <2>3. ASSUME NEW s \in Sessions, Resolve(s) PROVE IInv'
    BY <2>3 DEF Resolve
  <2>4. CASE Expire
    BY <2>4 DEF Expire
  <2>5. ASSUME NEW s \in Sessions, FirstReply(s) PROVE IInv'
    BY <2>5 DEF FirstReply
  <2>6. ASSUME NEW s \in Sessions, Tell(s) PROVE IInv'
    BY <2>6 DEF Tell
  <2>7. CASE UNCHANGED vars
    BY <2>7 DEF vars
  <2> QED
    BY <2>1, <2>2, <2>3, <2>4, <2>5, <2>6, <2>7 DEF Next
<1> QED
  BY <1>1, <1>2, PTL DEF Spec

\* After a verdict nobody is told anything but that verdict or "unknown", and
\* after "unknown" nobody is told anything else.
THEOREM AnswersNeverGoBack == Spec => AnswersMoveForward
<1>1. IInv /\ [Next]_vars =>
         [\A s \in Sessions : MayFollow(told[s], told'[s])]_vars
  <2> SUFFICES ASSUME IInv, Next, NEW t \in Sessions
               PROVE MayFollow(told[t], told'[t])
    BY DEF vars
  <2> USE DEF IInv, TypeOK, AnswersAreTrue, MayFollow, States, Answers, Resolved
  <2>1. ASSUME NEW s \in Sessions, Refuse(s) PROVE MayFollow(told[t], told'[t])
    BY <2>1 DEF Refuse
  <2>2. CASE UNCHANGED told
    BY <2>2
  <2>3. ASSUME NEW s \in Sessions, FirstReply(s) PROVE MayFollow(told[t], told'[t])
    BY <2>3 DEF FirstReply
  <2>4. ASSUME NEW s \in Sessions, Tell(s) PROVE MayFollow(told[t], told'[t])
    BY <2>4 DEF Tell
  <2> QED
    BY <2>1, <2>2, <2>3, <2>4 DEF Next, Begin, Resolve, Expire
<1> QED
  BY <1>1, TrueAnswers, PTL DEF Spec, AnswersMoveForward
=============================================================================
