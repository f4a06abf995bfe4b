-------------------------- MODULE SessionLifecycle --------------------------
(***************************************************************************)
(* What the session tools promise a client, with no goroutine, lock,       *)
(* channel or clock: a session is begun, resolves once, and is forgotten   *)
(* some time after it resolved; a client is told where the session stands  *)
(* at the moment it asks.  Only the first reply, the envelope of the tool   *)
(* that starts a session, may be out of date, and then it says "pending".  *)
(* Sessions.tla implements this specification.                             *)
(***************************************************************************)

CONSTANT Sessions  \* the calls of a session-starting tool; each names the session it creates

VARIABLES
    state,  \* [Sessions -> States]: where each session stands
    told    \* [Sessions -> Answers]: the last answer given to any client about it

vars == <<state, told>>

Resolved == {"complete", "failed"}
States   == {"none", "pending", "gone"} \cup Resolved
Answers  == {"nothing", "refused", "pending", "unknown"} \cup Resolved

TypeOK ==
    /\ state \in [Sessions -> States]
    /\ told \in [Sessions -> Answers]

Init ==
    /\ state = [s \in Sessions |-> "none"]
    /\ told = [s \in Sessions |-> "nothing"]

-----------------------------------------------------------------------------
\* The subprocess cannot be spawned: the caller gets an error and no session.
Refuse(s) ==
    /\ state[s] = "none" /\ told[s] = "nothing"
    /\ told' = [told EXCEPT ![s] = "refused"]
    /\ UNCHANGED state

Begin(s) ==
    /\ state[s] = "none" /\ told[s] = "nothing"
    /\ state' = [state EXCEPT ![s] = "pending"]
    /\ UNCHANGED told

\* The subprocess has ended; a resolved session never resolves again.
Resolve(s) ==
    /\ state[s] = "pending"
    /\ \E r \in Resolved : state' = [state EXCEPT ![s] = r]
    /\ UNCHANGED told

\* One sweep of the collector forgets any number of resolved sessions.
Expire ==
    /\ \E old \in SUBSET {s \in Sessions : state[s] \in Resolved} :
          state' = [s \in Sessions |-> IF s \in old THEN "gone" ELSE state[s]]
    /\ UNCHANGED told

\* The envelope: it is the only answer that may be stale.
FirstReply(s) ==
    /\ told[s] = "nothing"
    /\ state[s] \in {"pending", "gone"} \cup Resolved
    /\ \E a \in {"pending"} \cup ({state[s]} \ {"gone"}) : told' = [told EXCEPT ![s] = a]
    /\ UNCHANGED state

\* A client that knows the session asks for it.
Tell(s) ==
    /\ told[s] \notin {"nothing", "refused"}
    /\ told' = [told EXCEPT ![s] = IF state[s] = "gone" THEN "unknown" ELSE state[s]]
    /\ UNCHANGED state

Next ==
    \/ \E s \in Sessions : Refuse(s) \/ Begin(s) \/ Resolve(s) \/ FirstReply(s) \/ Tell(s)
    \/ Expire

Spec == Init /\ [][Next]_vars

-----------------------------------------------------------------------------
\* The order in which answers about one session may follow each other.
MayFollow(earlier, later) ==
    \/ later = earlier
    \/ earlier = "nothing"
    \/ earlier = "pending" /\ later \in Resolved \cup {"unknown"}
    \/ earlier \in Resolved /\ later = "unknown"

\* Answers about a session never go back, whoever asks: after a verdict nobody
\* is told "pending" or the other verdict, and after "unknown" nobody is told
\* anything else (session_store.go: Get, WaitForResolution, GC).
AnswersMoveForward ==
    [][\A s \in Sessions : MayFollow(told[s], told'[s])]_vars

\* What ties an answer to the session it is about; with it AnswersMoveForward
\* is inductive.
AnswersAreTrue ==
    \A s \in Sessions :
        /\ told[s] \in {"nothing", "refused"} \/ state[s] # "none"
        /\ told[s] = "refused" => state[s] = "none"
        /\ told[s] \in Resolved => state[s] \in {told[s], "gone"}
        /\ told[s] = "unknown" => state[s] = "gone"
=============================================================================
