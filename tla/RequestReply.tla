---------------------------- MODULE RequestReply -----------------------------
(***************************************************************************)
(* What ExtensionConn promises the goroutines that call Send: a call       *)
(* returns an answer only if the other side answered that very call, it    *)
(* returns "down" only once the connection is down, and nothing is called  *)
(* on a connection that is down.                                           *)
(***************************************************************************)
EXTENDS Naturals

CONSTANT Callers

VARIABLES
    calling,   \* the callers inside a call
    seq,       \* how many calls each caller has made
    answered,  \* the calls the other side has answered
    outcome,   \* how each caller's last call ended
    down       \* the connection is down for good

vars == <<calling, seq, answered, outcome, down>>

Init ==
    /\ calling = {}
    /\ seq = [c \in Callers |-> 0]
    /\ answered = {}
    /\ outcome = [c \in Callers |-> "none"]
    /\ down = FALSE

Invoke(c) ==
    /\ ~down
    /\ c \notin calling
    /\ calling' = calling \cup {c}
    /\ seq' = [seq EXCEPT ![c] = @ + 1]
    /\ outcome' = [outcome EXCEPT ![c] = "none"]
    /\ UNCHANGED <<answered, down>>

Refuse(c) ==
    /\ down
    /\ c \notin calling
    /\ outcome' = [outcome EXCEPT ![c] = "down"]
    /\ UNCHANGED <<calling, seq, answered, down>>

\* The other side may answer a call that has already returned.
Answer(c, n) ==
    /\ n \in 1 .. seq[c]
    /\ answered' = answered \cup {<<c, n>>}
    /\ UNCHANGED <<calling, seq, outcome, down>>

Return(c, how) ==
    /\ c \in calling
    /\ calling' = calling \ {c}
    /\ outcome' = [outcome EXCEPT ![c] = how]
    /\ UNCHANGED <<seq, answered, down>>

ReturnAnswer(c) == <<c, seq[c]>> \in answered /\ Return(c, "answer")

ReturnDown(c) == down /\ Return(c, "down")

\* The caller gave up, or the request could not be encoded or written.
ReturnError(c) == Return(c, "error")

GoDown == down' = TRUE /\ UNCHANGED <<calling, seq, answered, outcome>>

Next ==
    \/ \E c \in Callers :
           \/ Invoke(c) \/ Refuse(c)
           \/ \E n \in 1 .. seq[c] : Answer(c, n)
           \/ ReturnAnswer(c) \/ ReturnDown(c) \/ ReturnError(c)
    \/ GoDown

Spec == Init /\ [][Next]_vars

\* A call on a connection that went down returns; so does one that is answered.
DownReturns   == \A c \in Callers : WF_vars(ReturnDown(c))
AnswersReturn == \A c \in Callers : WF_vars(ReturnAnswer(c) \/ ReturnDown(c))

==============================================================================
