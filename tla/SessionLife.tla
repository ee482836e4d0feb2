----------------------------- MODULE SessionLife ------------------------------
(***************************************************************************)
(* What the CDP client may rely on about the sessions of tabs, whatever    *)
(* goroutines, replies and losses do in between: an id names one session   *)
(* of one tab, once; the client is told only of sessions there have been,  *)
(* and of the end of one only when it is gone, for good.                   *)
(*                                                                         *)
(* It is not promised that the beginning is told before the end: both are  *)
(* emitted with m.mu released.  BrowserModel and Routing implement this.   *)
(***************************************************************************)
CONSTANTS
    Tabs,  \* tab ids
    None   \* no session

VARIABLES
    session,  \* the session of each tab, None if it has none
    lived,    \* the sessions there have been
    told,     \* the sessions that the client has been told of
    over      \* the sessions that the client has been told the end of

vars == <<session, lived, told, over>>

Init ==
    /\ session = [t \in Tabs |-> None]
    /\ lived = {} /\ told = {} /\ over = {}

\* A tab without a session gets one, with an id never used before.
Begins(t) ==
    /\ session[t] = None
    /\ session' = [session EXCEPT ![t] = session'[t]]
    /\ session'[t] \notin lived \cup {None}
    /\ lived' = lived \cup {session'[t]}
    /\ UNCHANGED <<told, over>>

Finishes(t) ==
    /\ session' = [session EXCEPT ![t] = None]
    /\ UNCHANGED <<lived, told, over>>

IsTold(s) ==
    /\ told' = told \cup {s}
    /\ UNCHANGED <<session, lived, over>>

IsOver(s) ==
    /\ \A t \in Tabs : session[t] # s
    /\ over' = over \cup {s}
    /\ UNCHANGED <<session, lived, told>>

Next ==
    \/ \E t \in Tabs : Begins(t) \/ Finishes(t)
    \/ \E s \in lived : IsTold(s) \/ IsOver(s)

Spec == Init /\ [][Next]_vars

==============================================================================
