----------------------------- MODULE NetworkLog ------------------------------
(***************************************************************************)
(* What the listener of initObservers (page_state.go) keeps of the network *)
(* and of the console.  The tools that list them (networkRequests and      *)
(* BrowserConsoleMessages in mcp_tools.go) only read, and are left out.    *)
(*                                                                         *)
(* Chrome is external.  It sends a redirected request again under the same *)
(* id, and the event that announces the next hop carries the answer to the *)
(* one before.  The events of several requests interleave, and reach the   *)
(* listener in the order they were sent.  "hops" and "said" are what has   *)
(* really happened since the observers were set up.                        *)
(***************************************************************************)
EXTENDS Naturals, Sequences

CONSTANTS
    RequestIDs,   \* network.RequestID
    Unlogged,     \* the requests begun before the observers were set up
    MaxHops,      \* bound on the hops
    MaxSaid,      \* bound on the console messages
    MaxLoaded     \* bound on the navigations of the main frame

ASSUME LogAssumption ==
    /\ Unlogged \subseteq RequestIDs
    /\ {MaxHops, MaxSaid, MaxLoaded} \subseteq Nat

VARIABLES
    requests,     \* s.requests
    requestByID,  \* s.requestByID: where the entry of an id is, 0 if there is none
    console,      \* s.console: the navigation that each message is filed under
    counted,      \* s.navigation
    hops,         \* Chrome: the requests, and their redirects, as they were sent
    phase,        \* Chrome: how far each request has come
    said,         \* Chrome: the document that wrote each message
    loaded,       \* Chrome: how often the main frame has navigated
    sent          \* Chrome: events under way to the listener

logVars == <<requests, requestByID, console, counted, hops, phase, said, loaded, sent>>

\* An entry of the log: the answer and the outcome of one hop.
Entry(id, response, outcome) == [id |-> id, response |-> response, outcome |-> outcome]

NetworkEvent(kind, id, redirect) == [kind |-> kind, id |-> id, redirect |-> redirect]

------------------------------------------------------------------------------
(* Chrome *)

Answered(list, i, response) == [list EXCEPT ![i].response = response]
Ended(list, i, outcome) == [list EXCEPT ![i].outcome = outcome]

\* What becomes of the last hop of a request, if the observers have seen one.
HopsOf(id) == {i \in DOMAIN hops : hops[i].id = id}
LastHop(id) == CHOOSE i \in HopsOf(id) : \A j \in HopsOf(id) : j <= i

Sends(e) == sent' = Append(sent, e)

Starts(id) ==
    /\ phase[id] = "new"
    /\ Len(hops) < MaxHops
    /\ phase' = [phase EXCEPT ![id] = "pending"]
    /\ hops' = Append(hops, Entry(id, "none", "none"))
    /\ Sends(NetworkEvent("willBeSent", id, FALSE))
    /\ UNCHANGED <<requests, requestByID, console, counted, said, loaded>>

Redirects(id) ==
    /\ phase[id] = "pending"
    /\ Len(hops) < MaxHops
    /\ LET before == IF HopsOf(id) = {} THEN hops
                     ELSE Ended(Answered(hops, LastHop(id), "redirect"), LastHop(id), "finished")
       IN  hops' = Append(before, Entry(id, "none", "none"))
    /\ Sends(NetworkEvent("willBeSent", id, TRUE))
    /\ UNCHANGED <<requests, requestByID, console, counted, phase, said, loaded>>

Responds(id) ==
    /\ phase[id] = "pending"
    /\ phase' = [phase EXCEPT ![id] = "answered"]
    /\ hops' = IF HopsOf(id) = {} THEN hops ELSE Answered(hops, LastHop(id), "final")
    /\ Sends(NetworkEvent("responseReceived", id, FALSE))
    /\ UNCHANGED <<requests, requestByID, console, counted, said, loaded>>

Completes(id, outcome) ==
    /\ phase[id] = "answered" \/ (phase[id] = "pending" /\ outcome = "failed")
    /\ phase' = [phase EXCEPT ![id] = "over"]
    /\ hops' = IF HopsOf(id) = {} THEN hops ELSE Ended(hops, LastHop(id), outcome)
    /\ Sends(NetworkEvent(outcome, id, FALSE))
    /\ UNCHANGED <<requests, requestByID, console, counted, said, loaded>>

Says ==
    /\ Len(said) < MaxSaid
    /\ said' = Append(said, loaded)
    /\ Sends(NetworkEvent("console", "none", FALSE))
    /\ UNCHANGED <<requests, requestByID, console, counted, hops, phase, loaded>>

Loads ==
    /\ loaded < MaxLoaded
    /\ loaded' = loaded + 1
    /\ Sends(NetworkEvent("navigated", "none", FALSE))
    /\ UNCHANGED <<requests, requestByID, console, counted, hops, phase, said>>

ChromeLogs ==
    \/ \E id \in RequestIDs :
           Starts(id) \/ Redirects(id) \/ Responds(id) \/ \E o \in {"finished", "failed"} : Completes(id, o)
    \/ Says
    \/ Loads

------------------------------------------------------------------------------
(* The listener; each event is handled under s.mu. *)

Handles(kind) ==
    /\ sent # <<>>
    /\ Head(sent).kind = kind
    /\ sent' = Tail(sent)

\* A redirect is the answer to the entry before the new one.
Settle(list, i) == Ended(Answered(list, i, "redirect"), i, "finished")

\* Mutants: the new entry is stored first and settled by its own redirect; the
\* first entry of an id stays the one that is found.
LogThenSettle(e) ==
    /\ LET added == Append(requests, Entry(e.id, "none", "none"))
       IN  requests' = IF e.redirect /\ requestByID[e.id] # 0 THEN Settle(added, Len(added)) ELSE added
    /\ requestByID' = [requestByID EXCEPT ![e.id] = Len(requests')]

LogFirst(e) ==
    /\ requests' = Append(IF e.redirect /\ requestByID[e.id] # 0
                          THEN Settle(requests, requestByID[e.id])
                          ELSE requests,
                          Entry(e.id, "none", "none"))
    /\ requestByID' = [requestByID EXCEPT ![e.id] = IF @ = 0 THEN Len(requests') ELSE @]

\* requestWillBeSent
Log(e) ==
    /\ requests' = Append(IF e.redirect /\ requestByID[e.id] # 0
                          THEN Settle(requests, requestByID[e.id])
                          ELSE requests,
                          Entry(e.id, "none", "none"))
    /\ requestByID' = [requestByID EXCEPT ![e.id] = Len(requests')]

OnRequestWillBeSent ==
    /\ Handles("willBeSent")
    /\ Log(Head(sent))
    /\ UNCHANGED <<console, counted, hops, phase, said, loaded>>

OnResponseReceived ==
    /\ Handles("responseReceived")
    /\ LET i == requestByID[Head(sent).id]
       IN  requests' = IF i = 0 THEN requests ELSE Answered(requests, i, "final")
    /\ UNCHANGED <<requestByID, console, counted, hops, phase, said, loaded>>

\* loadingFinished, loadingFailed.
OnLoadingEnded(outcome) ==
    /\ Handles(outcome)
    /\ LET i == requestByID[Head(sent).id]
       IN  requests' = IF i = 0 THEN requests ELSE Ended(requests, i, outcome)
    /\ UNCHANGED <<requestByID, console, counted, hops, phase, said, loaded>>

\* consoleAPICalled, exceptionThrown and entryAdded.
OnConsole ==
    /\ Handles("console")
    /\ console' = Append(console, counted)
    /\ UNCHANGED <<requests, requestByID, counted, hops, phase, said, loaded>>

OnNavigated ==
    /\ Handles("navigated")
    /\ counted' = counted + 1
    /\ UNCHANGED <<requests, requestByID, console, hops, phase, said, loaded>>

------------------------------------------------------------------------------

LogInit ==
    /\ requests = <<>> /\ requestByID = [id \in RequestIDs |-> 0]
    /\ console = <<>> /\ counted = 0
    /\ hops = <<>> /\ said = <<>> /\ loaded = 0 /\ sent = <<>>
    /\ phase = [id \in RequestIDs |-> IF id \in Unlogged THEN "pending" ELSE "new"]

LogNext ==
    \/ ChromeLogs
    \/ OnRequestWillBeSent \/ OnResponseReceived
    \/ OnLoadingEnded("finished") \/ OnLoadingEnded("failed")
    \/ OnConsole \/ OnNavigated

LogSpec == LogInit /\ [][LogNext]_logVars

------------------------------------------------------------------------------
(* Properties *)

\* The log has an entry for each hop, in Chrome's order and under the numbers
\* that BrowserNetworkRequests has shown and BrowserNetworkRequest takes; what an
\* entry says is what became of that very hop, though all hops of a request share
\* one id, requests interleave, and some began unseen.  Console messages are filed
\* under the document that wrote them.  What is still under way is all that the
\* log lacks.
LogTellsTruth ==
    /\ \A i \in DOMAIN requests :
           /\ i \in DOMAIN hops /\ requests[i].id = hops[i].id
           /\ requests[i].response \in {"none", hops[i].response}
           /\ requests[i].outcome \in {"none", hops[i].outcome}
    /\ \A i \in DOMAIN console : i \in DOMAIN said /\ console[i] = said[i]
    /\ sent = <<>> => requests = hops /\ console = said
==============================================================================
