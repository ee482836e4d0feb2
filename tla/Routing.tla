------------------------------- MODULE Routing -------------------------------
(***************************************************************************)
(* The way of a CDP command and of a debugger event between the CDP client *)
(* and the tabs: handleCDP and cdpWriter of internal/relay/server.go, the  *)
(* dispatch of internal/protocol/handler.go, and OnDebuggerEvent, Forward, *)
(* AttachToTarget of internal/protocol/browser_model.go.                   *)
(*                                                                         *)
(* Every request of the client has a goroutine of its own.  It looks the   *)
(* session up under m.mu and sends the command after the unlock.  The      *)
(* reader (ExtensionConn.Run) handles the extension's messages one at a    *)
(* time and writes events to the client itself, so that a client that does *)
(* not read holds it up.  BrowserModel has the attaching of tabs in detail *)
(* and gives its result here: one goroutine at a time attaches a tab.      *)
(***************************************************************************)
EXTENDS Naturals, Sequences, FiniteSets

CONSTANTS
    Tabs,         \* tab ids
    Children,     \* child sessions Chrome creates for the tabs
    Requests,     \* requests of the CDP client
    MaxSessions,  \* bound on the top-level sessions
    None          \* no session, no tab, no request

ASSUME RoutingAssumption ==
    /\ MaxSessions \in Nat
    /\ None \notin Tabs \cup Children \cup Requests \cup Nat
    /\ Tabs \cap Children = {} /\ Tabs \cap Nat = {} /\ Children \cap Nat = {}

VARIABLES
    sessions,  \* m.sessions: the session id of each tab, None if it has none
    children,  \* childSessions of the session of each tab
    nextID,    \* m.nextID
    making,    \* how far the goroutine that attaches each tab has come
    sid,       \* the session it has made
    emitting,  \* what the reader has to write to the client
    pc,        \* where the goroutine of each request is
    names,     \* the session that it names, or None
    route,     \* the tab and the child session it is sent to
    result,    \* what the client will be answered
    debugged,  \* Chrome: tabs with our debugger attached
    alive,     \* Chrome: child sessions that exist
    inbox,     \* messages under way to the reader
    wire,      \* commands under way to Chrome, which executes them in any order
    home,      \* history: the tab of each session and child session
    reported,  \* history: sessions the client has been told of
    ended,     \* history: sessions the client has been told the end of
    removed,   \* history: sessions taken out of the model
    late,      \* history: requests for a session whose end had been told
    ahead      \* history: events Chrome sent before the reply, not yet written

modelVars   == <<sessions, children, nextID>>
attachVars  == <<making, sid>>
requestVars == <<pc, names, route, result>>
chromeVars  == <<debugged, alive>>
historyVars == <<home, reported, ended, removed, late, ahead>>
vars == <<modelVars, attachVars, emitting, requestVars, chromeVars, inbox, wire,
          historyVars>>

Ids == 1 .. MaxSessions
Named == Ids \cup Children

\* A message of the extension: about a tab, and a child session or a request.
Message(kind, t, x) == [kind |-> kind, tab |-> t, what |-> x]
IsEvent(m) == m.kind \in {"attached", "detached", "removed"}
Nothing == Message("none", None, None)

EventsAhead ==
    Cardinality({i \in DOMAIN inbox : IsEvent(inbox[i])}) + (IF emitting = Nothing THEN 0 ELSE 1)

------------------------------------------------------------------------------
(* attachTab, as far as requests and events can tell *)

\* Chrome attaches the debugger, and answers in order with its events.
Attach(t) ==
    /\ making[t] = "no" /\ sessions[t] = None /\ t \notin debugged
    /\ nextID + Cardinality({u \in Tabs : making[u] = "asked"}) <= MaxSessions
    /\ making' = [making EXCEPT ![t] = "asked"]
    /\ debugged' = debugged \cup {t}
    /\ inbox' = Append(inbox, Message("answer", t, None))
    /\ UNCHANGED <<modelVars, sid, emitting, requestVars, alive, wire, historyVars>>

Commit(t) ==
    /\ making[t] = "commit"
    /\ making' = [making EXCEPT ![t] = "emit"]
    /\ sessions' = [sessions EXCEPT ![t] = sid[t]]
    /\ children' = [children EXCEPT ![t] = {}]
    /\ UNCHANGED <<nextID, sid, emitting, requestVars, chromeVars, inbox, wire,
                   historyVars>>

EmitAttached(t) ==
    /\ making[t] = "emit"
    /\ making' = [making EXCEPT ![t] = "no"]
    /\ sid' = [sid EXCEPT ![t] = None]
    /\ reported' = reported \cup {sid[t]}
    /\ UNCHANGED <<modelVars, emitting, requestVars, chromeVars, inbox, wire,
                   home, ended, removed, late, ahead>>

------------------------------------------------------------------------------
(* The reader *)

\* Mutant: events are written by a goroutine of their own.
ReadsOn(kind) ==
    /\ emitting = Nothing \/ kind \in {"ok", "error"}
    /\ inbox # <<>>
    /\ Head(inbox).kind = kind
    /\ inbox' = Tail(inbox)

Reads(kind) ==
    /\ emitting = Nothing
    /\ inbox # <<>>
    /\ Head(inbox).kind = kind
    /\ inbox' = Tail(inbox)

\* Mutant: the id is the number of sessions plus one, instead of m.nextID.
NumberOfSessions == 1 + Cardinality({t \in Tabs : sessions[t] # None})

NewSession == nextID

\* The attach has been answered, and takes a session id.
AttachAnswered ==
    /\ Reads("answer")
    /\ LET t == Head(inbox).tab
       IN  /\ making' = [making EXCEPT ![t] = "commit"]
           /\ sid' = [sid EXCEPT ![t] = NewSession]
           /\ home' = [home EXCEPT ![NewSession] = t]
    /\ nextID' = nextID + 1
    /\ UNCHANGED <<sessions, children, emitting, requestVars, chromeVars, wire,
                   reported, ended, removed, late, ahead>>

\* The reply finds its Send, unless that has given up.
Replied(outcome) ==
    /\ Reads(outcome)
    /\ LET r == Head(inbox).what
       IN  IF pc[r] = "sent"
           THEN /\ pc' = [pc EXCEPT ![r] = "write"]
                /\ result' = [result EXCEPT ![r] = outcome]
           ELSE UNCHANGED <<pc, result>>
    /\ UNCHANGED <<modelVars, attachVars, emitting, names, route, chromeVars, wire,
                   historyVars>>

\* An event of which nothing is left to write counts as written.
Written == ahead' = [r \in Requests |-> IF ahead[r] = 0 THEN 0 ELSE ahead[r] - 1]

\* Mutants: a child session is stored under no session; the end of one is not.
ChildUnstored(t, c) == UNCHANGED children
ChildKept(t, c) == UNCHANGED <<children, removed>>

StoreChild(t, c) == children' = [children EXCEPT ![t] = @ \cup {c}]

DropChild(t, c) ==
    /\ children' = [children EXCEPT ![t] = @ \ {c}]
    /\ removed' = removed \cup {c}

\* OnDebuggerEvent: an event of a tab without a session is dropped.
OnChildAttached ==
    /\ Reads("attached")
    /\ LET m == Head(inbox)
       IN  IF sessions[m.tab] = None
           THEN Written /\ UNCHANGED <<children, emitting>>
           ELSE StoreChild(m.tab, m.what) /\ emitting' = m /\ UNCHANGED ahead
    /\ UNCHANGED <<sessions, nextID, attachVars, requestVars, chromeVars, wire,
                   home, reported, ended, removed, late>>

OnChildDetached ==
    /\ Reads("detached")
    /\ LET m == Head(inbox)
       IN  IF sessions[m.tab] = None
           THEN Written /\ UNCHANGED <<children, emitting, removed>>
           ELSE DropChild(m.tab, m.what) /\ emitting' = m /\ UNCHANGED ahead
    /\ UNCHANGED <<sessions, nextID, attachVars, requestVars, chromeVars, wire,
                   home, reported, ended, late>>

\* OnDebuggerDetach and OnTabRemoved: the session goes with its child sessions.
OnDetach ==
    /\ Reads("removed")
    /\ LET t == Head(inbox).tab
       IN  IF sessions[t] = None
           THEN Written /\ UNCHANGED <<sessions, children, emitting, removed>>
           ELSE /\ sessions' = [sessions EXCEPT ![t] = None]
                /\ children' = [children EXCEPT ![t] = {}]
                /\ removed' = removed \cup {sessions[t]} \cup children[t]
                /\ emitting' = Message("removed", t, sessions[t])
                /\ UNCHANGED ahead
    /\ UNCHANGED <<nextID, attachVars, requestVars, chromeVars, wire,
                   home, reported, ended, late>>

\* The client takes the end of a tab's session for the end of its children.
Ends(m) ==
    {m.what} \cup (IF m.kind = "removed" THEN {c \in reported \cap Children : home[c] = m.tab} ELSE {})

\* emitCDP, with no lock held.  cdpWriter.Write has no deadline: the step may
\* never come if the client does not read.
Emit ==
    /\ emitting # Nothing
    /\ Written
    /\ emitting' = Nothing
    /\ IF emitting.kind = "attached"
       THEN reported' = reported \cup {emitting.what} /\ UNCHANGED ended
       ELSE ended' = ended \cup Ends(emitting) /\ UNCHANGED reported
    /\ UNCHANGED <<modelVars, attachVars, requestVars, chromeVars, inbox, wire,
                   home, removed, late>>

------------------------------------------------------------------------------
(* One request: handleCDP's goroutine, HandleCDP, Forward *)

At(r, from, to) == pc[r] = from /\ pc' = [pc EXCEPT ![r] = to]

Refuses(r) ==
    /\ pc' = [pc EXCEPT ![r] = "write"]
    /\ result' = [result EXCEPT ![r] = "refused"]

Finds(r, t, c) ==
    /\ pc' = [pc EXCEPT ![r] = "send"]
    /\ route' = [route EXCEPT ![r] = <<t, c>>]

\* A command without a session goes to any tab; one with a session is looked
\* up among the top-level sessions first.
FindAny(r) ==
    /\ pc[r] = "find" /\ names[r] = None
    /\ \/ \E t \in Tabs : sessions[t] # None /\ Finds(r, t, None) /\ UNCHANGED result
       \/ (\A t \in Tabs : sessions[t] = None) /\ Refuses(r) /\ UNCHANGED route
    /\ UNCHANGED <<modelVars, attachVars, emitting, names, chromeVars, inbox, wire,
                   historyVars>>

FindSession(r) ==
    /\ pc[r] = "find" /\ names[r] \in Named
    /\ \/ \E t \in Tabs : sessions[t] = names[r] /\ Finds(r, t, None)
       \/ /\ \A t \in Tabs : sessions[t] # names[r]
          /\ pc' = [pc EXCEPT ![r] = "child"]
          /\ UNCHANGED route
    /\ UNCHANGED <<modelVars, attachVars, emitting, names, result, chromeVars, inbox, wire,
                   historyVars>>

FindChild(r) ==
    /\ pc[r] = "child"
    /\ \/ \E t \in Tabs : names[r] \in children[t] /\ Finds(r, t, names[r]) /\ UNCHANGED result
       \/ (\A t \in Tabs : names[r] \notin children[t]) /\ Refuses(r) /\ UNCHANGED route
    /\ UNCHANGED <<modelVars, attachVars, emitting, names, chromeVars, inbox, wire,
                   historyVars>>

\* AttachToTarget, a request of its own, answers with the session the tab has.
AttachToTarget(t) ==
    /\ sessions[t] # None
    /\ reported' = reported \cup {sessions[t]}
    /\ UNCHANGED <<modelVars, attachVars, emitting, requestVars, chromeVars, inbox, wire,
                   home, ended, removed, late, ahead>>

\* ExtensionConn.Send; an id is used once (ExtensionConn, IdInv), so that its
\* reply is r's.
Command(r) == [by |-> r, for |-> names[r], tab |-> route[r][1], child |-> route[r][2]]

Send(r) ==
    /\ At(r, "send", "sent")
    /\ wire' = wire \cup {Command(r)}
    /\ UNCHANGED <<modelVars, attachVars, emitting, names, route, result, chromeVars, inbox,
                   historyVars>>

\* Mutant: Send waits without a deadline for a reply that has come.
ExpiresWithReply(r) ==
    /\ At(r, "sent", "write")
    /\ \E i \in DOMAIN inbox : inbox[i].what = r
    /\ UNCHANGED <<modelVars, attachVars, emitting, names, route, result, chromeVars, inbox, wire,
                   historyVars>>

\* Send returns an error: after extensionCommandTimeout, or with the request's
\* context; or the connection is closed, cannot be written to, or is lost while
\* Send waits.  A command that is written stays on its way, and its reply will
\* find nobody.
Expires(r) ==
    /\ pc[r] \in {"send", "sent"}
    /\ pc' = [pc EXCEPT ![r] = "write"]
    /\ result' = [result EXCEPT ![r] = "expired"]
    /\ UNCHANGED <<modelVars, attachVars, emitting, names, route, chromeVars, inbox, wire,
                   historyVars>>

\* The answer is written, with no deadline either.
Respond(r) ==
    /\ At(r, "write", "done")
    /\ names' = [names EXCEPT ![r] = None]
    /\ route' = [route EXCEPT ![r] = <<None, None>>]
    /\ result' = [result EXCEPT ![r] = "none"]
    /\ late' = late \ {r}
    /\ ahead' = [ahead EXCEPT ![r] = 0]
    /\ UNCHANGED <<modelVars, attachVars, emitting, chromeVars, inbox, wire, home, reported, ended, removed>>

------------------------------------------------------------------------------
(* Chrome, external *)

ChildAttaches(t, c) ==
    /\ t \in debugged /\ home[c] = None
    /\ home' = [home EXCEPT ![c] = t]
    /\ alive' = alive \cup {c}
    /\ inbox' = Append(inbox, Message("attached", t, c))
    /\ UNCHANGED <<modelVars, attachVars, emitting, requestVars, debugged, wire,
                   reported, ended, removed, late, ahead>>

ChildDetaches(c) ==
    /\ c \in alive
    /\ alive' = alive \ {c}
    /\ inbox' = Append(inbox, Message("detached", home[c], c))
    /\ UNCHANGED <<modelVars, attachVars, emitting, requestVars, debugged, wire,
                   historyVars>>

\* The tab is closed, or the user detaches the debugger.
Detaches(t) ==
    /\ t \in debugged
    /\ debugged' = debugged \ {t}
    /\ alive' = {c \in alive : home[c] # t}
    /\ inbox' = Append(inbox, Message("removed", t, None))
    /\ UNCHANGED <<modelVars, attachVars, emitting, requestVars, wire, historyVars>>

\* A command for a session that Chrome does not have fails; others may.
Execute(c) ==
    /\ c \in wire
    /\ wire' = wire \ {c}
    /\ \E outcome \in {"ok", "error"} :
          /\ outcome = "ok" => c.tab \in debugged /\ c.child \in alive \cup {None}
          /\ inbox' = Append(inbox, Message(outcome, None, c.by))
    /\ ahead' = IF pc[c.by] = "sent" THEN [ahead EXCEPT ![c.by] = EventsAhead] ELSE ahead
    /\ UNCHANGED <<modelVars, attachVars, emitting, requestVars, chromeVars,
                   home, reported, ended, removed, late>>

------------------------------------------------------------------------------
(* The CDP client, external: it names sessions it has been told of. *)

Asks(r, x) ==
    /\ At(r, "idle", "find")
    /\ x \in reported \cup {None}
    /\ names' = [names EXCEPT ![r] = x]
    /\ late' = IF x \in ended THEN late \cup {r} ELSE late
    /\ UNCHANGED <<modelVars, attachVars, emitting, route, result, chromeVars, inbox, wire,
                   home, reported, ended, removed, ahead>>

------------------------------------------------------------------------------

Init ==
    /\ sessions = [t \in Tabs |-> None] /\ children = [t \in Tabs |-> {}] /\ nextID = 1
    /\ making = [t \in Tabs |-> "no"] /\ sid = [t \in Tabs |-> None]
    /\ emitting = Nothing
    /\ pc = [r \in Requests |-> "idle"] /\ names = [r \in Requests |-> None]
    /\ route = [r \in Requests |-> <<None, None>>] /\ result = [r \in Requests |-> "none"]
    /\ debugged = {} /\ alive = {} /\ inbox = <<>> /\ wire = {}
    /\ home = [x \in Named |-> None]
    /\ reported = {} /\ ended = {} /\ removed = {} /\ late = {}
    /\ ahead = [r \in Requests |-> 0]

Reader ==
    \/ AttachAnswered \/ Replied("ok") \/ Replied("error")
    \/ OnChildAttached \/ OnChildDetached \/ OnDetach

Serve(r) == FindAny(r) \/ FindSession(r) \/ FindChild(r) \/ Send(r)

Chrome ==
    \/ \E c \in wire : Execute(c)
    \/ \E t \in Tabs : Detaches(t) \/ \E c \in Children : ChildAttaches(t, c)
    \/ \E c \in Children : ChildDetaches(c)

Client ==
    \/ \E r \in Requests, x \in Named \cup {None} : Asks(r, x)
    \/ \E t \in Tabs : AttachToTarget(t)

Next ==
    \/ \E t \in Tabs : Attach(t) \/ Commit(t) \/ EmitAttached(t)
    \/ Reader \/ Emit
    \/ \E r \in Requests : Serve(r) \/ Expires(r) \/ Respond(r)
    \/ Chrome
    \/ Client

Spec == Init /\ [][Next]_vars

\* Goroutines that can run do run, and Send has its timeout: it does not stay in
\* "sent", and Serve takes it out of "send".  Nothing is assumed
\* of the extension, nor of the client: what is written to it, in EmitAttached,
\* Emit and Respond, may wait for ever.
Fairness ==
    /\ \A t \in Tabs : WF_vars(Commit(t))
    /\ \A r \in Requests : WF_vars(Serve(r)) /\ WF_vars(Expires(r))
    /\ WF_vars(Reader)

FairSpec == Spec /\ Fairness

------------------------------------------------------------------------------
(* Properties *)

\* A command that names a session goes to the tab of that session, and to the
\* child session it names, however sessions come and go between the lookup,
\* the unlock and the send (Forward): never to another tab.  If the tab has been
\* detached and attached anew after the lookup, it is the tab's next session that
\* the command reaches, because Chrome is told the tab and not the session.
RoutedToOwner ==
    \A c \in wire :
        c.for \in Named =>
            c.tab = home[c.for] /\ c.child = (IF c.for \in Children THEN c.for ELSE None)

\* Once the client has been told that a session has ended, or the session of
\* its tab, a command for it is refused and never gets to Chrome, where the tab
\* may be attached anew.
EndedSessionsRefuse ==
    \A r \in late : pc[r] \notin {"send", "sent"} /\ result[r] \notin {"ok", "error", "expired"}

\* A session that the client has been told of, by an event or by the answer to
\* AttachToTarget, serves: a command for it is refused only if it has ended.
ReportedSessionsServe ==
    \A r \in Requests : result[r] = "refused" /\ names[r] \in Named => names[r] \in removed

\* The events that Chrome sent before its reply are written to the client
\* before the reply is: the tools count on it when they read the page's state
\* after a command.
EventsBeforeReply ==
    \A r \in Requests : result[r] \in {"ok", "error"} => ahead[r] = 0

\* Whatever the extension and the client do or fail to do, every request that
\* Forward serves comes to its answer: a client that does not read, or a reader that is held up by it,
\* keeps no command waiting beyond extensionCommandTimeout.
AnswersAreReady == \A r \in Requests : pc[r] # "idle" ~> pc[r] \in {"write", "done"}

\* The sessions of tabs there have been: those that are, and those that were.
Lived == Ids \cap (removed \cup {sessions[t] : t \in Tabs})

Life == INSTANCE SessionLife WITH
    session <- sessions,
    lived   <- Lived,
    told    <- Ids \cap reported,
    over    <- Ids \cap ended

\* What BrowserModel promises of the sessions holds of them as Routing has them,
\* where the client also learns of a session from the answer to AttachToTarget.
ImplementsSessions == Life!Spec

==============================================================================
