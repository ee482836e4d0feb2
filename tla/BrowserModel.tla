---------------------------- MODULE BrowserModel -----------------------------
(***************************************************************************)
(* The tab-to-session routing state of internal/protocol/browser_model.go. *)
(*                                                                         *)
(* Three kinds of goroutines share it: the reader, which handles the       *)
(* extension's messages one at a time; the CDP commands of Clients, one    *)
(* goroutine each; and Workers, the attach goroutines of OnTabCreated.     *)
(* A critical section under m.mu is one action, and an event is emitted in *)
(* an action of its own, because the code emits after the unlock.          *)
(*                                                                         *)
(* The browser is external: it executes commands in any order, and what it *)
(* sends back, replies and events, arrives in the order it was sent.  The  *)
(* pairing of replies with commands is ExtensionConn's; a command whose    *)
(* context expires stays in the browser, its reply is dropped.             *)
(***************************************************************************)
EXTENDS Naturals, Sequences

CONSTANTS
    Tabs,         \* tab ids; the browser never uses one again
    Clients,      \* goroutines that serve CDP commands
    Workers,      \* goroutines for OnTabCreated to spawn
    MaxOps,       \* bound on the CDP commands of one client
    MaxTimeouts,  \* bound on the commands that expire
    MaxDetaches,  \* bound on the debuggers the user detaches
    NoOne         \* no goroutine, and no tab

ASSUME BrowserAssumption ==
    /\ {MaxOps, MaxTimeouts, MaxDetaches} \subseteq Nat
    /\ NoOne \notin Clients \cup Workers \cup Tabs
    /\ Clients \cap Workers = {}

VARIABLES
    known,       \* the keys of m.knownTabs
    sessions,    \* m.sessions: the session id of each tab, 0 if it has none
    attaching,   \* m.attaching: the goroutine that attaches each tab
    autoAttach,  \* m.autoAttach
    nextID,      \* m.nextID
    pc,          \* where each goroutine is
    tab,         \* the tab each goroutine works on
    todo,        \* the tabs EnableAutoAttach has still to attach
    reply,       \* what the wait of each goroutine has returned
    sid,         \* the session each goroutine has made and not reported
    emitting,    \* the session the reader has to report as detached, or 0
    attached,    \* the sessions reported to the CDP client as attached
    detached,    \* the sessions reported to the CDP client as detached
    unopened,    \* browser: tabs not opened so far
    open,        \* browser: open tabs
    debugged,    \* browser: tabs with our debugger attached
    cmds,        \* browser: commands to execute
    inbox,       \* browser: messages on their way to the reader
    ops,         \* how many commands each client has served
    timeouts,    \* how many commands have expired
    detaches,    \* how many debuggers the user has detached
    missed,      \* history: tabs lost since their attach has begun
    unsure,      \* history: tabs whose attach or detach has expired
    gaveUp       \* history: tabs whose attach failed, or detached again

modelVars   == <<known, sessions, attaching, autoAttach, nextID>>
procVars    == <<pc, tab, todo, reply, sid>>
viewVars    == <<attached, detached>>
browserVars == <<unopened, open, debugged, cmds, inbox>>
boundVars   == <<ops, timeouts, detaches>>
historyVars == <<missed, unsure, gaveUp>>
vars == <<modelVars, procVars, emitting, viewVars, browserVars, boundVars, historyVars>>

------------------------------------------------------------------------------

Procs == Workers \cup Clients

\* Where a goroutine waits for a reply, and where it owns an attach.
Sending   == {"attach", "info", "detach", "create", "remove"}
Attacking == {"attach", "info", "detach", "allocate", "commit", "fail"}

Command(p, what, t) == [by |-> p, what |-> what, tab |-> t]
Reply(p, outcome, t) == [kind |-> "reply", to |-> p, outcome |-> outcome, tab |-> t]
Event(kind, t) == [kind |-> kind, to |-> NoOne, outcome |-> "none", tab |-> t]

\* p sends a command, and waits for the reply at the location of that name.
Sends(p, what, t) ==
    /\ cmds' = cmds \cup {Command(p, what, t)}
    /\ pc' = [pc EXCEPT ![p] = what]

\* What a wait can return, and the end of p's wait.
Result(outcome, t) == [outcome |-> outcome, tab |-> t]
NoResult == Result("none", NoOne)

Takes(p, outcome) ==
    /\ reply[p].outcome = outcome
    /\ reply' = [reply EXCEPT ![p] = NoResult]

\* p returns to the loop of EnableAutoAttach with the tabs of rest before it;
\* every other goroutine has none and ends.
Proceeds(p, rest) ==
    \/ \E t \in rest :
           /\ pc' = [pc EXCEPT ![p] = "enter"]
           /\ tab' = [tab EXCEPT ![p] = t]
           /\ todo' = [todo EXCEPT ![p] = rest \ {t}]
    \/ /\ rest = {}
       /\ pc' = [pc EXCEPT ![p] = "idle"]
       /\ tab' = [tab EXCEPT ![p] = NoOne]
       /\ todo' = [todo EXCEPT ![p] = {}]

\* attachTab returns an error: the loop of EnableAutoAttach ends.
Aborts(p) == Proceeds(p, {})

------------------------------------------------------------------------------
(* attachTab *)

EnterAttached(p) ==
    /\ pc[p] = "enter"
    /\ sessions[tab[p]] # 0
    /\ Proceeds(p, todo[p])
    /\ UNCHANGED <<modelVars, reply, sid, emitting, viewVars, browserVars, boundVars, historyVars>>

EnterWait(p) ==
    /\ pc[p] = "enter"
    /\ sessions[tab[p]] = 0
    /\ attaching[tab[p]] # NoOne
    /\ pc' = [pc EXCEPT ![p] = "wait"]
    /\ UNCHANGED <<modelVars, tab, todo, reply, sid, emitting, viewVars, browserVars, boundVars, historyVars>>

\* Mutants: the attach under way is not looked up; nor is the session.
EnterRegardless(p) ==
    /\ pc[p] = "enter"
    /\ sessions[tab[p]] = 0
    /\ attaching' = [attaching EXCEPT ![tab[p]] = p]
    /\ Sends(p, "attach", tab[p])
    /\ missed' = missed \ {tab[p]}
    /\ UNCHANGED <<known, sessions, autoAttach, nextID, tab, todo, reply, sid, emitting, viewVars,
                   unopened, open, debugged, inbox, boundVars, unsure, gaveUp>>

EnterAgain(p) ==
    /\ pc[p] = "enter"
    /\ attaching[tab[p]] = NoOne
    /\ attaching' = [attaching EXCEPT ![tab[p]] = p]
    /\ Sends(p, "attach", tab[p])
    /\ missed' = missed \ {tab[p]}
    /\ UNCHANGED <<known, sessions, autoAttach, nextID, tab, todo, reply, sid, emitting, viewVars,
                   unopened, open, debugged, inbox, boundVars, unsure, gaveUp>>

EnterAttach(p) ==
    /\ pc[p] = "enter"
    /\ sessions[tab[p]] = 0
    /\ attaching[tab[p]] = NoOne
    /\ attaching' = [attaching EXCEPT ![tab[p]] = p]
    /\ Sends(p, "attach", tab[p])
    /\ missed' = missed \ {tab[p]}
    /\ UNCHANGED <<known, sessions, autoAttach, nextID, tab, todo, reply, sid, emitting, viewVars,
                   unopened, open, debugged, inbox, boundVars, unsure, gaveUp>>

\* A waiting CDP command gives up with its context; the goroutines spawned by
\* OnTabCreated wait under the background context.
WaitCancelled(p) ==
    /\ p \in Clients
    /\ pc[p] = "wait"
    /\ Aborts(p)
    /\ reply' = [reply EXCEPT ![p] = NoResult]
    /\ gaveUp' = gaveUp \cup todo[p]
    /\ UNCHANGED <<modelVars, sid, emitting, viewVars, browserVars, boundVars,
                   missed, unsure>>

WaitReturns(p) ==
    /\ pc[p] = "wait"
    /\ \/ Takes(p, "ok") /\ Proceeds(p, todo[p]) /\ UNCHANGED gaveUp
       \/ Takes(p, "error") /\ Aborts(p) /\ gaveUp' = gaveUp \cup todo[p]
    /\ UNCHANGED <<modelVars, sid, emitting, viewVars, browserVars, boundVars,
                   missed, unsure>>

\* doAttachTab: attach the debugger, ask for the target, take a session id.
AttachReplied(p) ==
    /\ pc[p] = "attach"
    /\ \/ Takes(p, "ok") /\ Sends(p, "info", tab[p])
       \/ Takes(p, "error") /\ pc' = [pc EXCEPT ![p] = "fail"] /\ UNCHANGED cmds
    /\ UNCHANGED <<modelVars, tab, todo, sid, emitting, viewVars, unopened, open, debugged,
                   inbox, boundVars, historyVars>>

\* Mutant: the debugger stays attached.
InfoFails(p) ==
    /\ pc[p] = "info"
    /\ \/ Takes(p, "ok") /\ pc' = [pc EXCEPT ![p] = "allocate"]
       \/ Takes(p, "error") /\ pc' = [pc EXCEPT ![p] = "fail"]
    /\ UNCHANGED <<modelVars, tab, todo, sid, emitting, viewVars, browserVars, boundVars,
                   historyVars>>

\* Without a usable target the debugger is detached again.
InfoReplied(p) ==
    /\ pc[p] = "info"
    /\ \/ Takes(p, "ok") /\ pc' = [pc EXCEPT ![p] = "allocate"] /\ UNCHANGED cmds
       \/ Takes(p, "error") /\ Sends(p, "detach", tab[p])
    /\ UNCHANGED <<modelVars, tab, todo, sid, emitting, viewVars, unopened, open, debugged,
                   inbox, boundVars, historyVars>>

DetachReplied(p) ==
    /\ pc[p] = "detach"
    /\ Takes(p, "ok") \/ Takes(p, "error")
    /\ pc' = [pc EXCEPT ![p] = "fail"]
    /\ UNCHANGED <<modelVars, tab, todo, sid, emitting, viewVars, browserVars, boundVars,
                   historyVars>>

\* Mutant: m.nextID is not incremented.
AllocateSame(p) ==
    /\ pc[p] = "allocate"
    /\ sid' = [sid EXCEPT ![p] = nextID]
    /\ pc' = [pc EXCEPT ![p] = "commit"]
    /\ UNCHANGED <<modelVars, tab, todo, reply, emitting, viewVars, browserVars, boundVars,
                   historyVars>>

Allocate(p) ==
    /\ pc[p] = "allocate"
    /\ sid' = [sid EXCEPT ![p] = nextID]
    /\ nextID' = nextID + 1
    /\ pc' = [pc EXCEPT ![p] = "commit"]
    /\ UNCHANGED <<known, sessions, attaching, autoAttach, tab, todo, reply, emitting, viewVars,
                   browserVars, boundVars, historyVars>>

\* close(call.done): the waiters of p's attach get its outcome.
Waiters(t) == {q \in Procs : pc[q] = "wait" /\ tab[q] = t /\ reply[q] = NoResult}
WakeWaiters(t, outcome) ==
    reply' = [q \in Procs |-> IF q \in Waiters(t) THEN Result(outcome, t) ELSE reply[q]]

Commit(p) ==
    /\ pc[p] = "commit"
    /\ sessions' = [sessions EXCEPT ![tab[p]] = sid[p]]
    /\ attaching' = [attaching EXCEPT ![tab[p]] = NoOne]
    /\ WakeWaiters(tab[p], "ok")
    /\ pc' = [pc EXCEPT ![p] = "emit"]
    /\ gaveUp' = gaveUp \ {tab[p]}
    /\ UNCHANGED <<known, autoAttach, nextID, tab, todo, sid, emitting, viewVars, browserVars,
                   boundVars, missed, unsure>>

\* Mutant: call.done stays open after an error.
FailSilently(p) ==
    /\ pc[p] = "fail"
    /\ attaching' = [attaching EXCEPT ![tab[p]] = NoOne]
    /\ Aborts(p)
    /\ gaveUp' = gaveUp \cup {tab[p]} \cup todo[p]
    /\ UNCHANGED <<known, sessions, autoAttach, nextID, reply, sid, emitting, viewVars, browserVars,
                   boundVars, missed, unsure>>

Fail(p) ==
    /\ pc[p] = "fail"
    /\ attaching' = [attaching EXCEPT ![tab[p]] = NoOne]
    /\ WakeWaiters(tab[p], "error")
    /\ Aborts(p)
    /\ gaveUp' = gaveUp \cup {tab[p]} \cup todo[p]
    /\ UNCHANGED <<known, sessions, autoAttach, nextID, sid, emitting, viewVars, browserVars,
                   boundVars, missed, unsure>>

EmitAttached(p) ==
    /\ pc[p] = "emit"
    /\ attached' = attached \cup {sid[p]}
    /\ sid' = [sid EXCEPT ![p] = 0]
    /\ Proceeds(p, todo[p])
    /\ UNCHANGED <<modelVars, reply, emitting, detached, browserVars, boundVars, historyVars>>

\* send fails because the command's context has expired.
Expires(p) ==
    /\ pc[p] \in Sending
    /\ reply[p] = NoResult
    /\ timeouts < MaxTimeouts
    /\ timeouts' = timeouts + 1
    /\ reply' = [reply EXCEPT ![p] = Result("error", NoOne)]
    /\ cmds' = {IF c.by = p THEN [c EXCEPT !.by = NoOne] ELSE c : c \in cmds}
    /\ inbox' = [i \in DOMAIN inbox |->
                    IF inbox[i].to = p THEN [inbox[i] EXCEPT !.to = NoOne] ELSE inbox[i]]
    /\ unsure' = IF pc[p] \in {"attach", "detach"} THEN unsure \cup {tab[p]} ELSE unsure
    /\ UNCHANGED <<modelVars, pc, tab, todo, sid, emitting, viewVars, unopened, open, debugged,
                   ops, detaches, missed, gaveUp>>

------------------------------------------------------------------------------
(* The CDP commands that change the model. *)

StartsOp(p) ==
    /\ p \in Clients
    /\ pc[p] = "idle"
    /\ ops[p] < MaxOps
    /\ ops' = [ops EXCEPT ![p] = @ + 1]

\* Mutant: the tabs are copied before the flag is set, under another lock.
EnableStale(p) ==
    /\ StartsOp(p)
    /\ autoAttach' = TRUE
    /\ \E copied \in SUBSET known : Proceeds(p, copied)
    /\ UNCHANGED <<known, sessions, attaching, nextID, reply, sid, emitting, viewVars,
                   browserVars, timeouts, detaches, historyVars>>

EnableAutoAttach(p) ==
    /\ StartsOp(p)
    /\ autoAttach' = TRUE
    /\ Proceeds(p, known)
    /\ UNCHANGED <<known, sessions, attaching, nextID, reply, sid, emitting, viewVars,
                   browserVars, timeouts, detaches, historyVars>>

CreateTarget(p) ==
    /\ StartsOp(p)
    /\ Sends(p, "create", NoOne)
    /\ UNCHANGED <<modelVars, tab, todo, reply, sid, emitting, viewVars, unopened, open, debugged, inbox,
                   timeouts, detaches, historyVars>>

\* OnTabCreated, called by the reader or by CreateTarget: the tab is known, and
\* a goroutine is spawned for it if autoAttach is set.  The goroutine may well
\* run only after others have.
Knows(t, pcs, tabs) ==
    /\ known' = known \cup {t}
    /\ \/ ~autoAttach /\ pc' = pcs /\ tab' = tabs
       \/ /\ autoAttach
          /\ \E w \in Workers :
                 /\ pcs[w] = "idle"
                 /\ pc' = [pcs EXCEPT ![w] = "enter"]
                 /\ tab' = [tabs EXCEPT ![w] = t]

\* Mutant: CreateTarget goes on without a tab id.
CreateUnchecked(p) ==
    /\ pc[p] = "create"
    /\ Takes(p, "ok") \/ Takes(p, "error")
    /\ Knows(reply[p].tab, [pc EXCEPT ![p] = "enter"], [tab EXCEPT ![p] = reply[p].tab])
    /\ UNCHANGED <<sessions, attaching, autoAttach, nextID, todo, sid, emitting, viewVars,
                   browserVars, boundVars, historyVars>>

CreateReplied(p) ==
    /\ pc[p] = "create"
    /\ \/ /\ Takes(p, "ok")
          /\ Knows(reply[p].tab, [pc EXCEPT ![p] = "enter"], [tab EXCEPT ![p] = reply[p].tab])
       \/ Takes(p, "error") /\ pc' = [pc EXCEPT ![p] = "idle"] /\ UNCHANGED <<known, tab>>
    /\ UNCHANGED <<sessions, attaching, autoAttach, nextID, todo, sid, emitting, viewVars,
                   browserVars, boundVars, historyVars>>

\* The lookup reads only the tab's id, so that it is one step with the send.
CloseTarget(p) ==
    /\ StartsOp(p)
    /\ \E t \in Tabs : sessions[t] # 0 /\ Sends(p, "remove", t)
    /\ UNCHANGED <<modelVars, tab, todo, reply, sid, emitting, viewVars, unopened, open, debugged, inbox,
                   timeouts, detaches, historyVars>>

RemoveReplied(p) ==
    /\ pc[p] = "remove"
    /\ Takes(p, "ok") \/ Takes(p, "error")
    /\ pc' = [pc EXCEPT ![p] = "idle"]
    /\ UNCHANGED <<modelVars, tab, todo, sid, emitting, viewVars, browserVars, boundVars,
                   historyVars>>

------------------------------------------------------------------------------
(* The reader: ExtensionConn.Run and HandleExtensionEvent. *)

Reads(kind) == emitting = 0 /\ inbox # <<>> /\ Head(inbox).kind = kind /\ inbox' = Tail(inbox)

\* A reply whose command has expired is dropped.
ReadReply ==
    /\ Reads("reply")
    /\ LET m == Head(inbox)
       IN  IF m.to = NoOne
           THEN UNCHANGED reply
           ELSE reply' = [reply EXCEPT ![m.to] = Result(m.outcome, m.tab)]
    /\ UNCHANGED <<modelVars, pc, tab, todo, sid, emitting, viewVars, unopened, open, debugged, cmds,
                   boundVars, historyVars>>

OnTabCreated ==
    /\ Reads("created")
    /\ Knows(Head(inbox).tab, pc, tab)
    /\ UNCHANGED <<sessions, attaching, autoAttach, nextID, todo, reply, sid, emitting,
                   viewVars, unopened, open, debugged, cmds, boundVars, historyVars>>

\* Mutants: the event is not reported; the session is kept.
DetachUnreported(t) ==
    /\ sessions' = [sessions EXCEPT ![t] = 0]
    /\ missed' = IF attaching[t] # NoOne THEN missed \cup {t} ELSE missed
    /\ UNCHANGED emitting

DetachNothing(t) == UNCHANGED <<sessions, emitting, missed>>

\* detachTabLocked: the session is dropped, and reported after the unlock.
DetachTab(t) ==
    /\ sessions' = [sessions EXCEPT ![t] = 0]
    /\ emitting' = sessions[t]
    /\ missed' = IF attaching[t] # NoOne THEN missed \cup {t} ELSE missed

OnTabRemoved ==
    /\ Reads("removed")
    /\ known' = known \ {Head(inbox).tab}
    /\ DetachTab(Head(inbox).tab)
    /\ gaveUp' = gaveUp \ {Head(inbox).tab}
    /\ UNCHANGED <<attaching, autoAttach, nextID, procVars, viewVars, unopened, open, debugged,
                   cmds, boundVars, unsure>>

OnDebuggerDetach ==
    /\ Reads("detach")
    /\ DetachTab(Head(inbox).tab)
    /\ gaveUp' = gaveUp \cup {Head(inbox).tab}
    /\ UNCHANGED <<known, attaching, autoAttach, nextID, procVars, viewVars, unopened, open,
                   debugged, cmds, boundVars, unsure>>

EmitDetached ==
    /\ emitting # 0
    /\ detached' = detached \cup {emitting}
    /\ emitting' = 0
    /\ UNCHANGED <<modelVars, procVars, attached, browserVars, boundVars, historyVars>>

------------------------------------------------------------------------------
(* The browser and its user, external to the code. *)

Opens(t) ==
    /\ t \in unopened
    /\ unopened' = unopened \ {t}
    /\ open' = open \cup {t}

\* Closing a tab also detaches its debugger.
Closes(t) ==
    /\ t \in open
    /\ open' = open \ {t}
    /\ debugged' = debugged \ {t}

ClosingEvents(t) ==
    IF t \in debugged THEN <<Event("detach", t), Event("removed", t)>> ELSE <<Event("removed", t)>>

\* The reply to a command, with the events the command has caused.
Answers(c, outcome, t, before, after) ==
    inbox' = inbox \o before \o (IF c.by = NoOne THEN <<>> ELSE <<Reply(c.by, outcome, t)>>) \o after

Refuses(c) == Answers(c, "error", c.tab, <<>>, <<>>) /\ UNCHANGED <<unopened, open, debugged>>

Performs(c) ==
    CASE c.what = "attach" ->
            /\ c.tab \in open \ debugged
            /\ debugged' = debugged \cup {c.tab}
            /\ Answers(c, "ok", c.tab, <<>>, <<>>)
            /\ UNCHANGED <<unopened, open>>
      [] c.what = "info" ->
            /\ c.tab \in debugged
            /\ Answers(c, "ok", c.tab, <<>>, <<>>)
            /\ UNCHANGED <<unopened, open, debugged>>
      [] c.what = "detach" ->
            /\ c.tab \in debugged
            /\ debugged' = debugged \ {c.tab}
            /\ Answers(c, "ok", c.tab, <<>>, <<>>)
            /\ UNCHANGED <<unopened, open>>
      [] c.what = "create" ->
            \E t \in unopened :
                /\ Opens(t)
                /\ \/ Answers(c, "ok", t, <<Event("created", t)>>, <<>>)
                   \/ Answers(c, "ok", t, <<>>, <<Event("created", t)>>)
                /\ UNCHANGED debugged
      [] c.what = "remove" ->
            /\ Closes(c.tab)
            /\ Answers(c, "ok", c.tab, ClosingEvents(c.tab), <<>>)
            /\ UNCHANGED unopened

Execute(c) ==
    /\ c \in cmds
    /\ cmds' = cmds \ {c}
    /\ Performs(c) \/ (Refuses(c) /\ ~(c.what = "detach" /\ c.tab \in debugged))
    /\ UNCHANGED <<modelVars, procVars, emitting, viewVars, boundVars, historyVars>>

UserOpens(t) ==
    /\ Opens(t)
    /\ inbox' = Append(inbox, Event("created", t))
    /\ UNCHANGED <<modelVars, procVars, emitting, viewVars, debugged, cmds, boundVars, historyVars>>

UserCloses(t) ==
    /\ Closes(t)
    /\ inbox' = inbox \o ClosingEvents(t)
    /\ UNCHANGED <<modelVars, procVars, emitting, viewVars, unopened, cmds, boundVars, historyVars>>

UserDetaches(t) ==
    /\ t \in debugged
    /\ detaches < MaxDetaches
    /\ detaches' = detaches + 1
    /\ debugged' = debugged \ {t}
    /\ inbox' = Append(inbox, Event("detach", t))
    /\ UNCHANGED <<modelVars, procVars, emitting, viewVars, unopened, open, cmds, ops, timeouts,
                   historyVars>>

------------------------------------------------------------------------------

Init ==
    /\ known = {}
    /\ sessions = [t \in Tabs |-> 0]
    /\ attaching = [t \in Tabs |-> NoOne]
    /\ autoAttach = FALSE
    /\ nextID = 1
    /\ pc = [p \in Procs |-> "idle"]
    /\ tab = [p \in Procs |-> NoOne]
    /\ todo = [p \in Procs |-> {}]
    /\ reply = [p \in Procs |-> NoResult]
    /\ sid = [p \in Procs |-> 0]
    /\ emitting = 0
    /\ attached = {}
    /\ detached = {}
    /\ unopened = Tabs
    /\ open = {}
    /\ debugged = {}
    /\ cmds = {}
    /\ inbox = <<>>
    /\ ops = [p \in Clients |-> 0]
    /\ timeouts = 0
    /\ detaches = 0
    /\ missed = {}
    /\ unsure = {}
    /\ gaveUp = {}

AttachTab(p) ==
    \/ EnterAttached(p) \/ EnterWait(p) \/ EnterAttach(p) \/ WaitReturns(p)
    \/ AttachReplied(p) \/ InfoReplied(p) \/ DetachReplied(p)
    \/ Allocate(p) \/ Commit(p) \/ Fail(p) \/ EmitAttached(p)

ProcStep(p) == AttachTab(p) \/ CreateReplied(p) \/ RemoveReplied(p)

Reader == ReadReply \/ OnTabCreated \/ OnTabRemoved \/ OnDebuggerDetach \/ EmitDetached

User == \E t \in Tabs : UserOpens(t) \/ UserCloses(t) \/ UserDetaches(t)

Next ==
    \/ \E p \in Procs : ProcStep(p) \/ Expires(p)
    \/ \E p \in Clients :
           WaitCancelled(p) \/ EnableAutoAttach(p) \/ CreateTarget(p) \/ CloseTarget(p)
    \/ Reader
    \/ \E c \in cmds : Execute(c)
    \/ User

Spec == Init /\ [][Next]_vars


\* Goroutines that can run do run, the reader reads on, and every command is
\* answered or expires after extensionCommandTimeout, if not before.
Fairness ==
    /\ \A p \in Procs : WF_vars(ProcStep(p))
    /\ \A p \in Procs : WF_vars(Expires(p) \/ \E c \in cmds : c.by = p /\ Execute(c))
    /\ WF_vars(Reader)

FairSpec == Spec /\ Fairness

------------------------------------------------------------------------------
(* Properties *)

Results == [outcome : {"ok"}, tab : Tabs] \cup [outcome : {"error"}, tab : Tabs \cup {NoOne}]

Messages ==
    [kind : {"reply"}, to : Procs \cup {NoOne}, outcome : {"ok"}, tab : Tabs]
    \cup [kind : {"reply"}, to : Procs \cup {NoOne}, outcome : {"error"}, tab : Tabs \cup {NoOne}]
    \cup [kind : {"created", "removed", "detach"}, to : {NoOne}, outcome : {"none"}, tab : Tabs]

Commands ==
    [by : Procs \cup {NoOne}, what : Sending \ {"create"}, tab : Tabs]
    \cup [by : Procs \cup {NoOne}, what : {"create"}, tab : {NoOne}]

ModelTypeOK ==
    /\ known \subseteq Tabs
    /\ sessions \in [Tabs -> Nat]
    /\ attaching \in [Tabs -> Procs \cup {NoOne}]
    /\ autoAttach \in BOOLEAN
    /\ nextID \in Nat \ {0}

ProcTypeOK ==
    /\ pc \in [Procs -> Sending \cup Attacking \cup {"idle", "enter", "wait", "emit"}]
    /\ tab \in [Procs -> Tabs \cup {NoOne}]
    /\ \A p \in Procs : pc[p] \in Attacking \cup {"enter", "wait", "emit"} => tab[p] \in Tabs
    /\ todo \in [Procs -> SUBSET Tabs]
    /\ reply \in [Procs -> Results \cup {NoResult}]
    /\ sid \in [Procs -> Nat]

BrowserTypeOK ==
    /\ unopened \subseteq Tabs /\ open \subseteq Tabs /\ debugged \subseteq Tabs
    /\ cmds \subseteq Commands
    /\ inbox \in Seq(Messages)

\* The variables have their types, and who needs a tab has one.
TypeOK ==
    /\ ModelTypeOK
    /\ ProcTypeOK
    /\ BrowserTypeOK
    /\ emitting \in Nat /\ attached \subseteq Nat /\ detached \subseteq Nat
    /\ ops \in [Clients -> Nat] /\ timeouts \in Nat /\ detaches \in Nat
    /\ missed \subseteq Tabs /\ unsure \subseteq Tabs /\ gaveUp \subseteq Tabs

Pending(kind, t) == \E i \in DOMAIN inbox : inbox[i].kind = kind /\ inbox[i].tab = t

Lost(t) == Pending("removed", t) \/ Pending("detach", t)

\* However many goroutines want a tab, one attaches it.
SingleFlight ==
    \A p, q \in Procs :
        pc[p] \in Attacking /\ pc[q] \in Attacking /\ tab[p] = tab[q] => p = q

\* A tab's session is never replaced by another, and a new session never
\* takes an id that has been used: commands cannot go to the wrong tab.
SessionsAreFresh ==
    [][\A t \in Tabs :
          sessions'[t] # sessions[t] /\ sessions'[t] # 0 =>
              /\ sessions[t] = 0
              /\ sessions'[t] \notin attached \cup detached
              /\ \A u \in Tabs \ {t} : sessions[u] # sessions'[t]]_vars

\* What the CDP client has been told: every session is reported as attached,
\* or about to be, and is reported as detached if and only if it is gone.
\* Nothing is said of the order of the two.
EventsAgree ==
    LET alive == {sessions[t] : t \in {u \in Tabs : sessions[u] # 0}}
        inEmit == {sid[p] : p \in {q \in Procs : pc[q] = "emit"}}
    IN  /\ alive \subseteq (attached \cup inEmit) \ (detached \cup {emitting})
        /\ attached \cup inEmit \subseteq alive \cup detached \cup {emitting}

\* Once autoAttach is set, no known tab is forgotten: it has a session, or a
\* goroutine is on its way to it, or an attach of it failed or came undone.
NoTabMissed ==
    autoAttach => \A t \in known :
        \/ sessions[t] # 0
        \/ attaching[t] # NoOne
        \/ \E p \in Procs : t \in todo[p] \/ (pc[p] = "enter" /\ tab[p] = t)
        \/ t \in gaveUp

\* A session belongs to a tab we debug.  The exceptions are a loss that the
\* reader has not seen yet, one it saw while the attach was under way (the
\* session is then installed for good), and commands that have expired.
SessionsAreReal ==
    \A t \in Tabs : sessions[t] # 0 /\ t \notin debugged => Lost(t) \/ t \in missed \cup unsure

\* No debugger stays attached to a tab without a session or an attach under
\* way, unless one of the commands involved expired.
NoDebuggerLeak ==
    \A t \in debugged : sessions[t] # 0 \/ attaching[t] # NoOne \/ t \in unsure

\* A stale message never ends a session: one that ends has lost its tab.
OnlyLostSessionsEnd ==
    [][\A t \in Tabs : sessions[t] # 0 /\ sessions'[t] = 0 => t \notin debugged \/ t \in unsure]_vars

\* Whoever wants a tab attached gets an answer: a goroutine that waits for
\* another's attach is not forgotten, whatever comes of it.
AttachReturns == \A p \in Procs : pc[p] # "idle" ~> pc[p] = "idle"

\* The sessions there have been: reported as attached, or about to be.
Lived == attached \cup {sid[p] : p \in {q \in Procs : pc[q] = "emit"}}

Life == INSTANCE SessionLife WITH
    None    <- 0,
    session <- sessions,
    lived   <- Lived,
    told    <- attached,
    over    <- detached

\* However attaches, losses and reports interleave, no session id serves twice,
\* and the client learns only of sessions that have begun, and of the end of
\* none that a tab still has.
ImplementsSessions == Life!Spec

==============================================================================
