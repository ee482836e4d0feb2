------------------------------- MODULE Relay ---------------------------------
(***************************************************************************)
(* The relay of internal/relay/server.go and the part of                   *)
(* internal/protocol/handler.go that it registers connections with.        *)
(*                                                                         *)
(* Each dialled websocket has a goroutine, handleExtension or handleCDP;   *)
(* each caller of Server.Close and of Send, and the listener, have theirs. *)
(* Two locks protect the state: s.mu the registered connections, h.mu the  *)
(* handler's sender and emitter.  A section under s.mu takes h.mu at most  *)
(* once, so that it is one action; a step that takes h.mu alone is one,    *)
(* too.                                                                    *)
(*                                                                         *)
(* An ExtensionConn counts by what it promises (ShutdownIsFinal in module  *)
(* ExtensionConn): onClose runs once, in the goroutine that is first to    *)
(* shut it down.                                                           *)
(***************************************************************************)
EXTENDS Naturals

CONSTANTS
    Extensions,  \* websockets the extension dials
    Clients,     \* websockets CDP clients dial
    Closers,     \* goroutines that call Server.Close
    Callers,     \* goroutines that send a command to the extension, one each
    NoOne        \* no connection and no goroutine

ASSUME RelayAssumption ==
    /\ NoOne \notin Extensions \cup Clients \cup Closers \cup Callers
    /\ Extensions \cap (Clients \cup Closers \cup Callers) = {}
    /\ Clients \cap (Closers \cup Callers) = {}
    /\ Closers \cap Callers = {}

VARIABLES
    closed,         \* s.closed
    extensionConn,  \* s.extensionConn
    cdpConn,        \* s.cdpConn
    sender,         \* h.sender
    emit,           \* the client h.emit writes to
    ready,          \* h.ready is closed
    done,           \* h.done is closed
    pc,             \* where each goroutine is
    open,           \* the websockets accepted and not closed by either side
    extension,      \* the extension that a goroutine is to close, or to send to
    cdp,            \* the CDP client that a goroutine is to close
    loss,           \* how far the onClose of each extension has come
    runner,         \* the goroutine that runs it
    serve,          \* where the listener's goroutine is
    home            \* history: the extension a client was accepted for

serverVars  == <<closed, extensionConn, cdpConn>>
handlerVars == <<sender, emit, ready, done>>
localVars   == <<extension, cdp>>
lossVars    == <<loss, runner>>
vars == <<serverVars, handlerVars, pc, open, localVars, lossVars, serve, home>>

------------------------------------------------------------------------------

At(p, from, to) == pc[p] = from /\ pc' = [pc EXCEPT ![p] = to]

\* The request is refused, or its handshake fails.
TurnedAway(x) ==
    /\ x \in Extensions \cup Clients
    /\ pc[x] \in {"new", "asked", "checked"}
    /\ pc' = [pc EXCEPT ![x] = "away"]
    /\ UNCHANGED <<serverVars, handlerVars, open, localVars, lossVars, serve, home>>

------------------------------------------------------------------------------
(* handleExtension *)

\* SetExtension, under h.mu.  What the code does with a refused websocket, to
\* close it, is left out: RegistrationsAgree says that there is none.
SetExtension(e) ==
    /\ At(e, "new", IF sender = NoOne THEN "run" ELSE "refused")
    /\ sender' = IF sender = NoOne THEN e ELSE sender
    /\ extensionConn' = IF sender = NoOne THEN e ELSE extensionConn

\* Mutants: the section does not look for a registered connection; nor at
\* s.closed.
AcceptSecond(e) ==
    /\ ~closed
    /\ SetExtension(e)
    /\ open' = open \cup {e}
    /\ UNCHANGED <<closed, cdpConn, emit, ready, done, localVars, lossVars, serve, home>>

AcceptLate(e) ==
    /\ extensionConn = NoOne
    /\ SetExtension(e)
    /\ open' = open \cup {e}
    /\ UNCHANGED <<closed, cdpConn, emit, ready, done, localVars, lossVars, serve, home>>

AcceptExtension(e) ==
    /\ ~closed
    /\ extensionConn = NoOne
    /\ SetExtension(e)
    /\ open' = open \cup {e}
    /\ UNCHANGED <<closed, cdpConn, emit, ready, done, localVars, lossVars, serve, home>>

\* Run hands extension.initialized to HandleExtensionEvent.
Initialized(e) ==
    /\ pc[e] = "run"
    /\ ready' = TRUE
    /\ UNCHANGED <<serverVars, sender, emit, done, pc, open, localVars, lossVars, serve, home>>

\* ExtensionConn.shutdown by p, which is Run, a Send or a Close: the first call
\* goes on to onClose.
Shutdown(p, e) ==
    IF loss[e] = "up"
    THEN loss' = [loss EXCEPT ![e] = "lost"] /\ runner' = [runner EXCEPT ![e] = p]
    ELSE UNCHANGED lossVars

\* Run ends with a read error, or with a message that cannot be handled; the
\* latter leaves the websocket open.
RunEnds(e) ==
    /\ At(e, "run", "over")
    /\ Shutdown(e, e)
    /\ UNCHANGED <<serverVars, handlerVars, open, localVars, serve, home>>

RunReadFails(e) == e \notin open /\ RunEnds(e)
RunRejects(e)   == e \in open /\ RunEnds(e)

------------------------------------------------------------------------------
(* A command: the goroutine of a CDP request, or one that Run has started to   *)
(* attach a tab.                                                               *)

\* There are none before a client is accepted; they may be at work when it has
\* left.
Served == \E c \in Clients : pc[c] \in {"read", "left", "cleared", "close", "shutdown", "wait", "over"}

\* NewHandler's send copies h.sender under h.mu.
TakeSender(r) ==
    /\ Served
    /\ sender # NoOne
    /\ At(r, "new", "send")
    /\ extension' = [extension EXCEPT ![r] = sender]
    /\ UNCHANGED <<serverVars, handlerVars, open, cdp, lossVars, serve, home>>

\* The write fails: Send shuts the connection down in this goroutine, and Run
\* reads on.  The websocket may stay open, when the context expired before the
\* write had begun.  A Send that does not fail changes nothing here.
SendFails(r) ==
    /\ At(r, "send", "over")
    /\ open' \in {open, open \ {extension[r]}}
    /\ Shutdown(r, extension[r])
    /\ UNCHANGED <<serverVars, handlerVars, localVars, serve, home>>

------------------------------------------------------------------------------
(* onExtensionClosed, in the goroutine that has shut e down. *)

\* ExtensionDisconnected: the sender goes first, then h.done is closed.
LossClears(e) ==
    /\ loss[e] = "lost"
    /\ sender' = NoOne
    /\ loss' = [loss EXCEPT ![e] = "cleared"]
    /\ UNCHANGED <<serverVars, emit, ready, done, pc, open, localVars, runner, serve, home>>

LossDone(e) ==
    /\ loss[e] = "cleared"
    /\ done' = TRUE
    /\ loss' = [loss EXCEPT ![e] = "noted"]
    /\ UNCHANGED <<serverVars, sender, emit, ready, pc, open, localVars, runner, serve, home>>

\* Mutants: the extension is unregistered before ExtensionDisconnected; the
\* client is not looked up.
LossUnregistersFirst(e) ==
    /\ loss[e] = "lost"
    /\ extensionConn' = NoOne
    /\ cdp' = [cdp EXCEPT ![e] = cdpConn]
    /\ UNCHANGED <<closed, cdpConn, handlerVars, pc, open, extension, lossVars, serve, home>>

LossForgetsClient(e) ==
    /\ loss[e] = "noted"
    /\ extensionConn' = NoOne
    /\ loss' = [loss EXCEPT ![e] = "closing"]
    /\ UNCHANGED <<closed, cdpConn, handlerVars, pc, open, localVars, runner, serve, home>>

LossUnregisters(e) ==
    /\ loss[e] = "noted"
    /\ extensionConn' = NoOne
    /\ cdp' = [cdp EXCEPT ![e] = cdpConn]
    /\ loss' = [loss EXCEPT ![e] = "closing"]
    /\ UNCHANGED <<closed, cdpConn, handlerVars, pc, open, extension, runner, serve, home>>

LossCloses(e) ==
    /\ loss[e] = "closing"
    /\ open' = open \ {cdp[e]}
    /\ loss' = [loss EXCEPT ![e] = "down"]
    /\ UNCHANGED <<serverVars, handlerVars, pc, localVars, runner, serve, home>>

------------------------------------------------------------------------------
(* handleCDP *)

\* IsReady, before s.mu is taken: h.done first, then h.ready.
CheckDone(c) ==
    /\ ~done
    /\ At(c, "new", "asked")
    /\ UNCHANGED <<serverVars, handlerVars, open, localVars, lossVars, serve, home>>

CheckReady(c) ==
    /\ ready
    /\ At(c, "asked", "checked")
    /\ UNCHANGED <<serverVars, handlerVars, open, localVars, lossVars, serve, home>>

\* SetCDPEmitter, under h.mu.
SetCDPEmitter(c) ==
    /\ At(c, "checked", IF emit = NoOne THEN "read" ELSE "refused")
    /\ emit' = IF emit = NoOne THEN c ELSE emit
    /\ cdpConn' = IF emit = NoOne THEN c ELSE cdpConn
    /\ home' = [home EXCEPT ![c] = IF done THEN NoOne ELSE extensionConn]

AcceptClient(c) ==
    /\ ~closed
    /\ cdpConn = NoOne
    /\ SetCDPEmitter(c)
    /\ open' = open \cup {c}
    /\ UNCHANGED <<closed, extensionConn, sender, ready, done, localVars, lossVars, serve>>

ReadFails(c) ==
    /\ c \notin open
    /\ At(c, "read", "left")
    /\ UNCHANGED <<serverVars, handlerVars, open, localVars, lossVars, serve, home>>

ClearCDPEmitter(c) ==
    /\ At(c, "left", "cleared")
    /\ emit' = NoOne
    /\ UNCHANGED <<serverVars, sender, ready, done, open, localVars, lossVars, serve, home>>

\* Mutants: the emitter is not cleared; the extension is left alone.
UnregisterAlone(c) ==
    /\ At(c, "left", IF extensionConn = NoOne THEN "over" ELSE "close")
    /\ cdpConn' = IF cdpConn = c THEN NoOne ELSE cdpConn
    /\ extension' = [extension EXCEPT ![c] = extensionConn]
    /\ UNCHANGED <<closed, extensionConn, handlerVars, open, cdp, lossVars, serve, home>>

LeaveExtension(c) ==
    /\ At(c, "cleared", "over")
    /\ cdpConn' = IF cdpConn = c THEN NoOne ELSE cdpConn
    /\ UNCHANGED <<closed, extensionConn, handlerVars, open, localVars, lossVars, serve, home>>

UnregisterClient(c) ==
    /\ At(c, "cleared", IF extensionConn = NoOne THEN "over" ELSE "close")
    /\ cdpConn' = IF cdpConn = c THEN NoOne ELSE cdpConn
    /\ extension' = [extension EXCEPT ![c] = extensionConn]
    /\ UNCHANGED <<closed, extensionConn, handlerVars, open, cdp, lossVars, serve, home>>

------------------------------------------------------------------------------
(* Server.Close, and ExtensionConn.Close by it and by handleCDP. *)

\* A call that finds the server closed returns, and may be followed by others.
CloseServer(p) ==
    /\ p \in Closers
    /\ \/ closed /\ pc[p] \in {"new", "over"} /\ UNCHANGED <<closed, pc, localVars>>
       \/ /\ ~closed
          /\ closed' = TRUE
          /\ cdp' = [cdp EXCEPT ![p] = cdpConn]
          /\ extension' = [extension EXCEPT ![p] = extensionConn]
          /\ At(p, "new", "closeCDP")
    /\ UNCHANGED <<extensionConn, cdpConn, handlerVars, open, lossVars, serve, home>>

\* Mutant: a missing extension is closed, too.
CloseNil(p) ==
    /\ At(p, "closeCDP", "close")
    /\ open' = open \ {cdp[p]}
    /\ UNCHANGED <<serverVars, handlerVars, localVars, lossVars, serve, home>>

CloseCDP(p) ==
    /\ At(p, "closeCDP", IF extension[p] = NoOne THEN "over" ELSE "close")
    /\ open' = open \ {cdp[p]}
    /\ UNCHANGED <<serverVars, handlerVars, localVars, lossVars, serve, home>>

\* Close: the websocket first, then shutdown, which returns at once if another
\* goroutine runs onClose.
CloseExtension(p) ==
    /\ At(p, "close", "shutdown")
    /\ open' = open \ {extension[p]}
    /\ UNCHANGED <<serverVars, handlerVars, localVars, lossVars, serve, home>>

\* Mutant: shutdown returns to its first caller only.
ShutOnce(p) ==
    /\ At(p, "shutdown", "wait")
    /\ loss[extension[p]] = "up"
    /\ Shutdown(p, extension[p])
    /\ UNCHANGED <<serverVars, handlerVars, open, localVars, serve, home>>

ShutExtension(p) ==
    /\ At(p, "shutdown", "wait")
    /\ Shutdown(p, extension[p])
    /\ UNCHANGED <<serverVars, handlerVars, open, localVars, serve, home>>

\* Server.Close returns what http.Shutdown does, which ends with its context and
\* touches none of the websockets: it is left out.
CloseReturns(p) ==
    /\ At(p, "wait", "over")
    /\ runner[extension[p]] = p => loss[extension[p]] = "down"
    /\ UNCHANGED <<serverVars, handlerVars, open, localVars, lossVars, serve, home>>

------------------------------------------------------------------------------
(* The listener's goroutine, started by Start. *)

\* Serve fails other than by Shutdown: ExtensionDisconnected.
ServeFails ==
    /\ serve = "up"
    /\ sender' = NoOne
    /\ serve' = "failed"
    /\ UNCHANGED <<serverVars, emit, ready, done, pc, open, localVars, lossVars, home>>

ServeDone ==
    /\ serve = "failed"
    /\ done' = TRUE
    /\ serve' = "over"
    /\ UNCHANGED <<serverVars, sender, emit, ready, pc, open, localVars, lossVars, home>>

\* External: the other side closes a websocket, or the connection is lost.
Breaks(x) ==
    /\ open' = open \ {x}
    /\ UNCHANGED <<serverVars, handlerVars, pc, localVars, lossVars, serve, home>>

------------------------------------------------------------------------------

Init ==
    /\ closed = FALSE
    /\ extensionConn = NoOne /\ cdpConn = NoOne
    /\ sender = NoOne /\ emit = NoOne
    /\ ready = FALSE /\ done = FALSE
    /\ pc = [x \in Extensions \cup Clients \cup Closers \cup Callers |-> "new"]
    /\ open = {}
    /\ extension = [p \in Clients \cup Closers \cup Callers |-> NoOne]
    /\ cdp = [p \in Extensions \cup Closers |-> NoOne]
    /\ loss = [e \in Extensions |-> "up"]
    /\ runner = [e \in Extensions |-> NoOne]
    /\ serve = "up"
    /\ home = [c \in Clients |-> NoOne]

LossStep(e) == LossClears(e) \/ LossDone(e) \/ LossUnregisters(e) \/ LossCloses(e)

ClosingStep(p) == CloseExtension(p) \/ ShutExtension(p) \/ CloseReturns(p)

ClientStep(c) == ReadFails(c) \/ ClearCDPEmitter(c) \/ UnregisterClient(c)

Next ==
    \/ \E e \in Extensions :
           AcceptExtension(e) \/ Initialized(e) \/ RunReadFails(e) \/ RunRejects(e) \/ LossStep(e)
    \/ \E c \in Clients : CheckDone(c) \/ CheckReady(c) \/ AcceptClient(c) \/ ClientStep(c)
    \/ \E r \in Callers : TakeSender(r) \/ SendFails(r)
    \/ \E p \in Closers : CloseServer(p) \/ CloseCDP(p)
    \/ \E p \in Clients \cup Closers : ClosingStep(p)
    \/ \E x \in Extensions \cup Clients : TurnedAway(x)
    \/ ServeFails \/ ServeDone
    \/ \E x \in open : Breaks(x)

Spec == Init /\ [][Next]_vars

\* Goroutines that can run do run; a client's read of a closed websocket returns.
\* Nothing is assumed of Run, which may be held up by a client that does not read.
Fairness ==
    /\ \A e \in Extensions : WF_vars(LossStep(e))
    /\ \A c \in Clients : WF_vars(ClientStep(c))
    /\ \A p \in Closers : WF_vars(CloseCDP(p))
    /\ \A p \in Clients \cup Closers : WF_vars(ClosingStep(p))

FairSpec == Spec /\ Fairness

------------------------------------------------------------------------------
(* Properties *)

Locations ==
    {"new", "asked", "checked", "refused", "away", "run", "read", "left", "cleared", "send",
     "closeCDP", "close", "shutdown", "wait", "over"}

\* The variables have their types, and who closes an extension or sends to it
\* has one.
TypeOK ==
    /\ closed \in BOOLEAN /\ ready \in BOOLEAN /\ done \in BOOLEAN
    /\ extensionConn \in Extensions \cup {NoOne} /\ sender \in Extensions \cup {NoOne}
    /\ cdpConn \in Clients \cup {NoOne} /\ emit \in Clients \cup {NoOne}
    /\ pc \in [Extensions \cup Clients \cup Closers \cup Callers -> Locations]
    /\ open \subseteq Extensions \cup Clients
    /\ extension \in [Clients \cup Closers \cup Callers -> Extensions \cup {NoOne}]
    /\ \A p \in Clients \cup Closers \cup Callers :
           pc[p] \in {"close", "shutdown", "wait", "send"} => extension[p] # NoOne
    /\ cdp \in [Extensions \cup Closers -> Clients \cup {NoOne}]
    /\ loss \in [Extensions -> {"up", "lost", "cleared", "noted", "closing", "down"}]
    /\ runner \in [Extensions -> Extensions \cup Clients \cup Closers \cup Callers \cup {NoOne}]
    /\ serve \in {"up", "failed", "over"}
    /\ home \in [Clients -> Extensions \cup {NoOne}]

\* The errors of SetExtension and SetCDPEmitter never happen: a websocket that
\* the server accepts is served.
NothingRefused == \A x \in Extensions \cup Clients : pc[x] # "refused"

\* What s.mu registers and what h.mu registers agree, although no lock covers
\* both: a client that is read gets the events, and no one else does; the
\* extension that is up gets the commands, unless the listener has failed; and
\* the handler never refuses whom the server has accepted.
RegistrationsAgree ==
    /\ NothingRefused
    /\ \A c \in Clients : emit = c <=> pc[c] \in {"read", "left"}
    /\ \A e \in Extensions :
           extensionConn = e /\ loss[e] \in {"up", "lost"} /\ serve = "up" => sender = e
    /\ sender # NoOne => sender = extensionConn

\* After Server.Close no accepted websocket is open, except an extension's whose
\* Run gave up on a message, or to which a Send could not write: these shut the
\* connection down, and so unregister it, without closing the websocket, and
\* nothing in the code closes that later.
Abandoned(e) == runner[e] \in {e} \cup Callers

CloseIsFinal ==
    (\E p \in Closers : pc[p] = "over") => \A x \in open : x \in Extensions /\ Abandoned(x)

\* A client whose extension is lost is closed.  The exception is a client that
\* passed IsReady before the loss and is accepted after it: its home is unset.
NoOrphanClient ==
    \A c \in Clients \cap open :
        home[c] # NoOne /\ loss[home[c]] \in {"closing", "down"} =>
            loss[home[c]] = "closing" /\ cdp[home[c]] = c

\* A client has one browser: its commands go to the extension it was accepted for,
\* and it is closed with it.  Another extension may succeed that one only while
\* the client is being closed.
OneBrowser ==
    /\ NoOrphanClient
    /\ \A c \in Clients \cap open :
           home[c] # NoOne /\ sender \notin {NoOne, home[c]} =>
               loss[home[c]] = "closing" /\ cdp[home[c]] = c

\* Neither side outlives the other: when the CDP client leaves, the extension
\* registered then is brought down, and when the extension is lost, the client.
LossBringsDownBoth ==
    \A c \in Clients, e \in Extensions :
        /\ pc[c] = "cleared" /\ extensionConn = e ~> loss[e] = "down"
        /\ loss[e] = "lost" /\ cdpConn = c ~> cdpConn # c /\ c \notin open

\* A call of Server.Close returns.
CloseTerminates == \A p \in Closers : pc[p] = "closeCDP" ~> pc[p] = "over"

==============================================================================
