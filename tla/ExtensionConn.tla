---------------------------- MODULE ExtensionConn ----------------------------
(***************************************************************************)
(* The request/response pairing of internal/relay/extension_conn.go.       *)
(*                                                                         *)
(* Goroutines in Callers run Send; the goroutine of the relay's            *)
(* handleExtension runs Run; goroutines in Closers run Close.  A critical  *)
(* section under c.mu is one action, and so is every operation on a        *)
(* channel, on writeMu or on the websocket.  Timeouts of the caller's      *)
(* context are not clocked: a context may expire whenever it is consulted. *)
(*                                                                         *)
(* The websocket is external.  Requests that reached the extension stay in *)
(* wire; what it sends back is a set, because pairing must not depend on   *)
(* the order of answers, and it may answer a request up to MaxAnswers      *)
(* times (the code drops an answer nobody waits for).                      *)
(***************************************************************************)
EXTENDS Naturals

CONSTANTS
    Callers,     \* goroutines that call Send
    Closers,     \* goroutines that call Close
    MaxID,       \* bound on the request ids handed out
    MaxAnswers,  \* bound on the answers the extension gives to one request
    NoOne        \* no goroutine

ASSUME ConnAssumption ==
    /\ MaxID \in Nat
    /\ MaxAnswers \in Nat
    /\ NoOne \notin Callers

VARIABLES
    conn,       \* the websocket: "open" or "closed"
    closed,     \* c.closed, which c.done follows inside the same lock
    nextID,     \* c.nextID
    pending,    \* the keys of c.pending
    chan,       \* chan[i]: the one-slot channel made for request i
    writeMu,    \* the holder of c.writeMu
    pc,         \* where each caller is in Send
    id,         \* the id of each caller's current request
    calls,      \* how many requests each caller has issued
    result,     \* what each caller's last Send returned
    run,        \* where Run is
    taken,      \* the channel deliverResponse took out of pending
    closer,     \* where each closer is in Close
    wire,       \* requests written to the websocket
    answers,    \* how often the extension answered each request
    replies,    \* answers on their way to Run
    noise,      \* other messages on their way to Run
    onClose     \* how often c.onClose was called

connVars  == <<closed, nextID, pending, chan>>
sendVars  == <<writeMu, pc, id, calls, result>>
runVars   == <<run, taken>>
peerVars  == <<conn, wire, answers, replies, noise>>
vars == <<connVars, sendVars, runVars, peerVars, closer, onClose>>

------------------------------------------------------------------------------

Ids == 1 .. MaxID

\* The n-th request of caller c, to tell apart requests that an id confuses.
Call(c) == <<c, calls[c]>>
NoCall == <<NoOne, 0>>
CallIds == Callers \X Nat

Empty    == [kind |-> "empty", re |-> NoCall]
Shutdown == [kind |-> "shutdown", re |-> NoCall]
Answers  == [kind : {"reply"}, re : CallIds]  \* with a result or an error in it

NoReply == [id |-> 0, answer |-> Empty, nth |-> 0]

\* The ways Send returns: with the response, or with one of its errors.
Outcomes == [kind : {"none", "closed", "cancelled", "marshal", "write"},
             re : CallIds \cup {NoCall}]
              \cup Answers \cup {Shutdown}

SendPC == {"idle", "registered", "writing", "writeFailed", "failing",
           "notifying", "waiting", "cancelled"}

Return(c, outcome) ==
    /\ pc' = [pc EXCEPT ![c] = "idle"]
    /\ result' = [result EXCEPT ![c] = outcome]

Fails(c, kind) == Return(c, [kind |-> kind, re |-> Call(c)])

\* removePending(id).
RemovePending(i) == pending' = pending \ {i}

\* Mutant: c.closed is not checked.
ShutdownAgain ==
    /\ \A i \in pending : chan[i] = Empty
    /\ closed' = TRUE
    /\ chan' = [i \in Ids |-> IF i \in pending THEN Shutdown ELSE chan[i]]
    /\ pending' = {}
    /\ UNCHANGED nextID

\* shutdown, up to the unlock: the error goes into every pending channel,
\* which needs room there since c.mu is held, and c.done is closed.
DoShutdown ==
    /\ ~closed
    /\ \A i \in pending : chan[i] = Empty
    /\ closed' = TRUE
    /\ chan' = [i \in Ids |-> IF i \in pending THEN Shutdown ELSE chan[i]]
    /\ pending' = {}
    /\ UNCHANGED nextID

\* shutdown of a connection that is closed already.
SkipShutdown == closed /\ UNCHANGED connVars

------------------------------------------------------------------------------
(* Send *)

\* Send on a closed connection.
SendRefused(c) ==
    /\ pc[c] = "idle"
    /\ closed
    /\ Fails(c, "closed")
    /\ UNCHANGED <<connVars, writeMu, id, calls, runVars, peerVars, closer, onClose>>

\* Send registers a channel under request id i.
Register(c, i) ==
    /\ pc[c] = "idle"
    /\ nextID < MaxID
    /\ nextID' = nextID + 1
    /\ id' = [id EXCEPT ![c] = i]
    /\ pending' = pending \cup {i}
    /\ chan' = [chan EXCEPT ![i] = Empty]
    /\ calls' = [calls EXCEPT ![c] = @ + 1]
    /\ pc' = [pc EXCEPT ![c] = "registered"]
    /\ result' = [result EXCEPT ![c] = [kind |-> "none", re |-> NoCall]]
    /\ UNCHANGED <<closed, writeMu, runVars, peerVars, closer, onClose>>

\* Mutants: c.closed is not checked; an id is handed out again once it is free.
RegisterUnchecked(c) == Register(c, nextID + 1)
RegisterRecycled(c) ==
    ~closed /\ \E i \in Ids \ pending :
                   /\ \A j \in Ids \ pending : i <= j
                   /\ Register(c, i)

\* Send takes the next id, unless the connection is closed.
SendRegister(c) == ~closed /\ Register(c, nextID + 1)

\* The parameters cannot be encoded.
SendMarshalFails(c) ==
    /\ pc[c] = "registered"
    /\ RemovePending(id[c])
    /\ Fails(c, "marshal")
    /\ UNCHANGED <<closed, nextID, chan, writeMu, id, calls, runVars, peerVars, closer, onClose>>

\* write locks writeMu.
SendLock(c) ==
    /\ pc[c] = "registered"
    /\ writeMu = NoOne
    /\ writeMu' = c
    /\ pc' = [pc EXCEPT ![c] = "writing"]
    /\ UNCHANGED <<connVars, id, calls, result, runVars, peerVars, closer, onClose>>

\* write succeeds and unlocks writeMu.
SendWrite(c) ==
    /\ pc[c] = "writing"
    /\ conn = "open"
    /\ wire' = wire \cup {[id |-> id[c], call |-> Call(c)]}
    /\ writeMu' = NoOne
    /\ pc' = [pc EXCEPT ![c] = "waiting"]
    /\ UNCHANGED <<connVars, id, calls, result, runVars, conn, answers, replies, noise,
                   closer, onClose>>

\* write fails, because the websocket is closed or the context expired; an
\* expiry in the middle of a frame also closes the websocket.
SendWriteFails(c) ==
    /\ pc[c] = "writing"
    /\ conn' \in {conn, "closed"}
    /\ writeMu' = NoOne
    /\ pc' = [pc EXCEPT ![c] = "writeFailed"]
    /\ UNCHANGED <<connVars, id, calls, result, runVars, wire, answers, replies, noise,
                   closer, onClose>>

SendForget(c) ==
    /\ pc[c] = "writeFailed"
    /\ RemovePending(id[c])
    /\ pc' = [pc EXCEPT ![c] = "failing"]
    /\ UNCHANGED <<closed, nextID, chan, writeMu, id, calls, result, runVars, peerVars,
                   closer, onClose>>

\* A failed write shuts the whole connection down.
SendShutdown(c) ==
    /\ pc[c] = "failing"
    /\ \/ /\ DoShutdown
          /\ pc' = [pc EXCEPT ![c] = "notifying"]
          /\ UNCHANGED result
       \/ SkipShutdown /\ Fails(c, "write")
    /\ UNCHANGED <<writeMu, id, calls, runVars, peerVars, closer, onClose>>

SendNotify(c) ==
    /\ pc[c] = "notifying"
    /\ onClose' = onClose + 1
    /\ Fails(c, "write")
    /\ UNCHANGED <<connVars, writeMu, id, calls, runVars, peerVars, closer>>

\* The select of Send; any ready case may be taken.
SelectExpired(c) ==
    /\ pc[c] = "waiting"
    /\ pc' = [pc EXCEPT ![c] = "cancelled"]
    /\ UNCHANGED <<connVars, writeMu, id, calls, result, runVars, peerVars, closer, onClose>>

SelectDone(c) ==
    /\ pc[c] = "waiting"
    /\ closed
    /\ Fails(c, "closed")
    /\ UNCHANGED <<connVars, writeMu, id, calls, runVars, peerVars, closer, onClose>>

SelectResult(c) ==
    /\ pc[c] = "waiting"
    /\ chan[id[c]] # Empty
    /\ Return(c, chan[id[c]])
    /\ chan' = [chan EXCEPT ![id[c]] = Empty]
    /\ UNCHANGED <<closed, nextID, pending, writeMu, id, calls, runVars, peerVars,
                   closer, onClose>>

\* Mutant: the expired request stays in pending.
CancelledStays(c) ==
    /\ pc[c] = "cancelled"
    /\ Fails(c, "cancelled")
    /\ UNCHANGED <<connVars, writeMu, id, calls, runVars, peerVars, closer, onClose>>

SendCancelled(c) ==
    /\ pc[c] = "cancelled"
    /\ RemovePending(id[c])
    /\ Fails(c, "cancelled")
    /\ UNCHANGED <<closed, nextID, chan, writeMu, id, calls, runVars, peerVars, closer, onClose>>

------------------------------------------------------------------------------
(* Run *)

\* Mutants: the channel is not deleted; it is deleted before it is looked up.
ResponseKept(r) ==
    /\ run = "reading"
    /\ r \in replies
    /\ replies' = replies \ {r}
    /\ IF r.id \in pending
       THEN run' = "delivering" /\ taken' = r
       ELSE UNCHANGED runVars
    /\ UNCHANGED <<connVars, sendVars, conn, wire, answers, noise, closer, onClose>>

ResponseDeletedFirst(r) ==
    /\ run = "reading"
    /\ r \in replies
    /\ replies' = replies \ {r}
    /\ RemovePending(r.id)
    /\ UNCHANGED <<closed, nextID, chan, sendVars, runVars, conn, wire, answers, noise,
                   closer, onClose>>

\* deliverResponse, up to the unlock: the channel leaves pending, if it is
\* still there.
RunResponse(r) ==
    /\ run = "reading"
    /\ r \in replies
    /\ replies' = replies \ {r}
    /\ IF r.id \in pending
       THEN run' = "delivering" /\ taken' = r
       ELSE UNCHANGED runVars
    /\ RemovePending(r.id)
    /\ UNCHANGED <<closed, nextID, chan, sendVars, conn, wire, answers, noise, closer, onClose>>

\* deliverResponse sends on the channel, which needs room in it.
RunDeliver ==
    /\ run = "delivering"
    /\ chan[taken.id] = Empty
    /\ chan' = [chan EXCEPT ![taken.id] = taken.answer]
    /\ run' = "reading"
    /\ UNCHANGED <<closed, nextID, pending, sendVars, taken, peerVars, closer, onClose>>

\* onEvent is called in Run's own goroutine: nothing is read meanwhile.
RunEvent ==
    /\ run = "reading"
    /\ "event" \in noise
    /\ noise' = noise \ {"event"}
    /\ run' = "dispatching"
    /\ UNCHANGED <<connVars, sendVars, taken, conn, wire, answers, replies, closer, onClose>>

RunEventDone ==
    /\ run = "dispatching"
    /\ run' \in {"reading", "failed"}
    /\ UNCHANGED <<connVars, sendVars, taken, peerVars, closer, onClose>>

\* A read error, or a message that is no JSON.
RunFails ==
    /\ run = "reading"
    /\ \/ conn = "closed" /\ UNCHANGED noise
       \/ "garbage" \in noise /\ noise' = noise \ {"garbage"}
    /\ run' = "failed"
    /\ UNCHANGED <<connVars, sendVars, taken, conn, wire, answers, replies, closer, onClose>>

\* Mutant: Run returns the error without shutting down.
RunReturns ==
    /\ run = "failed"
    /\ run' = "returned"
    /\ UNCHANGED <<connVars, sendVars, taken, peerVars, closer, onClose>>

RunShutdown ==
    /\ run = "failed"
    /\ \/ DoShutdown /\ run' = "notifying"
       \/ SkipShutdown /\ run' = "returned"
    /\ UNCHANGED <<sendVars, taken, peerVars, closer, onClose>>

RunNotify ==
    /\ run = "notifying"
    /\ onClose' = onClose + 1
    /\ run' = "returned"
    /\ UNCHANGED <<connVars, sendVars, taken, peerVars, closer>>

------------------------------------------------------------------------------
(* Close *)

CloseConn(p) ==
    /\ closer[p] = "idle"
    /\ conn' = "closed"
    /\ closer' = [closer EXCEPT ![p] = "closing"]
    /\ UNCHANGED <<connVars, sendVars, runVars, wire, answers, replies, noise, onClose>>

CloseShutdown(p) ==
    /\ closer[p] = "closing"
    /\ \/ DoShutdown /\ closer' = [closer EXCEPT ![p] = "notifying"]
       \/ SkipShutdown /\ closer' = [closer EXCEPT ![p] = "returned"]
    /\ UNCHANGED <<sendVars, runVars, peerVars, onClose>>

CloseNotify(p) ==
    /\ closer[p] = "notifying"
    /\ onClose' = onClose + 1
    /\ closer' = [closer EXCEPT ![p] = "returned"]
    /\ UNCHANGED <<connVars, sendVars, runVars, peerVars>>

------------------------------------------------------------------------------
(* The extension and the network, external to the code. *)

ExtensionAnswers(f) ==
    /\ conn = "open"
    /\ f \in wire
    /\ answers[f.id] < MaxAnswers
    /\ answers' = [answers EXCEPT ![f.id] = @ + 1]
    /\ replies' = replies \cup {[id |-> f.id, answer |-> [kind |-> "reply", re |-> f.call],
                                 nth |-> answers[f.id] + 1]}
    /\ UNCHANGED <<connVars, sendVars, runVars, conn, wire, noise, closer, onClose>>

ExtensionSends ==
    /\ conn = "open"
    /\ \E m \in {"event", "garbage"} : noise' = noise \cup {m}
    /\ UNCHANGED <<connVars, sendVars, runVars, conn, wire, answers, replies, closer, onClose>>

ConnectionBreaks ==
    /\ conn = "open"
    /\ conn' = "closed"
    /\ UNCHANGED <<connVars, sendVars, runVars, wire, answers, replies, noise, closer, onClose>>

------------------------------------------------------------------------------

Init ==
    /\ conn = "open"
    /\ closed = FALSE
    /\ nextID = 0
    /\ pending = {}
    /\ chan = [i \in Ids |-> Empty]
    /\ writeMu = NoOne
    /\ pc = [c \in Callers |-> "idle"]
    /\ id = [c \in Callers |-> 0]
    /\ calls = [c \in Callers |-> 0]
    /\ result = [c \in Callers |-> [kind |-> "none", re |-> NoCall]]
    /\ run = "reading"
    /\ taken = NoReply
    /\ closer = [p \in Closers |-> "idle"]
    /\ wire = {}
    /\ answers = [i \in Ids |-> 0]
    /\ replies = {}
    /\ noise = {}
    /\ onClose = 0

\* What the goroutine of a Send that has started does next.
SendStep(c) ==
    \/ SendLock(c) \/ SendWrite(c) \/ SendWriteFails(c)
    \/ SendForget(c) \/ SendShutdown(c) \/ SendNotify(c)
    \/ SelectDone(c) \/ SelectResult(c) \/ SendCancelled(c)

RunReads == \E r \in replies : RunResponse(r)

\* What Run's goroutine does next; RunEventDone is onEvent's.
RunStep ==
    \/ RunReads \/ RunDeliver \/ RunEvent
    \/ RunFails \/ RunShutdown \/ RunNotify

CloseStep(p) == CloseShutdown(p) \/ CloseNotify(p)

Environment ==
    \/ \E f \in wire : ExtensionAnswers(f)
    \/ ExtensionSends
    \/ ConnectionBreaks

Next ==
    \/ \E c \in Callers :
           \/ SendRefused(c) \/ SendRegister(c) \/ SendMarshalFails(c) \/ SelectExpired(c)
           \/ SendStep(c)
    \/ RunStep \/ RunEventDone
    \/ \E p \in Closers : CloseConn(p) \/ CloseStep(p)
    \/ Environment

Spec == Init /\ [][Next]_vars

\* A goroutine that can run does run, and the websocket is a FIFO: an answer
\* is not overtaken by other messages for ever.  No context has to expire,
\* nobody has to call Send or Close, and the extension need not answer.  Nor
\* does onEvent have to return: it writes to the CDP client without a deadline
\* (cdpWriter.Write in server.go), and holds Run up if that does not read.
Fairness ==
    /\ \A c \in Callers : WF_vars(SendStep(c))
    /\ WF_vars(RunStep)
    /\ SF_vars(RunReads)
    /\ \A p \in Closers : WF_vars(CloseStep(p))

FairSpec == Spec /\ Fairness

------------------------------------------------------------------------------
(* Properties *)

Frames  == [id : Ids, call : CallIds]
Replies == [id : Ids, answer : Answers, nth : Nat]

\* The variables have their types.
TypeOK ==
    /\ conn \in {"open", "closed"}
    /\ closed \in BOOLEAN
    /\ nextID \in 0 .. MaxID
    /\ pending \subseteq Ids
    /\ chan \in [Ids -> {Empty, Shutdown} \cup Answers]
    /\ writeMu \in Callers \cup {NoOne}
    /\ pc \in [Callers -> SendPC]
    /\ id \in [Callers -> 0 .. MaxID]
    /\ \A c \in Callers : pc[c] # "idle" => id[c] \in Ids
    /\ calls \in [Callers -> Nat]
    /\ result \in [Callers -> Outcomes]
    /\ run \in {"reading", "delivering", "dispatching", "failed", "notifying", "returned"}
    /\ taken \in Replies \cup {NoReply}
    /\ run = "delivering" => taken \in Replies
    /\ closer \in [Closers -> {"idle", "closing", "notifying", "returned"}]
    /\ wire \subseteq Frames
    /\ answers \in [Ids -> Nat]
    /\ replies \subseteq Replies
    /\ noise \subseteq {"event", "garbage"}
    /\ onClose \in Nat

\* A channel has room for one message, and shutdown sends on all the pending
\* ones with c.mu held, deliverResponse on the one it took out: neither ever
\* finds the slot taken, so c.mu is never held by a goroutine that blocks,
\* and Run never stops reading.
NoBlockedSender ==
    /\ \A i \in pending : chan[i] = Empty
    /\ run = "delivering" => chan[taken.id] = Empty

\* c.pending holds no request whose Send has returned, however it returned:
\* timed-out requests do not pile up in the map.
NoLeak == \A i \in pending : \E c \in Callers : pc[c] # "idle" /\ id[c] = i

\* Run, a failing Send and Close all reach shutdown: only one of them calls
\* c.onClose, and nothing is registered on the connection afterwards, where it
\* would never be answered.
ShutdownIsFinal ==
    /\ onClose <= (IF closed THEN 1 ELSE 0)
    /\ closed => pending = {}

\* Send implements the abstract request/reply service.  A caller is in its
\* call until Send returns, and a call is answered once the extension has
\* answered its frame.
Calling == {c \in Callers : pc[c] # "idle"}

AnsweredCalls == {f.call : f \in {g \in wire : answers[g.id] > 0}}

Ending(kind) ==
    CASE kind = "none" -> "none"
      [] kind = "reply" -> "answer"
      [] kind \in {"closed", "shutdown"} -> "down"
      [] OTHER -> "error"

Service == INSTANCE RequestReply WITH
    calling  <- Calling,
    seq      <- calls,
    answered <- AnsweredCalls,
    outcome  <- [c \in Callers |-> Ending(result[c].kind)],
    down     <- closed

\* Whatever Run, timeouts, duplicated answers and shutdown do concurrently, an
\* answer returned by Send answers the very request that Send wrote.
ImplementsService == Service!Spec

\* onEvent returns each time: Run is not held up in it for good.
EventsReturn == []<>(run # "dispatching")

\* A call that the shutdown has caught returns, even if its context never expires
\* and Run is held up for good; one that is answered returns, too, if Run is not.
ImplementsFairService ==
    /\ Service!DownReturns
    /\ EventsReturn => Service!AnswersReturn

\* The connection is down, or someone has found out that it must be: Run cannot
\* go on reading, a write has failed, or Close has been called.
LossNoticed ==
    \/ closed \/ run = "failed"
    \/ \E c \in Callers : pc[c] = "writeFailed"
    \/ \E p \in Closers : closer[p] = "closing"

LossHandled == onClose = 1 /\ \A c \in Callers : pc[c] = "idle"

\* Whoever finds out, every Send returns and the relay is told through onClose,
\* even if Run is held up for good.  A websocket that is closed without a call
\* of the code is found out by Run, and so only if Run is not held up.
LossIsHandled ==
    /\ LossNoticed ~> LossHandled
    /\ EventsReturn => (conn = "closed" ~> LossHandled)

==============================================================================
