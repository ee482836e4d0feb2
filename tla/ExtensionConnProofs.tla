------------------------- MODULE ExtensionConnProofs -------------------------
(* Proofs of the safety properties of ExtensionConn, for any number of      *)
(* callers, closers, requests and answers.                                  *)
EXTENDS ExtensionConn, TLAPS

(***************************************************************************)
(* The inductive invariant, in three parts that build on TypeOK.           *)
(***************************************************************************)
Active(c) == pc[c] # "idle"

\* The shutdown happens once, and the goroutine that won it calls c.onClose.
NobodyNotifies ==
    /\ \A c \in Callers : pc[c] # "notifying"
    /\ \A p \in Closers : closer[p] # "notifying"
    /\ run # "notifying"

CloseInv ==
    /\ \A c, d \in Callers : pc[c] = "notifying" /\ pc[d] = "notifying" => c = d
    /\ \A p, q \in Closers : closer[p] = "notifying" /\ closer[q] = "notifying" => p = q
    /\ \A c \in Callers, p \in Closers : ~(pc[c] = "notifying" /\ closer[p] = "notifying")
    /\ \A c \in Callers : ~(pc[c] = "notifying" /\ run = "notifying")
    /\ \A p \in Closers : ~(closer[p] = "notifying" /\ run = "notifying")
    /\ onClose <= 1
    /\ ~closed => onClose = 0
    /\ ~closed \/ onClose = 1 => NobodyNotifies
    /\ closed => pending = {}
    /\ \A i \in Ids : chan[i] = Shutdown => closed

\* An id belongs to one request, and its channel is used once.
IdInv ==
    /\ \A i \in pending : i <= nextID /\ chan[i] = Empty
    /\ \A i \in pending : \E c \in Callers : Active(c) /\ id[c] = i
    /\ \A c \in Callers : Active(c) => id[c] <= nextID /\ calls[c] > 0
    /\ \A c, d \in Callers : Active(c) /\ Active(d) /\ id[c] = id[d] => c = d
    /\ \A c \in Callers : pc[c] \in {"failing", "notifying"} => id[c] \notin pending
    /\ \A f \in wire : f.id <= nextID
    /\ \A r \in replies : r.id <= nextID
    /\ run = "delivering" =>
           taken.id \notin pending /\ taken.id <= nextID /\ chan[taken.id] = Empty

\* The extension has read request k under the id i and has answered it.
Answered(i, k) == [id |-> i, call |-> k] \in wire /\ answers[i] > 0

\* Every answer is filed under the id of the request it answers.
PairInv ==
    /\ \A f \in wire : f.call[2] \in 1 .. calls[f.call[1]]
    /\ \A f, g \in wire : f.id = g.id => f = g
    /\ \A f \in wire, c \in Callers :
           Active(c) /\ f.id = id[c] => f.call = Call(c) /\ pc[c] \notin {"registered", "writing"}
    /\ \A i \in Ids : answers[i] > 0 => \E f \in wire : f.id = i
    /\ \A r \in replies : Answered(r.id, r.answer.re)
    /\ run = "delivering" => Answered(taken.id, taken.answer.re)
    /\ \A i \in Ids : chan[i].kind = "reply" => Answered(i, chan[i].re)

IInv == TypeOK /\ CloseInv /\ IdInv /\ PairInv

(***************************************************************************)
(* The shapes of the values in channels and results.                       *)
(***************************************************************************)
LEMMA Shapes ==
    /\ Empty # Shutdown
    /\ Empty \notin Answers
    /\ Shutdown \notin Answers
    /\ \A a \in Answers : a.kind = "reply" /\ a.re \in CallIds
    /\ Empty.kind = "empty" /\ Shutdown.kind = "shutdown"
    /\ Answers \cup {Shutdown} \subseteq Outcomes
    /\ NoReply \notin Replies
  BY ConnAssumption DEF Empty, Shutdown, Answers, Outcomes, NoReply, Replies, Ids

LEMMA CallTyped ==
    ASSUME TypeOK, NEW c \in Callers
    PROVE  Call(c) \in CallIds
  BY DEF TypeOK, Call, CallIds

LEMMA FailsTyped ==
    ASSUME TypeOK, NEW c \in Callers,
           NEW kind \in {"closed", "cancelled", "marshal", "write"}, Fails(c, kind)
    PROVE  /\ pc' = [pc EXCEPT ![c] = "idle"]
           /\ pc' \in [Callers -> SendPC]
           /\ result' \in [Callers -> Outcomes]
<1>1. [kind |-> kind, re |-> Call(c)] \in Outcomes
  BY CallTyped DEF Outcomes
<1> QED
  BY <1>1 DEF TypeOK, Fails, Return, SendPC

LEMMA ShutdownTyped ==
    ASSUME TypeOK, DoShutdown \/ SkipShutdown
    PROVE  /\ closed' \in BOOLEAN
           /\ nextID' \in 0 .. MaxID
           /\ pending' \subseteq Ids
           /\ chan' \in [Ids -> {Empty, Shutdown} \cup Answers]
           /\ nextID' = nextID
           /\ pending' \subseteq pending
           /\ closed'
           /\ \A i \in Ids \ pending : chan'[i] = chan[i]
           /\ \A i \in Ids : chan'[i] \in {chan[i], Shutdown}
  BY DEF TypeOK, DoShutdown, SkipShutdown, connVars

(***************************************************************************)
(* Type correctness.                                                       *)
(***************************************************************************)
LEMMA TypeInit == Init => TypeOK
<1> DEFINE nothing == [kind |-> "none", re |-> NoCall]
<1>1. nothing \in Outcomes
  BY DEF Outcomes
<1>2. ASSUME Init PROVE result \in [Callers -> Outcomes]
  <2>1. result = [c \in Callers |-> nothing]
    BY <1>2 DEF Init
  <2> HIDE DEF nothing
  <2> QED
    BY <1>1, <2>1
<1>3. ASSUME Init PROVE \A c \in Callers : pc[c] = "idle"
  BY <1>3 DEF Init
<1> SUFFICES ASSUME Init PROVE TypeOK
  OBVIOUS
<1>4. /\ conn \in {"open", "closed"} /\ nextID \in 0 .. MaxID
      /\ run = "reading" /\ onClose \in Nat /\ writeMu = NoOne /\ taken = NoReply
      /\ pending = {} /\ wire = {} /\ replies = {} /\ noise = {}
  BY ConnAssumption DEF Init
<1>5. /\ pc \in [Callers -> SendPC] /\ id \in [Callers -> 0 .. MaxID]
      /\ calls \in [Callers -> Nat] /\ answers \in [Ids -> Nat]
      /\ closer \in [Closers -> {"idle", "closing", "notifying", "returned"}]
  BY ConnAssumption DEF Init, SendPC
<1>6. chan \in [Ids -> {Empty, Shutdown} \cup Answers]
  BY DEF Init
<1>7. closed \in BOOLEAN
  BY DEF Init
<1> QED
  BY <1>2, <1>3, <1>4, <1>5, <1>6, <1>7 DEF TypeOK

LEMMA TypeNext == TypeOK /\ [Next]_vars => TypeOK'
<1> SUFFICES ASSUME TypeOK, [Next]_vars PROVE TypeOK'
  OBVIOUS
<1>1. ASSUME NEW c \in Callers, SendRefused(c) PROVE TypeOK'
  BY <1>1, FailsTyped DEF SendRefused, TypeOK, connVars, runVars, peerVars
<1>2. ASSUME NEW c \in Callers, SendRegister(c) PROVE TypeOK'
  BY <1>2, ConnAssumption DEF SendRegister, Register, TypeOK, runVars, peerVars, SendPC, Ids, Outcomes
<1>3. ASSUME NEW c \in Callers, SendMarshalFails(c) PROVE TypeOK'
  BY <1>3, FailsTyped DEF SendMarshalFails, TypeOK, runVars, peerVars, RemovePending
<1>4. ASSUME NEW c \in Callers, SendLock(c) PROVE TypeOK'
  BY <1>4 DEF SendLock, TypeOK, connVars, runVars, peerVars, SendPC
<1>5. ASSUME NEW c \in Callers, SendWrite(c) PROVE TypeOK'
  BY <1>5, CallTyped DEF SendWrite, TypeOK, connVars, runVars, SendPC, Frames
<1>6. ASSUME NEW c \in Callers, SendWriteFails(c) PROVE TypeOK'
  BY <1>6 DEF SendWriteFails, TypeOK, connVars, runVars, SendPC
<1>7. ASSUME NEW c \in Callers, SendForget(c) PROVE TypeOK'
  BY <1>7 DEF SendForget, TypeOK, runVars, peerVars, RemovePending, SendPC
<1>8. ASSUME NEW c \in Callers, SendShutdown(c) PROVE TypeOK'
  BY <1>8, FailsTyped, ShutdownTyped DEF SendShutdown, TypeOK, runVars, peerVars, SendPC
<1>9. ASSUME NEW c \in Callers, SendNotify(c) PROVE TypeOK'
  BY <1>9, FailsTyped DEF SendNotify, TypeOK, connVars, runVars, peerVars
<1>10. ASSUME NEW c \in Callers, SelectExpired(c) PROVE TypeOK'
  BY <1>10 DEF SelectExpired, TypeOK, connVars, runVars, peerVars, SendPC
<1>11. ASSUME NEW c \in Callers, SelectDone(c) PROVE TypeOK'
  BY <1>11, FailsTyped DEF SelectDone, TypeOK, connVars, runVars, peerVars
<1>12. ASSUME NEW c \in Callers, SelectResult(c) PROVE TypeOK'
  BY <1>12, Shapes DEF SelectResult, TypeOK, runVars, peerVars, Return, SendPC
<1>13. ASSUME NEW c \in Callers, SendCancelled(c) PROVE TypeOK'
  BY <1>13, FailsTyped DEF SendCancelled, TypeOK, runVars, peerVars, RemovePending
<1>14. ASSUME NEW r \in replies, RunResponse(r) PROVE TypeOK'
  BY <1>14 DEF RunResponse, TypeOK, sendVars, runVars, RemovePending
<1>15. CASE RunDeliver
  BY <1>15, Shapes DEF RunDeliver, TypeOK, sendVars, peerVars, Replies
<1>16. CASE RunEvent
  BY <1>16 DEF RunEvent, TypeOK, connVars, sendVars
<1>17. CASE RunEventDone
  BY <1>17 DEF RunEventDone, TypeOK, connVars, sendVars, peerVars
<1>18. CASE RunFails
  BY <1>18 DEF RunFails, TypeOK, connVars, sendVars
<1>19. CASE RunShutdown
  BY <1>19, ShutdownTyped DEF RunShutdown, TypeOK, sendVars, peerVars
<1>20. CASE RunNotify
  BY <1>20 DEF RunNotify, TypeOK, connVars, sendVars, peerVars
<1>21. ASSUME NEW p \in Closers, CloseConn(p) PROVE TypeOK'
  BY <1>21 DEF CloseConn, TypeOK, connVars, sendVars, runVars
<1>22. ASSUME NEW p \in Closers, CloseShutdown(p) PROVE TypeOK'
  BY <1>22, ShutdownTyped DEF CloseShutdown, TypeOK, sendVars, runVars, peerVars
<1>23. ASSUME NEW p \in Closers, CloseNotify(p) PROVE TypeOK'
  BY <1>23 DEF CloseNotify, TypeOK, connVars, sendVars, runVars, peerVars
<1>24. ASSUME NEW f \in wire, ExtensionAnswers(f) PROVE TypeOK'
  BY <1>24 DEF ExtensionAnswers, TypeOK, connVars, sendVars, runVars, Replies, Answers, Frames
<1>25. CASE ExtensionSends
  BY <1>25 DEF ExtensionSends, TypeOK, connVars, sendVars, runVars
<1>26. CASE ConnectionBreaks
  BY <1>26 DEF ConnectionBreaks, TypeOK, connVars, sendVars, runVars
<1>27. CASE UNCHANGED vars
  BY <1>27 DEF vars, connVars, sendVars, runVars, peerVars, TypeOK
<1> QED
  BY <1>1, <1>2, <1>3, <1>4, <1>5, <1>6, <1>7, <1>8, <1>9, <1>10, <1>11, <1>12, <1>13, <1>14, <1>15, <1>16, <1>17, <1>18, <1>19, <1>20, <1>21, <1>22, <1>23, <1>24, <1>25, <1>26, <1>27 DEF Next, SendStep, RunStep, RunReads, CloseStep, Environment

(***************************************************************************)
(* The shutdown happens once.                                              *)
(***************************************************************************)
LEMMA CloseInit == Init => CloseInv
  BY Shapes DEF Init, CloseInv, NobodyNotifies

LEMMA CloseNext == TypeOK /\ CloseInv /\ [Next]_vars => CloseInv'
<1> SUFFICES ASSUME TypeOK, CloseInv, [Next]_vars PROVE CloseInv'
  OBVIOUS
<1>1. ASSUME NEW c \in Callers, SendRefused(c) PROVE CloseInv'
  BY <1>1, FailsTyped DEF SendRefused, TypeOK, CloseInv, NobodyNotifies, connVars, runVars, peerVars
<1>2. ASSUME NEW c \in Callers, SendRegister(c) PROVE CloseInv'
  BY <1>2, Shapes DEF SendRegister, Register, TypeOK, CloseInv, NobodyNotifies, runVars, peerVars
<1>3. ASSUME NEW c \in Callers, SendMarshalFails(c) PROVE CloseInv'
  BY <1>3, FailsTyped DEF SendMarshalFails, TypeOK, CloseInv, NobodyNotifies, runVars, peerVars, RemovePending
<1>4. ASSUME NEW c \in Callers, SendLock(c) PROVE CloseInv'
  BY <1>4 DEF SendLock, TypeOK, CloseInv, NobodyNotifies, connVars, runVars, peerVars
<1>5. ASSUME NEW c \in Callers, SendWrite(c) PROVE CloseInv'
  BY <1>5 DEF SendWrite, TypeOK, CloseInv, NobodyNotifies, connVars, runVars
<1>6. ASSUME NEW c \in Callers, SendWriteFails(c) PROVE CloseInv'
  BY <1>6 DEF SendWriteFails, TypeOK, CloseInv, NobodyNotifies, connVars, runVars
<1>7. ASSUME NEW c \in Callers, SendForget(c) PROVE CloseInv'
  BY <1>7 DEF SendForget, TypeOK, CloseInv, NobodyNotifies, runVars, peerVars, RemovePending
<1>8. ASSUME NEW c \in Callers, SendShutdown(c) PROVE CloseInv'
  BY <1>8, FailsTyped DEF SendShutdown, TypeOK, CloseInv, NobodyNotifies, runVars, peerVars, DoShutdown, SkipShutdown, connVars
<1>9. ASSUME NEW c \in Callers, SendNotify(c) PROVE CloseInv'
  BY <1>9, FailsTyped DEF SendNotify, TypeOK, CloseInv, NobodyNotifies, connVars, runVars, peerVars
<1>10. ASSUME NEW c \in Callers, SelectExpired(c) PROVE CloseInv'
  BY <1>10 DEF SelectExpired, TypeOK, CloseInv, NobodyNotifies, connVars, runVars, peerVars
<1>11. ASSUME NEW c \in Callers, SelectDone(c) PROVE CloseInv'
  BY <1>11, FailsTyped DEF SelectDone, TypeOK, CloseInv, NobodyNotifies, connVars, runVars, peerVars
<1>12. ASSUME NEW c \in Callers, SelectResult(c) PROVE CloseInv'
  BY <1>12, Shapes DEF SelectResult, TypeOK, CloseInv, NobodyNotifies, runVars, peerVars, Return
<1>13. ASSUME NEW c \in Callers, SendCancelled(c) PROVE CloseInv'
  BY <1>13, FailsTyped DEF SendCancelled, TypeOK, CloseInv, NobodyNotifies, runVars, peerVars, RemovePending
<1>14. ASSUME NEW r \in replies, RunResponse(r) PROVE CloseInv'
  BY <1>14 DEF RunResponse, TypeOK, CloseInv, NobodyNotifies, sendVars, runVars, RemovePending
<1>15. CASE RunDeliver
  BY <1>15, Shapes DEF RunDeliver, TypeOK, CloseInv, NobodyNotifies, sendVars, peerVars, Replies
<1>16. CASE RunEvent
  BY <1>16 DEF RunEvent, TypeOK, CloseInv, NobodyNotifies, connVars, sendVars
<1>17. CASE RunEventDone
  BY <1>17 DEF RunEventDone, TypeOK, CloseInv, NobodyNotifies, connVars, sendVars, peerVars
<1>18. CASE RunFails
  BY <1>18 DEF RunFails, TypeOK, CloseInv, NobodyNotifies, connVars, sendVars
<1>19. CASE RunShutdown
  BY <1>19 DEF RunShutdown, TypeOK, CloseInv, NobodyNotifies, sendVars, peerVars, DoShutdown, SkipShutdown, connVars
<1>20. CASE RunNotify
  BY <1>20 DEF RunNotify, TypeOK, CloseInv, NobodyNotifies, connVars, sendVars, peerVars
<1>21. ASSUME NEW p \in Closers, CloseConn(p) PROVE CloseInv'
  BY <1>21 DEF CloseConn, TypeOK, CloseInv, NobodyNotifies, connVars, sendVars, runVars
<1>22. ASSUME NEW p \in Closers, CloseShutdown(p) PROVE CloseInv'
  BY <1>22 DEF CloseShutdown, TypeOK, CloseInv, NobodyNotifies, sendVars, runVars, peerVars, DoShutdown, SkipShutdown, connVars
<1>23. ASSUME NEW p \in Closers, CloseNotify(p) PROVE CloseInv'
  BY <1>23 DEF CloseNotify, TypeOK, CloseInv, NobodyNotifies, connVars, sendVars, runVars, peerVars
<1>24. ASSUME NEW f \in wire, ExtensionAnswers(f) PROVE CloseInv'
  BY <1>24 DEF ExtensionAnswers, TypeOK, CloseInv, NobodyNotifies, connVars, sendVars, runVars
<1>25. CASE ExtensionSends
  BY <1>25 DEF ExtensionSends, TypeOK, CloseInv, NobodyNotifies, connVars, sendVars, runVars
<1>26. CASE ConnectionBreaks
  BY <1>26 DEF ConnectionBreaks, TypeOK, CloseInv, NobodyNotifies, connVars, sendVars, runVars
<1>27. CASE UNCHANGED vars
  BY <1>27 DEF vars, connVars, sendVars, runVars, peerVars, TypeOK, CloseInv, NobodyNotifies
<1> QED
  BY <1>1, <1>2, <1>3, <1>4, <1>5, <1>6, <1>7, <1>8, <1>9, <1>10, <1>11, <1>12, <1>13, <1>14, <1>15, <1>16, <1>17, <1>18, <1>19, <1>20, <1>21, <1>22, <1>23, <1>24, <1>25, <1>26, <1>27 DEF Next, SendStep, RunStep, RunReads, CloseStep, Environment

(***************************************************************************)
(* An id belongs to one request, and its channel is used once.             *)
(***************************************************************************)
LEMMA IdInit == Init => IdInv
  BY ConnAssumption DEF Init, IdInv, Active

LEMMA IdNext == TypeOK /\ CloseInv /\ IdInv /\ [Next]_vars => IdInv'
<1> SUFFICES ASSUME TypeOK, CloseInv, IdInv, [Next]_vars PROVE IdInv'
  OBVIOUS
<1>1. ASSUME NEW c \in Callers, SendRefused(c) PROVE IdInv'
  BY <1>1, FailsTyped DEF SendRefused, TypeOK, CloseInv, IdInv, Active, connVars, runVars, peerVars
<1>2. ASSUME NEW c \in Callers, SendRegister(c) PROVE IdInv'
  <2> DEFINE new == nextID + 1
  <2>1. /\ new \in Ids /\ new = nextID + 1 /\ nextID' = new /\ nextID \in Nat
        /\ pending' = pending \cup {new}
        /\ chan' = [chan EXCEPT ![new] = Empty]
        /\ pc' = [pc EXCEPT ![c] = "registered"] /\ id' = [id EXCEPT ![c] = new]
        /\ calls' = [calls EXCEPT ![c] = @ + 1]
        /\ UNCHANGED <<run, taken, wire, replies>>
    BY <1>2, ConnAssumption DEF SendRegister, Register, TypeOK, Ids, runVars, peerVars
  <2> HIDE DEF new
  <2>2. \A i \in pending' : i <= nextID' /\ chan'[i] = Empty
    BY <2>1 DEF IdInv, TypeOK, Ids
  <2>3. \A i \in pending' : \E d \in Callers : Active(d)' /\ id'[d] = i
    BY <1>2, <2>1 DEF SendRegister, Register, IdInv, TypeOK, Active
  <2>4. \A d \in Callers : Active(d)' => id'[d] <= nextID' /\ calls'[d] > 0
    BY <2>1 DEF IdInv, TypeOK, Active, Ids
  <2>5. \A d, e \in Callers : Active(d)' /\ Active(e)' /\ id'[d] = id'[e] => d = e
    BY <2>1 DEF IdInv, TypeOK, Active, Ids
  <2>6. ASSUME NEW d \in Callers, pc'[d] \in {"failing", "notifying"}
        PROVE  id'[d] \notin pending'
    <3>1. d # c
      BY <2>1, <2>6 DEF TypeOK
    <3>2. pc[d] \in {"failing", "notifying"} /\ id'[d] = id[d] /\ id[d] \in Nat
      BY <2>1, <2>6, <3>1 DEF TypeOK
    <3>3. id[d] \notin pending /\ id[d] <= nextID
      BY <3>2 DEF IdInv, Active
    <3> QED
      BY <2>1, <3>2, <3>3
  <2>7. /\ \A f \in wire' : f.id <= nextID'
        /\ \A r \in replies' : r.id <= nextID'
    BY <2>1 DEF IdInv, TypeOK, Frames, Replies, Ids
  <2>8. run' = "delivering" =>
            taken'.id \notin pending' /\ taken'.id <= nextID' /\ chan'[taken'.id] = Empty
    BY <2>1 DEF IdInv, TypeOK, Replies, Ids
  <2> QED
    BY <2>2, <2>3, <2>4, <2>5, <2>6, <2>7, <2>8 DEF IdInv
<1>3. ASSUME NEW c \in Callers, SendMarshalFails(c) PROVE IdInv'
  BY <1>3, FailsTyped DEF SendMarshalFails, TypeOK, CloseInv, IdInv, Active, runVars, peerVars, RemovePending
<1>4. ASSUME NEW c \in Callers, SendLock(c) PROVE IdInv'
  BY <1>4 DEF SendLock, TypeOK, CloseInv, IdInv, Active, connVars, runVars, peerVars
<1>5. ASSUME NEW c \in Callers, SendWrite(c) PROVE IdInv'
  BY <1>5 DEF SendWrite, TypeOK, CloseInv, IdInv, Active, connVars, runVars
<1>6. ASSUME NEW c \in Callers, SendWriteFails(c) PROVE IdInv'
  BY <1>6 DEF SendWriteFails, TypeOK, CloseInv, IdInv, Active, connVars, runVars
<1>7. ASSUME NEW c \in Callers, SendForget(c) PROVE IdInv'
  BY <1>7 DEF SendForget, TypeOK, CloseInv, IdInv, Active, runVars, peerVars, RemovePending
<1>8. ASSUME NEW c \in Callers, SendShutdown(c) PROVE IdInv'
  <2>1. pc[c] = "failing" /\ pc' \in [Callers -> SendPC]
        /\ pc' \in {[pc EXCEPT ![c] = "notifying"], [pc EXCEPT ![c] = "idle"]}
    BY <1>8, FailsTyped DEF SendShutdown, TypeOK, SendPC
  <2>2. pending' = {}
    BY <1>8 DEF SendShutdown, DoShutdown, SkipShutdown, CloseInv, connVars
  <2>3. UNCHANGED <<id, calls, run, taken, wire, replies>> /\ nextID' = nextID
    BY <1>8, ShutdownTyped DEF SendShutdown, runVars, peerVars
  <2>4. run = "delivering" => chan'[taken.id] = chan[taken.id]
    BY <1>8, ShutdownTyped DEF SendShutdown, TypeOK, IdInv, Replies
  <2> QED
    BY <2>1, <2>2, <2>3, <2>4 DEF TypeOK, IdInv, Active
<1>9. ASSUME NEW c \in Callers, SendNotify(c) PROVE IdInv'
  BY <1>9, FailsTyped DEF SendNotify, TypeOK, CloseInv, IdInv, Active, connVars, runVars, peerVars
<1>10. ASSUME NEW c \in Callers, SelectExpired(c) PROVE IdInv'
  BY <1>10 DEF SelectExpired, TypeOK, CloseInv, IdInv, Active, connVars, runVars, peerVars
<1>11. ASSUME NEW c \in Callers, SelectDone(c) PROVE IdInv'
  BY <1>11, FailsTyped DEF SelectDone, TypeOK, CloseInv, IdInv, Active, connVars, runVars, peerVars
<1>12. ASSUME NEW c \in Callers, SelectResult(c) PROVE IdInv'
  BY <1>12, Shapes DEF SelectResult, TypeOK, CloseInv, IdInv, Active, runVars, peerVars, Return
<1>13. ASSUME NEW c \in Callers, SendCancelled(c) PROVE IdInv'
  BY <1>13, FailsTyped DEF SendCancelled, TypeOK, CloseInv, IdInv, Active, runVars, peerVars, RemovePending
<1>14. ASSUME NEW r \in replies, RunResponse(r) PROVE IdInv'
  BY <1>14 DEF RunResponse, TypeOK, CloseInv, IdInv, Active, sendVars, runVars, RemovePending, Replies
<1>15. CASE RunDeliver
  BY <1>15, Shapes DEF RunDeliver, TypeOK, CloseInv, IdInv, Active, sendVars, peerVars, Replies
<1>16. CASE RunEvent
  BY <1>16 DEF RunEvent, TypeOK, CloseInv, IdInv, Active, connVars, sendVars
<1>17. CASE RunEventDone
  BY <1>17 DEF RunEventDone, TypeOK, CloseInv, IdInv, Active, connVars, sendVars, peerVars
<1>18. CASE RunFails
  BY <1>18 DEF RunFails, TypeOK, CloseInv, IdInv, Active, connVars, sendVars
<1>19. CASE RunShutdown
  BY <1>19 DEF RunShutdown, TypeOK, CloseInv, IdInv, Active, sendVars, peerVars, DoShutdown, SkipShutdown, connVars
<1>20. CASE RunNotify
  BY <1>20 DEF RunNotify, TypeOK, CloseInv, IdInv, Active, connVars, sendVars, peerVars
<1>21. ASSUME NEW p \in Closers, CloseConn(p) PROVE IdInv'
  BY <1>21 DEF CloseConn, TypeOK, CloseInv, IdInv, Active, connVars, sendVars, runVars
<1>22. ASSUME NEW p \in Closers, CloseShutdown(p) PROVE IdInv'
  <2>1. pending' = {}
    BY <1>22 DEF CloseShutdown, DoShutdown, SkipShutdown, CloseInv, connVars
  <2>2. UNCHANGED <<pc, id, calls, run, taken, wire, replies>> /\ nextID' = nextID
    BY <1>22, ShutdownTyped DEF CloseShutdown, sendVars, runVars, peerVars
  <2>3. run = "delivering" => chan'[taken.id] = chan[taken.id]
    BY <1>22, ShutdownTyped DEF CloseShutdown, TypeOK, IdInv, Replies
  <2> QED
    BY <2>1, <2>2, <2>3 DEF IdInv, Active
<1>23. ASSUME NEW p \in Closers, CloseNotify(p) PROVE IdInv'
  BY <1>23 DEF CloseNotify, TypeOK, CloseInv, IdInv, Active, connVars, sendVars, runVars, peerVars
<1>24. ASSUME NEW f \in wire, ExtensionAnswers(f) PROVE IdInv'
  BY <1>24 DEF ExtensionAnswers, TypeOK, CloseInv, IdInv, Active, connVars, sendVars, runVars, Replies, Frames
<1>25. CASE ExtensionSends
  BY <1>25 DEF ExtensionSends, TypeOK, CloseInv, IdInv, Active, connVars, sendVars, runVars
<1>26. CASE ConnectionBreaks
  BY <1>26 DEF ConnectionBreaks, TypeOK, CloseInv, IdInv, Active, connVars, sendVars, runVars
<1>27. CASE UNCHANGED vars
  BY <1>27 DEF vars, connVars, sendVars, runVars, peerVars, TypeOK, CloseInv, IdInv, Active
<1> QED
  BY <1>1, <1>2, <1>3, <1>4, <1>5, <1>6, <1>7, <1>8, <1>9, <1>10, <1>11, <1>12, <1>13, <1>14, <1>15, <1>16, <1>17, <1>18, <1>19, <1>20, <1>21, <1>22, <1>23, <1>24, <1>25, <1>26, <1>27 DEF Next, SendStep, RunStep, RunReads, CloseStep, Environment

(***************************************************************************)
(* An answer is filed under the id of the request it answers.              *)
(***************************************************************************)
LEMMA PairInit == Init => PairInv
  BY ConnAssumption DEF Init, PairInv, Active, Empty

LEMMA PairNext == TypeOK /\ IdInv /\ PairInv /\ [Next]_vars => PairInv'
<1> SUFFICES ASSUME TypeOK, IdInv, PairInv, [Next]_vars PROVE PairInv'
  OBVIOUS
<1>1. ASSUME NEW c \in Callers, SendRefused(c) PROVE PairInv'
  BY <1>1, FailsTyped DEF SendRefused, TypeOK, IdInv, PairInv, Active, Answered, Call, connVars, runVars, peerVars
<1>2. ASSUME NEW c \in Callers, SendRegister(c) PROVE PairInv'
  BY <1>2, Shapes DEF SendRegister, Register, TypeOK, IdInv, PairInv, Active, Answered, Call, runVars, peerVars, Ids
<1>3. ASSUME NEW c \in Callers, SendMarshalFails(c) PROVE PairInv'
  BY <1>3, FailsTyped DEF SendMarshalFails, TypeOK, IdInv, PairInv, Active, Answered, Call, runVars, peerVars, RemovePending
<1>4. ASSUME NEW c \in Callers, SendLock(c) PROVE PairInv'
  BY <1>4 DEF SendLock, TypeOK, IdInv, PairInv, Active, Answered, Call, connVars, runVars, peerVars
<1>5. ASSUME NEW c \in Callers, SendWrite(c) PROVE PairInv'
  BY <1>5 DEF SendWrite, TypeOK, IdInv, PairInv, Active, Answered, Call, connVars, runVars
<1>6. ASSUME NEW c \in Callers, SendWriteFails(c) PROVE PairInv'
  BY <1>6 DEF SendWriteFails, TypeOK, IdInv, PairInv, Active, Answered, Call, connVars, runVars
<1>7. ASSUME NEW c \in Callers, SendForget(c) PROVE PairInv'
  BY <1>7 DEF SendForget, TypeOK, IdInv, PairInv, Active, Answered, Call, runVars, peerVars, RemovePending
<1>8. ASSUME NEW c \in Callers, SendShutdown(c) PROVE PairInv'
  BY <1>8, FailsTyped, ShutdownTyped, Shapes DEF SendShutdown, TypeOK, IdInv, PairInv, Active, Answered, Call, runVars, peerVars
<1>9. ASSUME NEW c \in Callers, SendNotify(c) PROVE PairInv'
  BY <1>9, FailsTyped DEF SendNotify, TypeOK, IdInv, PairInv, Active, Answered, Call, connVars, runVars, peerVars
<1>10. ASSUME NEW c \in Callers, SelectExpired(c) PROVE PairInv'
  BY <1>10 DEF SelectExpired, TypeOK, IdInv, PairInv, Active, Answered, Call, connVars, runVars, peerVars
<1>11. ASSUME NEW c \in Callers, SelectDone(c) PROVE PairInv'
  BY <1>11, FailsTyped DEF SelectDone, TypeOK, IdInv, PairInv, Active, Answered, Call, connVars, runVars, peerVars
<1>12. ASSUME NEW c \in Callers, SelectResult(c) PROVE PairInv'
  BY <1>12, Shapes DEF SelectResult, TypeOK, IdInv, PairInv, Active, Answered, Call, runVars, peerVars, Return
<1>13. ASSUME NEW c \in Callers, SendCancelled(c) PROVE PairInv'
  BY <1>13, FailsTyped DEF SendCancelled, TypeOK, IdInv, PairInv, Active, Answered, Call, runVars, peerVars, RemovePending
<1>14. ASSUME NEW r \in replies, RunResponse(r) PROVE PairInv'
  BY <1>14 DEF RunResponse, TypeOK, IdInv, PairInv, Active, Answered, Call, sendVars, runVars, RemovePending
<1>15. CASE RunDeliver
  BY <1>15, Shapes DEF RunDeliver, TypeOK, IdInv, PairInv, Active, Answered, Call, sendVars, peerVars, Replies
<1>16. CASE RunEvent
  BY <1>16 DEF RunEvent, TypeOK, IdInv, PairInv, Active, Answered, Call, connVars, sendVars
<1>17. CASE RunEventDone
  BY <1>17 DEF RunEventDone, TypeOK, IdInv, PairInv, Active, Answered, Call, connVars, sendVars, peerVars
<1>18. CASE RunFails
  BY <1>18 DEF RunFails, TypeOK, IdInv, PairInv, Active, Answered, Call, connVars, sendVars
<1>19. CASE RunShutdown
  BY <1>19, ShutdownTyped, Shapes DEF RunShutdown, TypeOK, IdInv, PairInv, Active, Answered, Call, sendVars, peerVars
<1>20. CASE RunNotify
  BY <1>20 DEF RunNotify, TypeOK, IdInv, PairInv, Active, Answered, Call, connVars, sendVars, peerVars
<1>21. ASSUME NEW p \in Closers, CloseConn(p) PROVE PairInv'
  BY <1>21 DEF CloseConn, TypeOK, IdInv, PairInv, Active, Answered, Call, connVars, sendVars, runVars
<1>22. ASSUME NEW p \in Closers, CloseShutdown(p) PROVE PairInv'
  BY <1>22, ShutdownTyped, Shapes DEF CloseShutdown, TypeOK, IdInv, PairInv, Active, Answered, Call, sendVars, runVars, peerVars
<1>23. ASSUME NEW p \in Closers, CloseNotify(p) PROVE PairInv'
  BY <1>23 DEF CloseNotify, TypeOK, IdInv, PairInv, Active, Answered, Call, connVars, sendVars, runVars, peerVars
<1>24. ASSUME NEW f \in wire, ExtensionAnswers(f) PROVE PairInv'
  BY <1>24 DEF ExtensionAnswers, TypeOK, IdInv, PairInv, Active, Answered, Call, connVars, sendVars, runVars, Replies, Frames
<1>25. CASE ExtensionSends
  BY <1>25 DEF ExtensionSends, TypeOK, IdInv, PairInv, Active, Answered, Call, connVars, sendVars, runVars
<1>26. CASE ConnectionBreaks
  BY <1>26 DEF ConnectionBreaks, TypeOK, IdInv, PairInv, Active, Answered, Call, connVars, sendVars, runVars
<1>27. CASE UNCHANGED vars
  BY <1>27 DEF vars, connVars, sendVars, runVars, peerVars, TypeOK, IdInv, PairInv, Active, Answered, Call
<1> QED
  BY <1>1, <1>2, <1>3, <1>4, <1>5, <1>6, <1>7, <1>8, <1>9, <1>10, <1>11, <1>12, <1>13, <1>14, <1>15, <1>16, <1>17, <1>18, <1>19, <1>20, <1>21, <1>22, <1>23, <1>24, <1>25, <1>26, <1>27 DEF Next, SendStep, RunStep, RunReads, CloseStep, Environment

(***************************************************************************)
(* The invariant and the properties it implies.                            *)
(***************************************************************************)
LEMMA Invariance == Spec => []IInv
<1>1. Init => IInv
  BY TypeInit, CloseInit, IdInit, PairInit DEF IInv
<1>2. IInv /\ [Next]_vars => IInv'
  BY TypeNext, CloseNext, IdNext, PairNext DEF IInv
<1> QED
  BY <1>1, <1>2, PTL DEF Spec

\* The types of the variables of ExtensionConn are respected for any number
\* of goroutines, requests and answers.
THEOREM TypeCorrect == Spec => []TypeOK
<1>1. IInv => TypeOK
  BY DEF IInv
<1> QED
  BY <1>1, Invariance, PTL

\* Neither shutdown nor deliverResponse ever blocks on a full channel.
THEOREM NeverBlocks == Spec => []NoBlockedSender
<1>1. IInv => NoBlockedSender
  BY DEF IInv, IdInv, NoBlockedSender
<1> QED
  BY <1>1, Invariance, PTL

\* Every return path of Send gives its entry of c.pending back.
THEOREM PendingOwned == Spec => []NoLeak
<1>1. IInv => NoLeak
  BY DEF IInv, IdInv, NoLeak, Active
<1> QED
  BY <1>1, Invariance, PTL

\* Whoever notices the loss, c.onClose is called once at most, and nothing is
\* registered afterwards.
THEOREM ClosedOnce == Spec => []ShutdownIsFinal
<1>1. IInv => ShutdownIsFinal
  BY DEF IInv, TypeOK, CloseInv, ShutdownIsFinal
<1> QED
  BY <1>1, Invariance, PTL

(***************************************************************************)
(* The refinement of RequestReply.                                         *)
(***************************************************************************)
Outcome == [c \in Callers |-> Ending(result[c].kind)]

\* A step that leaves the mapped variables alone.
Invisible == UNCHANGED <<Calling, calls, AnsweredCalls, Outcome, closed>>

LEMMA InvisibleStutters == Invisible => UNCHANGED Service!vars
  BY DEF Invisible, Service!vars, Outcome

\* A caller that leaves Send with an outcome.
LEMMA ReturnMapped ==
    ASSUME TypeOK, NEW c \in Callers, NEW o \in Outcomes, Active(c), Return(c, o),
           UNCHANGED <<calls, wire, answers, closed>>
    PROVE  Service!Return(c, Ending(o.kind))
<1>1. c \in Calling /\ Calling' = Calling \ {c}
  BY DEF TypeOK, Return, Calling, Active
<1>2. Outcome' = [Outcome EXCEPT ![c] = Ending(o.kind)]
  BY DEF TypeOK, Return, Outcome
<1>3. UNCHANGED AnsweredCalls
  BY DEF AnsweredCalls
<1> QED
  BY <1>1, <1>2, <1>3 DEF Service!Return, Outcome

LEMMA FailsMapped ==
    ASSUME TypeOK, NEW c \in Callers, Active(c),
           NEW kind \in {"closed", "cancelled", "marshal", "write"}, Fails(c, kind),
           UNCHANGED <<calls, wire, answers, closed>>
    PROVE  Service!Return(c, IF kind = "closed" THEN "down" ELSE "error")
<1> DEFINE o == [kind |-> kind, re |-> Call(c)]
<1>1. o \in Outcomes /\ o.kind = kind
  BY CallTyped DEF Outcomes
<1>2. Return(c, o)
  BY DEF Fails
<1>3. Ending(o.kind) = IF kind = "closed" THEN "down" ELSE "error"
  BY <1>1 DEF Ending
<1> HIDE DEF o
<1>4. Service!Return(c, Ending(o.kind))
  BY <1>1, <1>2, ReturnMapped
<1> QED
  BY <1>3, <1>4

LEMMA InitMapped == Init => Service!Init
<1> SUFFICES ASSUME Init PROVE Service!Init
  OBVIOUS
<1>1. Calling = {} /\ AnsweredCalls = {}
  BY DEF Init, Calling, AnsweredCalls
<1>2. [c \in Callers |-> Ending(result[c].kind)] = [c \in Callers |-> "none"]
  BY DEF Init, Ending
<1> QED
  BY <1>1, <1>2 DEF Init, Service!Init

LEMMA StepMapped == IInv /\ [Next]_vars => [Service!Next]_Service!vars
<1> DEFINE Mapped == [Service!Next]_Service!vars
<1> SUFFICES ASSUME TypeOK, CloseInv, IdInv, PairInv, [Next]_vars PROVE Mapped
  BY DEF IInv
<1>1. ASSUME NEW c \in Callers, SendRefused(c) PROVE Mapped
  <2> DEFINE o == [kind |-> "closed", re |-> Call(c)]
  <2>1. result' = [result EXCEPT ![c] = o] /\ pc' = pc /\ o.kind = "closed"
    BY <1>1 DEF SendRefused, Fails, Return, TypeOK
  <2>2. Calling' = Calling /\ c \notin Calling /\ AnsweredCalls' = AnsweredCalls
    BY <1>1, <2>1 DEF SendRefused, peerVars, Calling, AnsweredCalls
  <2> HIDE DEF o
  <2>3. Outcome' = [Outcome EXCEPT ![c] = "down"]
    BY <2>1 DEF TypeOK, Outcome, Ending
  <2>4. Service!Refuse(c)
    BY <1>1, <2>2, <2>3 DEF SendRefused, connVars, Service!Refuse, Outcome
  <2> QED
    BY <2>4 DEF Service!Next
<1>2. ASSUME NEW c \in Callers, SendRegister(c) PROVE Mapped
  <2>1. c \notin Calling /\ Calling' = Calling \cup {c} /\ AnsweredCalls' = AnsweredCalls
    BY <1>2 DEF SendRegister, Register, peerVars, TypeOK, Calling, AnsweredCalls
  <2> DEFINE o == [kind |-> "none", re |-> NoCall]
  <2>2. result' = [result EXCEPT ![c] = o] /\ o.kind = "none"
    BY <1>2 DEF SendRegister, Register
  <2> HIDE DEF o
  <2>3. Outcome' = [Outcome EXCEPT ![c] = "none"]
    BY <2>2 DEF TypeOK, Outcome, Ending
  <2>4. Service!Invoke(c)
    BY <1>2, <2>1, <2>3 DEF SendRegister, Register, Service!Invoke, Outcome
  <2> QED
    BY <2>4 DEF Service!Next
<1>3. ASSUME NEW c \in Callers, SendMarshalFails(c) PROVE Mapped
  <2>1. Service!ReturnError(c)
    BY <1>3, FailsMapped DEF SendMarshalFails, runVars, peerVars, RemovePending, Active, Service!ReturnError
  <2> QED
    BY <2>1 DEF Service!Next
<1>4. ASSUME NEW c \in Callers, SendLock(c) PROVE Mapped
  BY <1>4, InvisibleStutters DEF SendLock, connVars, runVars, peerVars, TypeOK, Invisible, Calling, AnsweredCalls, Outcome
<1>5. ASSUME NEW c \in Callers, SendWrite(c) PROVE Mapped
  <2> DEFINE new == [id |-> id[c], call |-> Call(c)]
  <2>1. id[c] \in Ids /\ \A f \in wire : f.id # id[c]
    BY <1>5 DEF SendWrite, TypeOK, PairInv, Active
  <2>2. ~(answers[id[c]] > 0) /\ new.id = id[c] /\ wire' = wire \cup {new}
        /\ UNCHANGED <<answers, calls, closed, result>>
    BY <1>5, <2>1 DEF SendWrite, PairInv, connVars
  <2> HIDE DEF new
  <2>3. {g \in wire' : answers'[g.id] > 0} = {g \in wire : answers[g.id] > 0}
    BY <2>2
  <2>4. AnsweredCalls' = AnsweredCalls
    BY <2>3 DEF AnsweredCalls
  <2>5. Calling' = Calling /\ Outcome' = Outcome
    BY <1>5, <2>2 DEF SendWrite, TypeOK, Calling, Outcome
  <2> QED
    BY <2>2, <2>4, <2>5, InvisibleStutters DEF Invisible
<1>6. ASSUME NEW c \in Callers, SendWriteFails(c) PROVE Mapped
  BY <1>6, InvisibleStutters DEF SendWriteFails, connVars, runVars, TypeOK, Invisible, Calling, AnsweredCalls, Outcome
<1>7. ASSUME NEW c \in Callers, SendForget(c) PROVE Mapped
  BY <1>7, InvisibleStutters DEF SendForget, runVars, peerVars, RemovePending, TypeOK, Invisible, Calling, AnsweredCalls, Outcome
<1>8. ASSUME NEW c \in Callers, SendShutdown(c) PROVE Mapped
  <2>1. CASE DoShutdown /\ pc' = [pc EXCEPT ![c] = "notifying"] /\ UNCHANGED result
    <3>1. UNCHANGED <<Calling, AnsweredCalls, Outcome>>
      BY <1>8, <2>1 DEF SendShutdown, runVars, peerVars, TypeOK, Calling, AnsweredCalls, Outcome
    <3>2. Service!GoDown
      BY <1>8, <2>1, <3>1 DEF SendShutdown, DoShutdown, Outcome, Service!GoDown
    <3> QED
      BY <3>2 DEF Service!Next
  <2>2. CASE SkipShutdown /\ Fails(c, "write")
    <3>1. Service!ReturnError(c)
      BY <1>8, <2>2, FailsMapped
      DEF SendShutdown, SkipShutdown, connVars, runVars, peerVars, Active, Service!ReturnError
    <3> QED
      BY <3>1 DEF Service!Next
  <2> QED
    BY <1>8, <2>1, <2>2 DEF SendShutdown
<1>9. ASSUME NEW c \in Callers, SendNotify(c) PROVE Mapped
  <2>1. Service!ReturnError(c)
    BY <1>9, FailsMapped DEF SendNotify, connVars, runVars, peerVars, Active, Service!ReturnError
  <2> QED
    BY <2>1 DEF Service!Next
<1>10. ASSUME NEW c \in Callers, SelectExpired(c) PROVE Mapped
  BY <1>10, InvisibleStutters DEF SelectExpired, connVars, runVars, peerVars, TypeOK, Invisible, Calling, AnsweredCalls, Outcome
<1>11. ASSUME NEW c \in Callers, SelectDone(c) PROVE Mapped
  <2>1. Service!ReturnDown(c)
    BY <1>11, FailsMapped DEF SelectDone, connVars, runVars, peerVars, Active, Service!ReturnDown
  <2> QED
    BY <2>1 DEF Service!Next
<1>12. ASSUME NEW c \in Callers, SelectResult(c) PROVE Mapped
  <2> DEFINE o == chan[id[c]]
  <2>1. id[c] \in Ids /\ o \in Answers \cup {Shutdown} /\ Active(c) /\ Return(c, o)
        /\ UNCHANGED <<calls, wire, answers, closed>>
    BY <1>12 DEF SelectResult, runVars, peerVars, TypeOK, Active
  <2>2. Service!Return(c, Ending(o.kind))
    BY <2>1, Shapes, ReturnMapped
  <2>3. CASE o \in Answers
    <3>1. o.kind = "reply" /\ Ending(o.kind) = "answer"
      BY <2>3, Shapes DEF Ending
    <3>2. Answered(id[c], o.re)
      BY <2>1, <3>1 DEF PairInv
    <3>3. o.re = <<c, calls[c]>>
      BY <2>1, <3>2 DEF PairInv, Answered, Call
    <3>4. <<c, calls[c]>> \in AnsweredCalls
      BY <3>2, <3>3 DEF Answered, AnsweredCalls
    <3> QED
      BY <2>2, <3>1, <3>4 DEF Service!ReturnAnswer, Service!Next
  <2>4. CASE o = Shutdown
    <3>1. closed /\ Ending(o.kind) = "down"
      BY <2>1, <2>4, Shapes DEF CloseInv, Ending
    <3> QED
      BY <2>2, <3>1 DEF Service!ReturnDown, Service!Next
  <2> QED
    BY <2>1, <2>3, <2>4
<1>13. ASSUME NEW c \in Callers, SendCancelled(c) PROVE Mapped
  <2>1. Service!ReturnError(c)
    BY <1>13, FailsMapped DEF SendCancelled, runVars, peerVars, RemovePending, Active, Service!ReturnError
  <2> QED
    BY <2>1 DEF Service!Next
<1>14. ASSUME NEW r \in replies, RunResponse(r) PROVE Mapped
  BY <1>14, InvisibleStutters DEF RunResponse, sendVars, runVars, RemovePending, TypeOK, Invisible, Calling, AnsweredCalls, Outcome
<1>15. CASE RunDeliver
  BY <1>15, InvisibleStutters DEF RunDeliver, sendVars, peerVars, TypeOK, Invisible, Calling, AnsweredCalls, Outcome
<1>16. CASE RunEvent
  BY <1>16, InvisibleStutters DEF RunEvent, connVars, sendVars, TypeOK, Invisible, Calling, AnsweredCalls, Outcome
<1>17. CASE RunEventDone
  BY <1>17, InvisibleStutters DEF RunEventDone, connVars, sendVars, peerVars, TypeOK, Invisible, Calling, AnsweredCalls, Outcome
<1>18. CASE RunFails
  BY <1>18, InvisibleStutters DEF RunFails, connVars, sendVars, TypeOK, Invisible, Calling, AnsweredCalls, Outcome
<1>19. CASE RunShutdown
  <2>1. UNCHANGED <<Calling, AnsweredCalls, Outcome, calls>>
    BY <1>19 DEF RunShutdown, sendVars, peerVars, Calling, AnsweredCalls, Outcome
  <2>2. CASE DoShutdown
    BY <2>1, <2>2 DEF DoShutdown, Outcome, Service!GoDown, Service!Next
  <2>3. CASE SkipShutdown
    BY <2>1, <2>3, InvisibleStutters DEF SkipShutdown, connVars, Invisible
  <2> QED
    BY <1>19, <2>2, <2>3 DEF RunShutdown
<1>20. CASE RunNotify
  BY <1>20, InvisibleStutters DEF RunNotify, connVars, sendVars, peerVars, TypeOK, Invisible, Calling, AnsweredCalls, Outcome
<1>21. ASSUME NEW p \in Closers, CloseConn(p) PROVE Mapped
  BY <1>21, InvisibleStutters DEF CloseConn, connVars, sendVars, runVars, TypeOK, Invisible, Calling, AnsweredCalls, Outcome
<1>22. ASSUME NEW p \in Closers, CloseShutdown(p) PROVE Mapped
  <2>1. UNCHANGED <<Calling, AnsweredCalls, Outcome, calls>>
    BY <1>22 DEF CloseShutdown, sendVars, runVars, peerVars, Calling, AnsweredCalls, Outcome
  <2>2. CASE DoShutdown
    BY <2>1, <2>2 DEF DoShutdown, Outcome, Service!GoDown, Service!Next
  <2>3. CASE SkipShutdown
    BY <2>1, <2>3, InvisibleStutters DEF SkipShutdown, connVars, Invisible
  <2> QED
    BY <1>22, <2>2, <2>3 DEF CloseShutdown
<1>23. ASSUME NEW p \in Closers, CloseNotify(p) PROVE Mapped
  BY <1>23, InvisibleStutters DEF CloseNotify, connVars, sendVars, runVars, peerVars, TypeOK, Invisible, Calling, AnsweredCalls, Outcome
<1>24. ASSUME NEW f \in wire, ExtensionAnswers(f) PROVE Mapped
  <2> DEFINE d == f.call[1]
  <2>1. d \in Callers /\ f.call = <<d, f.call[2]>> /\ f.call[2] \in 1 .. calls[d] /\ f.id \in Ids
    BY DEF TypeOK, Frames, CallIds, PairInv
  <2>2. answers' = [answers EXCEPT ![f.id] = answers[f.id] + 1] /\ wire' = wire
        /\ answers[f.id] \in Nat
    BY <1>24, <2>1 DEF ExtensionAnswers, TypeOK
  <2>3. \A g \in wire : g.id \in Ids /\ (answers'[g.id] > 0 <=> g = f \/ answers[g.id] > 0)
    BY <2>1, <2>2 DEF TypeOK, PairInv, Frames
  <2>4. AnsweredCalls' = AnsweredCalls \cup {f.call}
    BY <2>2, <2>3 DEF AnsweredCalls
  <2>5. UNCHANGED <<Calling, Outcome, calls, closed>>
    BY <1>24 DEF ExtensionAnswers, connVars, sendVars, runVars, Calling, Outcome
  <2>6. Service!Answer(d, f.call[2])
    BY <2>1, <2>4, <2>5 DEF Service!Answer, Outcome
  <2> QED
    BY <2>1, <2>6 DEF Service!Next
<1>25. CASE ExtensionSends
  BY <1>25, InvisibleStutters DEF ExtensionSends, connVars, sendVars, runVars, TypeOK, Invisible, Calling, AnsweredCalls, Outcome
<1>26. CASE ConnectionBreaks
  BY <1>26, InvisibleStutters DEF ConnectionBreaks, connVars, sendVars, runVars, TypeOK, Invisible, Calling, AnsweredCalls, Outcome
<1>27. CASE UNCHANGED vars
  BY <1>27, InvisibleStutters DEF vars, connVars, sendVars, runVars, peerVars, Invisible, Calling, AnsweredCalls, Outcome
<1> QED
  BY <1>1, <1>2, <1>3, <1>4, <1>5, <1>6, <1>7, <1>8, <1>9, <1>10, <1>11, <1>12, <1>13, <1>14, <1>15, <1>16, <1>17, <1>18, <1>19, <1>20, <1>21, <1>22, <1>23, <1>24, <1>25, <1>26, <1>27 DEF Next, SendStep, RunStep, RunReads, CloseStep, Environment

\* Send implements the abstract service: the answer it returns belongs to the
\* request it sent.
THEOREM Refinement == Spec => ImplementsService
<1>1. IInv /\ [Next]_vars => [Service!Next]_Service!vars
  BY StepMapped
<1> QED
  BY <1>1, InitMapped, Invariance, PTL DEF Spec, ImplementsService, Service!Spec

==============================================================================
