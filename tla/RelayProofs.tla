----------------------------- MODULE RelayProofs -----------------------------
(* Proofs of the safety properties of Relay, for any number of connections. *)
EXTENDS Relay, TLAPS

(***************************************************************************)
(* Type correctness.                                                       *)
(***************************************************************************)
LEMMA TypeInit == Init => TypeOK
  BY DEF Init, TypeOK, Locations

LEMMA TypeNext == TypeOK /\ [Next]_vars => TypeOK'
<1> SUFFICES ASSUME TypeOK, [Next]_vars PROVE TypeOK'
  OBVIOUS
<1>1. ASSUME NEW e \in Extensions, AcceptExtension(e) PROVE TypeOK'
  BY <1>1, RelayAssumption DEF AcceptExtension, SetExtension, At, localVars, lossVars, TypeOK, Locations
<1>2. ASSUME NEW e \in Extensions, Initialized(e) PROVE TypeOK'
  BY <1>2, RelayAssumption DEF Initialized, serverVars, localVars, lossVars, TypeOK, Locations
<1>3. ASSUME NEW e \in Extensions, RunReadFails(e) PROVE TypeOK'
  BY <1>3, RelayAssumption DEF RunReadFails, RunEnds, Shutdown, At, serverVars, handlerVars, localVars, lossVars, TypeOK, Locations
<1>4. ASSUME NEW e \in Extensions, RunRejects(e) PROVE TypeOK'
  BY <1>4, RelayAssumption DEF RunRejects, RunEnds, Shutdown, At, serverVars, handlerVars, localVars, lossVars, TypeOK, Locations
<1>5. ASSUME NEW e \in Extensions, LossClears(e) PROVE TypeOK'
  BY <1>5, RelayAssumption DEF LossClears, serverVars, localVars, TypeOK, Locations
<1>6. ASSUME NEW e \in Extensions, LossDone(e) PROVE TypeOK'
  BY <1>6, RelayAssumption DEF LossDone, serverVars, localVars, TypeOK, Locations
<1>7. ASSUME NEW e \in Extensions, LossUnregisters(e) PROVE TypeOK'
  BY <1>7, RelayAssumption DEF LossUnregisters, handlerVars, TypeOK, Locations
<1>8. ASSUME NEW e \in Extensions, LossCloses(e) PROVE TypeOK'
  BY <1>8, RelayAssumption DEF LossCloses, serverVars, handlerVars, localVars, TypeOK, Locations
<1>9. ASSUME NEW c \in Clients, CheckDone(c) PROVE TypeOK'
  BY <1>9, RelayAssumption DEF CheckDone, At, serverVars, handlerVars, localVars, lossVars, TypeOK, Locations
<1>10. ASSUME NEW c \in Clients, CheckReady(c) PROVE TypeOK'
  BY <1>10, RelayAssumption DEF CheckReady, At, serverVars, handlerVars, localVars, lossVars, TypeOK, Locations
<1>11. ASSUME NEW c \in Clients, AcceptClient(c) PROVE TypeOK'
  BY <1>11, RelayAssumption DEF AcceptClient, SetCDPEmitter, At, localVars, lossVars, TypeOK, Locations
<1>12. ASSUME NEW c \in Clients, ReadFails(c) PROVE TypeOK'
  BY <1>12, RelayAssumption DEF ReadFails, At, serverVars, handlerVars, localVars, lossVars, TypeOK, Locations
<1>13. ASSUME NEW c \in Clients, ClearCDPEmitter(c) PROVE TypeOK'
  BY <1>13, RelayAssumption DEF ClearCDPEmitter, At, serverVars, localVars, lossVars, TypeOK, Locations
<1>14. ASSUME NEW c \in Clients, UnregisterClient(c) PROVE TypeOK'
  BY <1>14, RelayAssumption DEF UnregisterClient, At, handlerVars, lossVars, TypeOK, Locations
<1>15. ASSUME NEW r \in Callers, TakeSender(r) PROVE TypeOK'
  BY <1>15, RelayAssumption DEF TakeSender, At, serverVars, handlerVars, lossVars, TypeOK, Locations
<1>16. ASSUME NEW r \in Callers, SendFails(r) PROVE TypeOK'
  BY <1>16, RelayAssumption DEF SendFails, Shutdown, At, serverVars, handlerVars, localVars, lossVars, TypeOK, Locations
<1>17. ASSUME NEW p \in Closers, CloseServer(p) PROVE TypeOK'
  <2>1. closed' \in BOOLEAN /\ pc' \in [Extensions \cup Clients \cup Closers \cup Callers -> Locations]
    BY <1>17 DEF CloseServer, At, TypeOK, Locations
  <2>2. /\ extension' \in [Clients \cup Closers \cup Callers -> Extensions \cup {NoOne}]
        /\ cdp' \in [Extensions \cup Closers -> Clients \cup {NoOne}]
    BY <1>17 DEF CloseServer, localVars, TypeOK
  <2>3. ASSUME NEW q \in Clients \cup Closers \cup Callers, pc'[q] \in {"close", "shutdown", "wait", "send"}
        PROVE  extension'[q] # NoOne
    <3>1. q # p /\ pc'[q] = pc[q] /\ extension'[q] = extension[q]
      BY <1>17, <2>3 DEF CloseServer, At, localVars, TypeOK
    <3> QED
      BY <2>3, <3>1 DEF TypeOK
  <2> QED
    BY <1>17, <2>1, <2>2, <2>3 DEF CloseServer, handlerVars, lossVars, TypeOK
<1>18. ASSUME NEW p \in Closers, CloseCDP(p) PROVE TypeOK'
  BY <1>18, RelayAssumption DEF CloseCDP, At, serverVars, handlerVars, localVars, lossVars, TypeOK, Locations
<1>19. ASSUME NEW p \in Clients \cup Closers, CloseExtension(p) PROVE TypeOK'
  BY <1>19, RelayAssumption DEF CloseExtension, At, serverVars, handlerVars, localVars, lossVars, TypeOK, Locations
<1>20. ASSUME NEW p \in Clients \cup Closers, ShutExtension(p) PROVE TypeOK'
  BY <1>20, RelayAssumption DEF ShutExtension, Shutdown, At, serverVars, handlerVars, localVars, lossVars, TypeOK, Locations
<1>21. ASSUME NEW p \in Clients \cup Closers, CloseReturns(p) PROVE TypeOK'
  BY <1>21, RelayAssumption DEF CloseReturns, At, serverVars, handlerVars, localVars, lossVars, TypeOK, Locations
<1>22. ASSUME NEW x \in Extensions \cup Clients, TurnedAway(x) PROVE TypeOK'
  BY <1>22, RelayAssumption DEF TurnedAway, serverVars, handlerVars, localVars, lossVars, TypeOK, Locations
<1>23. CASE ServeFails
  BY <1>23, RelayAssumption DEF ServeFails, serverVars, localVars, lossVars, TypeOK, Locations
<1>24. CASE ServeDone
  BY <1>24, RelayAssumption DEF ServeDone, serverVars, localVars, lossVars, TypeOK, Locations
<1>25. ASSUME NEW x \in open, Breaks(x) PROVE TypeOK'
  BY <1>25, RelayAssumption DEF Breaks, serverVars, handlerVars, localVars, lossVars, TypeOK, Locations
<1>26. CASE UNCHANGED vars
  BY <1>26 DEF vars, serverVars, handlerVars, localVars, lossVars, TypeOK, Locations
<1> QED
  BY <1>1, <1>2, <1>3, <1>4, <1>5, <1>6, <1>7, <1>8, <1>9, <1>10, <1>11, <1>12, <1>13, <1>14, <1>15, <1>16, <1>17, <1>18, <1>19, <1>20, <1>21, <1>22, <1>23, <1>24, <1>25, <1>26
  DEF Next, LossStep, ClosingStep, ClientStep

(***************************************************************************)
(* The registered connections.  A client is registered from its acceptance *)
(* to the end of its teardown, an extension until onExtensionClosed has    *)
(* unregistered it; no sender outlives its registration.                   *)
(***************************************************************************)
RegInv ==
    /\ \A c \in Clients :
           /\ emit = c <=> pc[c] \in {"read", "left"}
           /\ cdpConn = c <=> pc[c] \in {"read", "left", "cleared"}
    /\ sender # NoOne => sender = extensionConn
    /\ \A e \in Extensions :
           /\ extensionConn = e /\ loss[e] \in {"up", "lost"} /\ serve = "up" => sender = e
           /\ loss[e] \in {"cleared", "noted"} => sender # e
           /\ extensionConn = e => loss[e] \notin {"closing", "down"} /\ pc[e] \in {"run", "over"}
           /\ loss[e] \in {"lost", "cleared", "noted"} => extensionConn = e
           /\ pc[e] = "run" /\ loss[e] = "up" => extensionConn = e
           /\ pc[e] = "new" => loss[e] = "up"
    /\ \A p \in Clients \cup Closers \cup Callers :
           extension[p] # NoOne /\ loss[extension[p]] = "up" => extensionConn = extension[p]
    /\ NothingRefused

LEMMA RegInit == Init => RegInv
  BY RelayAssumption DEF Init, RegInv, NothingRefused

LEMMA RegNext == TypeOK /\ RegInv /\ [Next]_vars => RegInv'
<1> SUFFICES ASSUME TypeOK, RegInv, [Next]_vars PROVE RegInv'
  OBVIOUS
<1>1. ASSUME NEW e \in Extensions, AcceptExtension(e) PROVE RegInv'
  BY <1>1, RelayAssumption DEF AcceptExtension, SetExtension, At, localVars, lossVars, TypeOK, RegInv, NothingRefused
<1>2. ASSUME NEW e \in Extensions, Initialized(e) PROVE RegInv'
  BY <1>2, RelayAssumption DEF Initialized, serverVars, localVars, lossVars, TypeOK, RegInv, NothingRefused
<1>3. ASSUME NEW e \in Extensions, RunReadFails(e) PROVE RegInv'
  BY <1>3, RelayAssumption DEF RunReadFails, RunEnds, Shutdown, At, serverVars, handlerVars, localVars, lossVars, TypeOK, RegInv, NothingRefused
<1>4. ASSUME NEW e \in Extensions, RunRejects(e) PROVE RegInv'
  BY <1>4, RelayAssumption DEF RunRejects, RunEnds, Shutdown, At, serverVars, handlerVars, localVars, lossVars, TypeOK, RegInv, NothingRefused
<1>5. ASSUME NEW e \in Extensions, LossClears(e) PROVE RegInv'
  BY <1>5, RelayAssumption DEF LossClears, serverVars, localVars, TypeOK, RegInv, NothingRefused
<1>6. ASSUME NEW e \in Extensions, LossDone(e) PROVE RegInv'
  BY <1>6, RelayAssumption DEF LossDone, serverVars, localVars, TypeOK, RegInv, NothingRefused
<1>7. ASSUME NEW e \in Extensions, LossUnregisters(e) PROVE RegInv'
  BY <1>7, RelayAssumption DEF LossUnregisters, handlerVars, TypeOK, RegInv, NothingRefused
<1>8. ASSUME NEW e \in Extensions, LossCloses(e) PROVE RegInv'
  BY <1>8, RelayAssumption DEF LossCloses, serverVars, handlerVars, localVars, TypeOK, RegInv, NothingRefused
<1>9. ASSUME NEW c \in Clients, CheckDone(c) PROVE RegInv'
  BY <1>9, RelayAssumption DEF CheckDone, At, serverVars, handlerVars, localVars, lossVars, TypeOK, RegInv, NothingRefused
<1>10. ASSUME NEW c \in Clients, CheckReady(c) PROVE RegInv'
  BY <1>10, RelayAssumption DEF CheckReady, At, serverVars, handlerVars, localVars, lossVars, TypeOK, RegInv, NothingRefused
<1>11. ASSUME NEW c \in Clients, AcceptClient(c) PROVE RegInv'
  BY <1>11, RelayAssumption DEF AcceptClient, SetCDPEmitter, At, localVars, lossVars, TypeOK, RegInv, NothingRefused
<1>12. ASSUME NEW c \in Clients, ReadFails(c) PROVE RegInv'
  BY <1>12, RelayAssumption DEF ReadFails, At, serverVars, handlerVars, localVars, lossVars, TypeOK, RegInv, NothingRefused
<1>13. ASSUME NEW c \in Clients, ClearCDPEmitter(c) PROVE RegInv'
  BY <1>13, RelayAssumption DEF ClearCDPEmitter, At, serverVars, localVars, lossVars, TypeOK, RegInv, NothingRefused
<1>14. ASSUME NEW c \in Clients, UnregisterClient(c) PROVE RegInv'
  BY <1>14, RelayAssumption DEF UnregisterClient, At, handlerVars, lossVars, TypeOK, RegInv, NothingRefused
<1>15. ASSUME NEW r \in Callers, TakeSender(r) PROVE RegInv'
  BY <1>15, RelayAssumption DEF TakeSender, At, serverVars, handlerVars, lossVars, TypeOK, RegInv, NothingRefused
<1>16. ASSUME NEW r \in Callers, SendFails(r) PROVE RegInv'
  BY <1>16, RelayAssumption DEF SendFails, Shutdown, At, serverVars, handlerVars, localVars, lossVars, TypeOK, RegInv, NothingRefused
<1>17. ASSUME NEW p \in Closers, CloseServer(p) PROVE RegInv'
  BY <1>17, RelayAssumption DEF CloseServer, At, handlerVars, localVars, lossVars, TypeOK, RegInv, NothingRefused
<1>18. ASSUME NEW p \in Closers, CloseCDP(p) PROVE RegInv'
  BY <1>18, RelayAssumption DEF CloseCDP, At, serverVars, handlerVars, localVars, lossVars, TypeOK, RegInv, NothingRefused
<1>19. ASSUME NEW p \in Clients \cup Closers, CloseExtension(p) PROVE RegInv'
  BY <1>19, RelayAssumption DEF CloseExtension, At, serverVars, handlerVars, localVars, lossVars, TypeOK, RegInv, NothingRefused
<1>20. ASSUME NEW p \in Clients \cup Closers, ShutExtension(p) PROVE RegInv'
  BY <1>20, RelayAssumption DEF ShutExtension, Shutdown, At, serverVars, handlerVars, localVars, lossVars, TypeOK, RegInv, NothingRefused
<1>21. ASSUME NEW p \in Clients \cup Closers, CloseReturns(p) PROVE RegInv'
  BY <1>21, RelayAssumption DEF CloseReturns, At, serverVars, handlerVars, localVars, lossVars, TypeOK, RegInv, NothingRefused
<1>22. ASSUME NEW x \in Extensions \cup Clients, TurnedAway(x) PROVE RegInv'
  BY <1>22, RelayAssumption DEF TurnedAway, serverVars, handlerVars, localVars, lossVars, TypeOK, RegInv, NothingRefused
<1>23. CASE ServeFails
  BY <1>23, RelayAssumption DEF ServeFails, serverVars, localVars, lossVars, TypeOK, RegInv, NothingRefused
<1>24. CASE ServeDone
  BY <1>24, RelayAssumption DEF ServeDone, serverVars, localVars, lossVars, TypeOK, RegInv, NothingRefused
<1>25. ASSUME NEW x \in open, Breaks(x) PROVE RegInv'
  BY <1>25, RelayAssumption DEF Breaks, serverVars, handlerVars, localVars, lossVars, TypeOK, RegInv, NothingRefused
<1>26. CASE UNCHANGED vars
  BY <1>26 DEF vars, serverVars, handlerVars, localVars, lossVars, TypeOK, RegInv, NothingRefused
<1> QED
  BY <1>1, <1>2, <1>3, <1>4, <1>5, <1>6, <1>7, <1>8, <1>9, <1>10, <1>11, <1>12, <1>13, <1>14, <1>15, <1>16, <1>17, <1>18, <1>19, <1>20, <1>21, <1>22, <1>23, <1>24, <1>25, <1>26
  DEF Next, LossStep, ClosingStep, ClientStep

(***************************************************************************)
(* The open websockets.  An open client is being read; an open extension   *)
(* is registered, or its own Run or a Send has shut it down.  What         *)
(* Server.Close has not seen when it set s.closed is not open.             *)
(***************************************************************************)
SocketInv ==
    /\ \A c \in Clients \cap open : pc[c] = "read"
    /\ \A e \in Extensions \cap open :
           /\ pc[e] \in {"run", "over"}
           /\ IF loss[e] = "up" THEN extensionConn = e ELSE Abandoned(e)
    /\ \A p \in Clients \cup Closers : pc[p] \in {"shutdown", "wait"} => extension[p] \notin open
    /\ \A p \in Closers :
           /\ pc[p] \in {"closeCDP", "close", "shutdown", "wait", "over"} => closed
           /\ pc[p] = "closeCDP" => \A c \in Clients \cap open : c = cdp[p]
           /\ pc[p] \in {"close", "shutdown", "wait", "over"} => Clients \cap open = {}
           /\ pc[p] \in {"closeCDP", "close"} =>
                  \A e \in Extensions \cap open : e = extension[p] \/ Abandoned(e)
           /\ pc[p] \in {"shutdown", "wait", "over"} => \A e \in Extensions \cap open : Abandoned(e)

LEMMA SocketInit == Init => SocketInv
  BY DEF Init, SocketInv

LEMMA SocketNext == TypeOK /\ RegInv /\ SocketInv /\ [Next]_vars => SocketInv'
<1> SUFFICES ASSUME TypeOK, RegInv, SocketInv, [Next]_vars PROVE SocketInv'
  OBVIOUS
<1>1. ASSUME NEW e \in Extensions, AcceptExtension(e) PROVE SocketInv'
  BY <1>1, RelayAssumption DEF AcceptExtension, SetExtension, At, localVars, lossVars, TypeOK, RegInv, NothingRefused, SocketInv, Abandoned
<1>2. ASSUME NEW e \in Extensions, Initialized(e) PROVE SocketInv'
  BY <1>2, RelayAssumption DEF Initialized, serverVars, localVars, lossVars, TypeOK, RegInv, NothingRefused, SocketInv, Abandoned
<1>3. ASSUME NEW e \in Extensions, RunReadFails(e) PROVE SocketInv'
  BY <1>3, RelayAssumption DEF RunReadFails, RunEnds, Shutdown, At, serverVars, handlerVars, localVars, lossVars, TypeOK, RegInv, NothingRefused, SocketInv, Abandoned
<1>4. ASSUME NEW e \in Extensions, RunRejects(e) PROVE SocketInv'
  BY <1>4, RelayAssumption DEF RunRejects, RunEnds, Shutdown, At, serverVars, handlerVars, localVars, lossVars, TypeOK, RegInv, NothingRefused, SocketInv, Abandoned
<1>5. ASSUME NEW e \in Extensions, LossClears(e) PROVE SocketInv'
  BY <1>5, RelayAssumption DEF LossClears, serverVars, localVars, TypeOK, RegInv, NothingRefused, SocketInv, Abandoned
<1>6. ASSUME NEW e \in Extensions, LossDone(e) PROVE SocketInv'
  BY <1>6, RelayAssumption DEF LossDone, serverVars, localVars, TypeOK, RegInv, NothingRefused, SocketInv, Abandoned
<1>7. ASSUME NEW e \in Extensions, LossUnregisters(e) PROVE SocketInv'
  BY <1>7, RelayAssumption DEF LossUnregisters, handlerVars, TypeOK, RegInv, NothingRefused, SocketInv, Abandoned
<1>8. ASSUME NEW e \in Extensions, LossCloses(e) PROVE SocketInv'
  BY <1>8, RelayAssumption DEF LossCloses, serverVars, handlerVars, localVars, TypeOK, RegInv, NothingRefused, SocketInv, Abandoned
<1>9. ASSUME NEW c \in Clients, CheckDone(c) PROVE SocketInv'
  BY <1>9, RelayAssumption DEF CheckDone, At, serverVars, handlerVars, localVars, lossVars, TypeOK, RegInv, NothingRefused, SocketInv, Abandoned
<1>10. ASSUME NEW c \in Clients, CheckReady(c) PROVE SocketInv'
  BY <1>10, RelayAssumption DEF CheckReady, At, serverVars, handlerVars, localVars, lossVars, TypeOK, RegInv, NothingRefused, SocketInv, Abandoned
<1>11. ASSUME NEW c \in Clients, AcceptClient(c) PROVE SocketInv'
  BY <1>11, RelayAssumption DEF AcceptClient, SetCDPEmitter, At, localVars, lossVars, TypeOK, RegInv, NothingRefused, SocketInv, Abandoned
<1>12. ASSUME NEW c \in Clients, ReadFails(c) PROVE SocketInv'
  BY <1>12, RelayAssumption DEF ReadFails, At, serverVars, handlerVars, localVars, lossVars, TypeOK, RegInv, NothingRefused, SocketInv, Abandoned
<1>13. ASSUME NEW c \in Clients, ClearCDPEmitter(c) PROVE SocketInv'
  BY <1>13, RelayAssumption DEF ClearCDPEmitter, At, serverVars, localVars, lossVars, TypeOK, RegInv, NothingRefused, SocketInv, Abandoned
<1>14. ASSUME NEW c \in Clients, UnregisterClient(c) PROVE SocketInv'
  BY <1>14, RelayAssumption DEF UnregisterClient, At, handlerVars, lossVars, TypeOK, RegInv, NothingRefused, SocketInv, Abandoned
<1>15. ASSUME NEW r \in Callers, TakeSender(r) PROVE SocketInv'
  BY <1>15, RelayAssumption DEF TakeSender, At, serverVars, handlerVars, lossVars, TypeOK, RegInv, NothingRefused, SocketInv, Abandoned
<1>16. ASSUME NEW r \in Callers, SendFails(r) PROVE SocketInv'
  BY <1>16, RelayAssumption DEF SendFails, Shutdown, At, serverVars, handlerVars, localVars, lossVars, TypeOK, RegInv, NothingRefused, SocketInv, Abandoned
<1>17. ASSUME NEW p \in Closers, CloseServer(p) PROVE SocketInv'
  BY <1>17, RelayAssumption DEF CloseServer, At, handlerVars, localVars, lossVars, TypeOK, RegInv, NothingRefused, SocketInv, Abandoned
<1>18. ASSUME NEW p \in Closers, CloseCDP(p) PROVE SocketInv'
  BY <1>18, RelayAssumption DEF CloseCDP, At, serverVars, handlerVars, localVars, lossVars, TypeOK, RegInv, NothingRefused, SocketInv, Abandoned
<1>19. ASSUME NEW p \in Clients \cup Closers, CloseExtension(p) PROVE SocketInv'
  BY <1>19, RelayAssumption DEF CloseExtension, At, serverVars, handlerVars, localVars, lossVars, TypeOK, RegInv, NothingRefused, SocketInv, Abandoned
<1>20. ASSUME NEW p \in Clients \cup Closers, ShutExtension(p) PROVE SocketInv'
  BY <1>20, RelayAssumption DEF ShutExtension, Shutdown, At, serverVars, handlerVars, localVars, lossVars, TypeOK, RegInv, NothingRefused, SocketInv, Abandoned
<1>21. ASSUME NEW p \in Clients \cup Closers, CloseReturns(p) PROVE SocketInv'
  BY <1>21, RelayAssumption DEF CloseReturns, At, serverVars, handlerVars, localVars, lossVars, TypeOK, RegInv, NothingRefused, SocketInv, Abandoned
<1>22. ASSUME NEW x \in Extensions \cup Clients, TurnedAway(x) PROVE SocketInv'
  BY <1>22, RelayAssumption DEF TurnedAway, serverVars, handlerVars, localVars, lossVars, TypeOK, RegInv, NothingRefused, SocketInv, Abandoned
<1>23. CASE ServeFails
  BY <1>23, RelayAssumption DEF ServeFails, serverVars, localVars, lossVars, TypeOK, RegInv, NothingRefused, SocketInv, Abandoned
<1>24. CASE ServeDone
  BY <1>24, RelayAssumption DEF ServeDone, serverVars, localVars, lossVars, TypeOK, RegInv, NothingRefused, SocketInv, Abandoned
<1>25. ASSUME NEW x \in open, Breaks(x) PROVE SocketInv'
  BY <1>25, RelayAssumption DEF Breaks, serverVars, handlerVars, localVars, lossVars, TypeOK, RegInv, NothingRefused, SocketInv, Abandoned
<1>26. CASE UNCHANGED vars
  BY <1>26 DEF vars, serverVars, handlerVars, localVars, lossVars, TypeOK, RegInv, NothingRefused, SocketInv, Abandoned
<1> QED
  BY <1>1, <1>2, <1>3, <1>4, <1>5, <1>6, <1>7, <1>8, <1>9, <1>10, <1>11, <1>12, <1>13, <1>14, <1>15, <1>16, <1>17, <1>18, <1>19, <1>20, <1>21, <1>22, <1>23, <1>24, <1>25, <1>26
  DEF Next, LossStep, ClosingStep, ClientStep

(***************************************************************************)
(* The extension a client was accepted for stays registered until          *)
(* onExtensionClosed has seen the client.                                  *)
(***************************************************************************)
HomeInv ==
    /\ \A c \in Clients : home[c] # NoOne =>
           extensionConn = home[c] \/ loss[home[c]] \in {"closing", "down"}
    /\ NoOrphanClient

LEMMA HomeInit == Init => HomeInv
  BY DEF Init, HomeInv, NoOrphanClient

LEMMA HomeNext == TypeOK /\ RegInv /\ SocketInv /\ HomeInv /\ [Next]_vars => HomeInv'
<1> SUFFICES ASSUME TypeOK, RegInv, SocketInv, HomeInv, [Next]_vars PROVE HomeInv'
  OBVIOUS
<1>1. ASSUME NEW e \in Extensions, AcceptExtension(e) PROVE HomeInv'
  BY <1>1, RelayAssumption DEF AcceptExtension, SetExtension, At, localVars, lossVars, TypeOK, RegInv, NothingRefused, SocketInv, Abandoned, HomeInv, NoOrphanClient
<1>2. ASSUME NEW e \in Extensions, Initialized(e) PROVE HomeInv'
  BY <1>2, RelayAssumption DEF Initialized, serverVars, localVars, lossVars, TypeOK, RegInv, NothingRefused, SocketInv, Abandoned, HomeInv, NoOrphanClient
<1>3. ASSUME NEW e \in Extensions, RunReadFails(e) PROVE HomeInv'
  BY <1>3, RelayAssumption DEF RunReadFails, RunEnds, Shutdown, At, serverVars, handlerVars, localVars, lossVars, TypeOK, RegInv, NothingRefused, SocketInv, Abandoned, HomeInv, NoOrphanClient
<1>4. ASSUME NEW e \in Extensions, RunRejects(e) PROVE HomeInv'
  BY <1>4, RelayAssumption DEF RunRejects, RunEnds, Shutdown, At, serverVars, handlerVars, localVars, lossVars, TypeOK, RegInv, NothingRefused, SocketInv, Abandoned, HomeInv, NoOrphanClient
<1>5. ASSUME NEW e \in Extensions, LossClears(e) PROVE HomeInv'
  BY <1>5, RelayAssumption DEF LossClears, serverVars, localVars, TypeOK, RegInv, NothingRefused, SocketInv, Abandoned, HomeInv, NoOrphanClient
<1>6. ASSUME NEW e \in Extensions, LossDone(e) PROVE HomeInv'
  BY <1>6, RelayAssumption DEF LossDone, serverVars, localVars, TypeOK, RegInv, NothingRefused, SocketInv, Abandoned, HomeInv, NoOrphanClient
<1>7. ASSUME NEW e \in Extensions, LossUnregisters(e) PROVE HomeInv'
  BY <1>7, RelayAssumption DEF LossUnregisters, handlerVars, TypeOK, RegInv, NothingRefused, SocketInv, Abandoned, HomeInv, NoOrphanClient
<1>8. ASSUME NEW e \in Extensions, LossCloses(e) PROVE HomeInv'
  BY <1>8, RelayAssumption DEF LossCloses, serverVars, handlerVars, localVars, TypeOK, RegInv, NothingRefused, SocketInv, Abandoned, HomeInv, NoOrphanClient
<1>9. ASSUME NEW c \in Clients, CheckDone(c) PROVE HomeInv'
  BY <1>9, RelayAssumption DEF CheckDone, At, serverVars, handlerVars, localVars, lossVars, TypeOK, RegInv, NothingRefused, SocketInv, Abandoned, HomeInv, NoOrphanClient
<1>10. ASSUME NEW c \in Clients, CheckReady(c) PROVE HomeInv'
  BY <1>10, RelayAssumption DEF CheckReady, At, serverVars, handlerVars, localVars, lossVars, TypeOK, RegInv, NothingRefused, SocketInv, Abandoned, HomeInv, NoOrphanClient
<1>11. ASSUME NEW c \in Clients, AcceptClient(c) PROVE HomeInv'
  BY <1>11, RelayAssumption DEF AcceptClient, SetCDPEmitter, At, localVars, lossVars, TypeOK, RegInv, NothingRefused, SocketInv, Abandoned, HomeInv, NoOrphanClient
<1>12. ASSUME NEW c \in Clients, ReadFails(c) PROVE HomeInv'
  BY <1>12, RelayAssumption DEF ReadFails, At, serverVars, handlerVars, localVars, lossVars, TypeOK, RegInv, NothingRefused, SocketInv, Abandoned, HomeInv, NoOrphanClient
<1>13. ASSUME NEW c \in Clients, ClearCDPEmitter(c) PROVE HomeInv'
  BY <1>13, RelayAssumption DEF ClearCDPEmitter, At, serverVars, localVars, lossVars, TypeOK, RegInv, NothingRefused, SocketInv, Abandoned, HomeInv, NoOrphanClient
<1>14. ASSUME NEW c \in Clients, UnregisterClient(c) PROVE HomeInv'
  BY <1>14, RelayAssumption DEF UnregisterClient, At, handlerVars, lossVars, TypeOK, RegInv, NothingRefused, SocketInv, Abandoned, HomeInv, NoOrphanClient
<1>15. ASSUME NEW r \in Callers, TakeSender(r) PROVE HomeInv'
  BY <1>15, RelayAssumption DEF TakeSender, At, serverVars, handlerVars, lossVars, TypeOK, RegInv, NothingRefused, SocketInv, Abandoned, HomeInv, NoOrphanClient
<1>16. ASSUME NEW r \in Callers, SendFails(r) PROVE HomeInv'
  BY <1>16, RelayAssumption DEF SendFails, Shutdown, At, serverVars, handlerVars, localVars, lossVars, TypeOK, RegInv, NothingRefused, SocketInv, Abandoned, HomeInv, NoOrphanClient
<1>17. ASSUME NEW p \in Closers, CloseServer(p) PROVE HomeInv'
  BY <1>17, RelayAssumption DEF CloseServer, At, handlerVars, localVars, lossVars, TypeOK, RegInv, NothingRefused, SocketInv, Abandoned, HomeInv, NoOrphanClient
<1>18. ASSUME NEW p \in Closers, CloseCDP(p) PROVE HomeInv'
  BY <1>18, RelayAssumption DEF CloseCDP, At, serverVars, handlerVars, localVars, lossVars, TypeOK, RegInv, NothingRefused, SocketInv, Abandoned, HomeInv, NoOrphanClient
<1>19. ASSUME NEW p \in Clients \cup Closers, CloseExtension(p) PROVE HomeInv'
  BY <1>19, RelayAssumption DEF CloseExtension, At, serverVars, handlerVars, localVars, lossVars, TypeOK, RegInv, NothingRefused, SocketInv, Abandoned, HomeInv, NoOrphanClient
<1>20. ASSUME NEW p \in Clients \cup Closers, ShutExtension(p) PROVE HomeInv'
  BY <1>20, RelayAssumption DEF ShutExtension, Shutdown, At, serverVars, handlerVars, localVars, lossVars, TypeOK, RegInv, NothingRefused, SocketInv, Abandoned, HomeInv, NoOrphanClient
<1>21. ASSUME NEW p \in Clients \cup Closers, CloseReturns(p) PROVE HomeInv'
  BY <1>21, RelayAssumption DEF CloseReturns, At, serverVars, handlerVars, localVars, lossVars, TypeOK, RegInv, NothingRefused, SocketInv, Abandoned, HomeInv, NoOrphanClient
<1>22. ASSUME NEW x \in Extensions \cup Clients, TurnedAway(x) PROVE HomeInv'
  BY <1>22, RelayAssumption DEF TurnedAway, serverVars, handlerVars, localVars, lossVars, TypeOK, RegInv, NothingRefused, SocketInv, Abandoned, HomeInv, NoOrphanClient
<1>23. CASE ServeFails
  BY <1>23, RelayAssumption DEF ServeFails, serverVars, localVars, lossVars, TypeOK, RegInv, NothingRefused, SocketInv, Abandoned, HomeInv, NoOrphanClient
<1>24. CASE ServeDone
  BY <1>24, RelayAssumption DEF ServeDone, serverVars, localVars, lossVars, TypeOK, RegInv, NothingRefused, SocketInv, Abandoned, HomeInv, NoOrphanClient
<1>25. ASSUME NEW x \in open, Breaks(x) PROVE HomeInv'
  BY <1>25, RelayAssumption DEF Breaks, serverVars, handlerVars, localVars, lossVars, TypeOK, RegInv, NothingRefused, SocketInv, Abandoned, HomeInv, NoOrphanClient
<1>26. CASE UNCHANGED vars
  BY <1>26 DEF vars, serverVars, handlerVars, localVars, lossVars, TypeOK, RegInv, NothingRefused, SocketInv, Abandoned, HomeInv, NoOrphanClient
<1> QED
  BY <1>1, <1>2, <1>3, <1>4, <1>5, <1>6, <1>7, <1>8, <1>9, <1>10, <1>11, <1>12, <1>13, <1>14, <1>15, <1>16, <1>17, <1>18, <1>19, <1>20, <1>21, <1>22, <1>23, <1>24, <1>25, <1>26
  DEF Next, LossStep, ClosingStep, ClientStep

(***************************************************************************)
(* The results.                                                            *)
(***************************************************************************)
IInv == TypeOK /\ RegInv /\ SocketInv /\ HomeInv

LEMMA Invariance == Spec => []IInv
<1>1. Init => IInv
  BY TypeInit, RegInit, SocketInit, HomeInit DEF IInv
<1>2. IInv /\ [Next]_vars => IInv'
  BY TypeNext, RegNext, SocketNext, HomeNext DEF IInv
<1> QED
  BY <1>1, <1>2, PTL DEF Spec

\* Every variable keeps its type; nobody closes an extension that is not there.
THEOREM TypeCorrect == Spec => []TypeOK
<1>1. IInv => TypeOK
  BY DEF IInv
<1> QED
  BY <1>1, Invariance, PTL

\* The server's registrations and the handler's agree, whatever the order in
\* which connections come and go.
THEOREM RegistrationsMatch == Spec => []RegistrationsAgree
<1>1. IInv => RegistrationsAgree
  BY DEF IInv, RegInv, RegistrationsAgree
<1> QED
  BY <1>1, Invariance, PTL

\* Server.Close misses no connection, even one accepted while it runs: an accepted
\* websocket that is open after it has been shut down by its Run or by a Send.
THEOREM ClosedForGood == Spec => []CloseIsFinal
<1>1. IInv => CloseIsFinal
  BY DEF IInv, SocketInv, CloseIsFinal, TypeOK
<1> QED
  BY <1>1, Invariance, PTL

\* The loss of an extension reaches every client accepted before it, and no
\* client's commands go to another extension than its own, but for the moment
\* between the loss of its own and its end.
THEOREM CommandsStayHome == Spec => []OneBrowser
<1>1. IInv => OneBrowser
  BY DEF IInv, TypeOK, RegInv, HomeInv, NoOrphanClient, OneBrowser
<1> QED
  BY <1>1, Invariance, PTL

==============================================================================
