------------------------- MODULE BrowserModelProofs --------------------------
(* Proofs of safety properties of BrowserModel, for any number of tabs,     *)
(* clients and goroutines.                                                  *)
EXTENDS BrowserModel, SequenceTheorems, TLAPS

PCs == Sending \cup Attacking \cup {"idle", "enter", "wait", "emit"}

(***************************************************************************)
(* Type correctness, first of the helpers.                                 *)
(***************************************************************************)
LEMMA ProceedsTyped ==
    ASSUME ProcTypeOK, NEW p \in Procs, NEW rest \in SUBSET Tabs, Proceeds(p, rest)
    PROVE  /\ pc' \in [Procs -> PCs]
           /\ tab' \in [Procs -> Tabs \cup {NoOne}]
           /\ todo' \in [Procs -> SUBSET Tabs]
           /\ pc'[p] \in {"enter", "idle"} /\ (pc'[p] = "enter" => tab'[p] \in rest)
           /\ todo'[p] \subseteq rest
           /\ (pc'[p] = "enter" => rest \subseteq todo'[p] \cup {tab'[p]})
           /\ (pc'[p] = "idle" => rest = {})
           /\ \A q \in Procs \ {p} : pc'[q] = pc[q] /\ tab'[q] = tab[q] /\ todo'[q] = todo[q]
  BY DEF ProcTypeOK, Proceeds, PCs

LEMMA TakesTyped ==
    ASSUME ProcTypeOK, NEW p \in Procs, NEW outcome \in {"ok", "error"}, Takes(p, outcome)
    PROVE  /\ reply' \in [Procs -> Results \cup {NoResult}]
           /\ (outcome = "ok" => reply[p].tab \in Tabs)
           /\ reply[p].tab \in Tabs \cup {NoOne}
  BY DEF ProcTypeOK, Takes, Results, NoResult, Result

LEMMA WakeTyped ==
    ASSUME ProcTypeOK, NEW t \in Tabs, NEW outcome \in {"ok", "error"}, WakeWaiters(t, outcome)
    PROVE  reply' \in [Procs -> Results \cup {NoResult}]
<1>1. Result(outcome, t) \in Results
  BY DEF Result, Results
<1> QED
  BY <1>1 DEF ProcTypeOK, WakeWaiters

LEMMA KnowsTyped ==
    ASSUME NEW pcs \in [Procs -> PCs], NEW tabs \in [Procs -> Tabs \cup {NoOne}],
           known \subseteq Tabs, NEW t \in Tabs, Knows(t, pcs, tabs)
    PROVE  /\ known' = known \cup {t} /\ known' \subseteq Tabs
           /\ pc' \in [Procs -> PCs]
           /\ tab' \in [Procs -> Tabs \cup {NoOne}]
           /\ \A q \in Procs :
                  \/ pc'[q] = pcs[q] /\ tab'[q] = tabs[q]
                  \/ pcs[q] = "idle" /\ pc'[q] = "enter" /\ tab'[q] = t
           /\ autoAttach => \E q \in Procs : pc'[q] = "enter" /\ tab'[q] = t
  BY DEF Knows, PCs, Procs

LEMMA SendsTyped ==
    ASSUME ProcTypeOK, cmds \subseteq Commands, NEW p \in Procs,
           NEW what \in Sending, NEW t \in Tabs \cup {NoOne}, Sends(p, what, t),
           what = "create" <=> t = NoOne
    PROVE  /\ cmds' \subseteq Commands
           /\ pc' = [pc EXCEPT ![p] = what] /\ pc' \in [Procs -> PCs]
  BY BrowserAssumption DEF ProcTypeOK, Sends, Command, Commands, Sending, PCs

LEMMA ProceedsKeeps ==
    ASSUME ProcTypeOK, NEW p \in Procs, NEW rest \in SUBSET Tabs, Proceeds(p, rest),
           reply' \in [Procs -> Results \cup {NoResult}], sid' \in [Procs -> Nat]
    PROVE  ProcTypeOK'
<1>1. /\ pc' \in [Procs -> PCs]
      /\ tab' \in [Procs -> Tabs \cup {NoOne}]
      /\ todo' \in [Procs -> SUBSET Tabs]
  BY ProceedsTyped
<1>2. ASSUME NEW q \in Procs, pc'[q] \in Attacking \cup {"enter", "wait", "emit"}
      PROVE  tab'[q] \in Tabs
  <2>1. CASE q = p
    BY <1>2, <2>1, ProceedsTyped DEF Attacking
  <2>2. CASE q # p
    BY <1>2, <2>2, ProceedsTyped DEF ProcTypeOK
  <2> QED
    BY <2>1, <2>2
<1> QED
  BY <1>1, <1>2 DEF ProcTypeOK, PCs

LEMMA KnowsKeeps ==
    ASSUME NEW pcs \in [Procs -> PCs], NEW tabs \in [Procs -> Tabs \cup {NoOne}],
           known \subseteq Tabs, NEW t \in Tabs, Knows(t, pcs, tabs),
           \A q \in Procs : pcs[q] \in Attacking \cup {"enter", "wait", "emit"} => tabs[q] \in Tabs,
           todo' \in [Procs -> SUBSET Tabs],
           reply' \in [Procs -> Results \cup {NoResult}], sid' \in [Procs -> Nat]
    PROVE  ProcTypeOK' /\ known' \subseteq Tabs
<1>1. /\ known' \subseteq Tabs
      /\ pc' \in [Procs -> PCs]
      /\ tab' \in [Procs -> Tabs \cup {NoOne}]
      /\ \A q \in Procs :
             \/ pc'[q] = pcs[q] /\ tab'[q] = tabs[q]
             \/ pcs[q] = "idle" /\ pc'[q] = "enter" /\ tab'[q] = t
  BY KnowsTyped
<1>2. ASSUME NEW q \in Procs, pc'[q] \in Attacking \cup {"enter", "wait", "emit"}
      PROVE  tab'[q] \in Tabs
  BY <1>1, <1>2
<1> QED
  BY <1>1, <1>2 DEF ProcTypeOK, PCs

LEMMA MessageTyped ==
    ASSUME NEW t \in Tabs
    PROVE  /\ Event("created", t) \in Messages
           /\ Event("removed", t) \in Messages
           /\ Event("detach", t) \in Messages
           /\ ClosingEvents(t) \in Seq(Messages)
           /\ <<Event("created", t)>> \in Seq(Messages)
           /\ <<Event("detach", t)>> \in Seq(Messages)
<1>1. /\ Event("created", t) \in Messages
      /\ Event("removed", t) \in Messages
      /\ Event("detach", t) \in Messages
  BY DEF Messages, Event
<1> HIDE DEF Event
<1> QED
  BY <1>1 DEF ClosingEvents

LEMMA AppendTyped ==
    ASSUME NEW s \in Seq(Messages), NEW m \in Messages
    PROVE  Append(s, m) \in Seq(Messages) /\ <<m>> \in Seq(Messages)
  OBVIOUS

LEMMA ConcatTyped ==
    ASSUME NEW r \in Seq(Messages), NEW s \in Seq(Messages)
    PROVE  r \o s \in Seq(Messages)
  BY ConcatProperties

LEMMA HeadTyped ==
    ASSUME BrowserTypeOK, NEW kind, Reads(kind)
    PROVE  /\ Head(inbox) \in Messages /\ Head(inbox).kind = kind
           /\ inbox' \in Seq(Messages)
           /\ (kind # "reply" => Head(inbox).tab \in Tabs)
           /\ (kind = "reply" /\ Head(inbox).to # NoOne =>
                   /\ Head(inbox).to \in Procs
                   /\ Result(Head(inbox).outcome, Head(inbox).tab) \in Results)
<1>1. inbox # <<>> /\ inbox \in Seq(Messages) /\ Head(inbox) \in Messages /\ inbox' \in Seq(Messages)
  BY DEF BrowserTypeOK, Reads
<1> QED
  BY <1>1 DEF Reads, Messages, Results, Result

LEMMA TypeInit == Init => TypeOK
<1> SUFFICES ASSUME Init PROVE TypeOK
  OBVIOUS
<1>1. NoResult \in Results \cup {NoResult} /\ inbox \in Seq(Messages)
  BY DEF Init
<1>2. ProcTypeOK
  BY <1>1 DEF Init, ProcTypeOK, Attacking
<1>3. autoAttach \in BOOLEAN
  BY DEF Init
<1>4. ModelTypeOK /\ BrowserTypeOK
  BY <1>1, <1>3 DEF Init, ModelTypeOK, BrowserTypeOK
<1> QED
  BY <1>2, <1>4 DEF Init, TypeOK

LEMMA TypeNext == TypeOK /\ [Next]_vars => TypeOK'
<1> SUFFICES ASSUME TypeOK, [Next]_vars PROVE TypeOK'
  OBVIOUS
<1>1. ASSUME NEW p \in Procs, EnterAttached(p) PROVE TypeOK'
  <2>1. todo[p] \in SUBSET Tabs /\ Proceeds(p, todo[p]) /\ ProcTypeOK
        /\ reply' \in [Procs -> Results \cup {NoResult}] /\ sid' \in [Procs -> Nat]
    BY <1>1 DEF EnterAttached, TypeOK, ProcTypeOK
  <2>2. ProcTypeOK'
    BY <2>1, ProceedsKeeps
  <2> QED
    BY <1>1, <2>2 DEF EnterAttached, TypeOK, ModelTypeOK, BrowserTypeOK, modelVars, viewVars,
                      browserVars, boundVars, historyVars
<1>2. ASSUME NEW p \in Procs, EnterWait(p) PROVE TypeOK'
  BY <1>2 DEF EnterWait, ModelTypeOK, BrowserTypeOK, ProcTypeOK, TypeOK, PCs, modelVars, viewVars, browserVars, boundVars, historyVars
<1>3. ASSUME NEW p \in Procs, EnterAttach(p) PROVE TypeOK'
  <2>1. tab[p] \in Tabs
    BY <1>3 DEF EnterAttach, TypeOK, ProcTypeOK
  <2>2. cmds' \subseteq Commands /\ pc' = [pc EXCEPT ![p] = "attach"] /\ pc' \in [Procs -> PCs]
    BY <1>3, <2>1, SendsTyped, BrowserAssumption
    DEF EnterAttach, Sending, TypeOK, BrowserTypeOK
  <2>3. attaching' \in [Tabs -> Procs \cup {NoOne}]
    BY <1>3, <2>1 DEF EnterAttach, TypeOK, ModelTypeOK
  <2> QED
    BY <1>3, <2>1, <2>2, <2>3 DEF EnterAttach, ModelTypeOK, BrowserTypeOK, ProcTypeOK, TypeOK, PCs, viewVars, boundVars
<1>4. ASSUME NEW p \in Procs, WaitReturns(p) PROVE TypeOK'
  <2>1. /\ \E rest \in SUBSET Tabs : Proceeds(p, rest)
        /\ \E outcome \in {"ok", "error"} : Takes(p, outcome)
        /\ gaveUp' \subseteq Tabs
    BY <1>4 DEF WaitReturns, Aborts, TypeOK, ProcTypeOK
  <2>2. reply' \in [Procs -> Results \cup {NoResult}] /\ sid' \in [Procs -> Nat] /\ ProcTypeOK
    BY <1>4, <2>1, TakesTyped DEF WaitReturns, TypeOK, ProcTypeOK
  <2>3. ProcTypeOK'
    BY <2>1, <2>2, ProceedsKeeps
  <2> QED
    BY <1>4, <2>1, <2>3 DEF WaitReturns, TypeOK, ModelTypeOK, BrowserTypeOK, modelVars, viewVars,
                            browserVars, boundVars
<1>5. ASSUME NEW p \in Procs, AttachReplied(p) PROVE TypeOK'
  <2>1. tab[p] \in Tabs /\ \E outcome \in {"ok", "error"} : Takes(p, outcome)
    BY <1>5 DEF AttachReplied, TypeOK, ProcTypeOK, Attacking
  <2>2. cmds' \subseteq Commands /\ \E at \in PCs : pc' = [pc EXCEPT ![p] = at]
    BY <1>5, <2>1, SendsTyped, BrowserAssumption
    DEF AttachReplied, Sending, Attacking, TypeOK, BrowserTypeOK, PCs
  <2> QED
    BY <1>5, <2>1, <2>2, TakesTyped
    DEF AttachReplied, ModelTypeOK, BrowserTypeOK, ProcTypeOK, TypeOK, PCs, modelVars, viewVars, boundVars, historyVars
<1>6. ASSUME NEW p \in Procs, InfoReplied(p) PROVE TypeOK'
  <2>1. tab[p] \in Tabs /\ \E outcome \in {"ok", "error"} : Takes(p, outcome)
    BY <1>6 DEF InfoReplied, TypeOK, ProcTypeOK, Attacking
  <2>2. cmds' \subseteq Commands /\ \E at \in PCs : pc' = [pc EXCEPT ![p] = at]
    BY <1>6, <2>1, SendsTyped, BrowserAssumption
    DEF InfoReplied, Sending, Attacking, TypeOK, BrowserTypeOK, PCs
  <2> QED
    BY <1>6, <2>1, <2>2, TakesTyped
    DEF InfoReplied, ModelTypeOK, BrowserTypeOK, ProcTypeOK, TypeOK, PCs, modelVars, viewVars, boundVars, historyVars
<1>7. ASSUME NEW p \in Procs, DetachReplied(p) PROVE TypeOK'
  <2>1. tab[p] \in Tabs /\ \E outcome \in {"ok", "error"} : Takes(p, outcome)
    BY <1>7 DEF DetachReplied, TypeOK, ProcTypeOK, Attacking
  <2> QED
    BY <1>7, <2>1, TakesTyped
    DEF DetachReplied, ModelTypeOK, BrowserTypeOK, ProcTypeOK, TypeOK, PCs, Attacking, modelVars, viewVars, browserVars, boundVars, historyVars
<1>8. ASSUME NEW p \in Procs, Allocate(p) PROVE TypeOK'
  BY <1>8 DEF Allocate, ModelTypeOK, BrowserTypeOK, ProcTypeOK, TypeOK, PCs, Attacking, viewVars, browserVars, boundVars, historyVars
<1>9. ASSUME NEW p \in Procs, Commit(p) PROVE TypeOK'
  <2>1. tab[p] \in Tabs
    BY <1>9 DEF Commit, TypeOK, ProcTypeOK, Attacking
  <2>2. reply' \in [Procs -> Results \cup {NoResult}]
    BY <1>9, <2>1, WakeTyped DEF Commit, TypeOK
  <2>3. /\ attaching' \in [Tabs -> Procs \cup {NoOne}] /\ gaveUp' \subseteq Tabs
        /\ sessions' \in [Tabs -> Nat]
    BY <1>9, <2>1 DEF Commit, TypeOK, ModelTypeOK, ProcTypeOK
  <2> QED
    BY <1>9, <2>1, <2>2, <2>3 DEF Commit, ModelTypeOK, BrowserTypeOK, ProcTypeOK, TypeOK, PCs, viewVars, browserVars, boundVars
<1>10. ASSUME NEW p \in Procs, Fail(p) PROVE TypeOK'
  <2>1. tab[p] \in Tabs /\ ProcTypeOK
    BY <1>10 DEF Fail, TypeOK, ProcTypeOK, Attacking
  <2>2. Proceeds(p, {}) /\ {} \in SUBSET Tabs /\ WakeWaiters(tab[p], "error")
    BY <1>10 DEF Fail, Aborts
  <2>3. attaching' \in [Tabs -> Procs \cup {NoOne}] /\ gaveUp' \subseteq Tabs
    BY <1>10, <2>1 DEF Fail, TypeOK, ModelTypeOK, ProcTypeOK
  <2>4. reply' \in [Procs -> Results \cup {NoResult}]
    BY <2>1, <2>2, WakeTyped
  <2>5. sid' \in [Procs -> Nat]
    BY <1>10, <2>1 DEF Fail, ProcTypeOK
  <2>6. ProcTypeOK'
    BY <2>1, <2>2, <2>4, <2>5, ProceedsKeeps
  <2> QED
    BY <1>10, <2>3, <2>6 DEF Fail, TypeOK, ModelTypeOK, BrowserTypeOK, viewVars, browserVars,
                            boundVars
<1>11. ASSUME NEW p \in Procs, EmitAttached(p) PROVE TypeOK'
  <2>1. todo[p] \in SUBSET Tabs /\ Proceeds(p, todo[p]) /\ ProcTypeOK
        /\ reply' \in [Procs -> Results \cup {NoResult}] /\ sid' \in [Procs -> Nat]
        /\ attached' \subseteq Nat
    BY <1>11 DEF EmitAttached, TypeOK, ProcTypeOK
  <2>2. ProcTypeOK'
    BY <2>1, ProceedsKeeps
  <2> QED
    BY <1>11, <2>1, <2>2 DEF EmitAttached, TypeOK, ModelTypeOK, BrowserTypeOK, modelVars,
                            browserVars, boundVars, historyVars
<1>12. ASSUME NEW p \in Procs, CreateReplied(p) PROVE TypeOK'
  <2>1. CASE Takes(p, "error") /\ pc' = [pc EXCEPT ![p] = "idle"] /\ UNCHANGED <<known, tab>>
    BY <1>12, <2>1, TakesTyped
    DEF CreateReplied, ModelTypeOK, BrowserTypeOK, ProcTypeOK, TypeOK, PCs, Attacking, viewVars, browserVars, boundVars, historyVars
  <2>2. CASE /\ Takes(p, "ok")
             /\ Knows(reply[p].tab, [pc EXCEPT ![p] = "enter"], [tab EXCEPT ![p] = reply[p].tab])
    <3> DEFINE pcs == [pc EXCEPT ![p] = "enter"]
               tabs == [tab EXCEPT ![p] = reply[p].tab]
    <3>1. reply[p].tab \in Tabs /\ reply' \in [Procs -> Results \cup {NoResult}]
      BY <2>2, TakesTyped DEF TypeOK
    <3>2. pcs \in [Procs -> PCs] /\ tabs \in [Procs -> Tabs \cup {NoOne}] /\ known \subseteq Tabs
      BY <3>1 DEF TypeOK, ModelTypeOK, ProcTypeOK, PCs
    <3>3. \A q \in Procs : pcs[q] \in Attacking \cup {"enter", "wait", "emit"} => tabs[q] \in Tabs
      BY <3>1 DEF TypeOK, ProcTypeOK
    <3>4. todo' \in [Procs -> SUBSET Tabs] /\ sid' \in [Procs -> Nat]
      BY <1>12 DEF CreateReplied, TypeOK, ProcTypeOK
    <3>5. Knows(reply[p].tab, pcs, tabs)
      BY <2>2
    <3> HIDE DEF pcs, tabs
    <3>6. ProcTypeOK' /\ known' \subseteq Tabs
      BY <3>1, <3>2, <3>3, <3>4, <3>5, KnowsKeeps
    <3> QED
      BY <1>12, <3>6 DEF CreateReplied, TypeOK, ModelTypeOK, BrowserTypeOK, viewVars, browserVars,
                        boundVars, historyVars
  <2> QED
    BY <1>12, <2>1, <2>2 DEF CreateReplied
<1>13. ASSUME NEW p \in Procs, RemoveReplied(p) PROVE TypeOK'
  <2>1. \E outcome \in {"ok", "error"} : Takes(p, outcome)
    BY <1>13 DEF RemoveReplied
  <2> QED
    BY <1>13, <2>1, TakesTyped
    DEF RemoveReplied, ModelTypeOK, BrowserTypeOK, ProcTypeOK, TypeOK, PCs, Attacking, modelVars, viewVars, browserVars, boundVars, historyVars
<1>14. ASSUME NEW p \in Procs, Expires(p) PROVE TypeOK'
  <2>1. reply' \in [Procs -> Results \cup {NoResult}]
    BY <1>14 DEF Expires, TypeOK, ProcTypeOK, Results, Result
  <2>2. cmds' \subseteq Commands
    BY <1>14 DEF Expires, TypeOK, BrowserTypeOK, Commands
  <2> DEFINE drop(m) == IF m.to = p THEN [m EXCEPT !.to = NoOne] ELSE m
  <2>3. \A m \in Messages : drop(m) \in Messages
    BY DEF Messages
  <2>4. inbox' = [i \in DOMAIN inbox |-> drop(inbox[i])]
    BY <1>14 DEF Expires
  <2> HIDE DEF drop
  <2>5. Len(inbox) \in Nat /\ DOMAIN inbox = 1 .. Len(inbox) /\ inbox \in [1 .. Len(inbox) -> Messages]
    BY LenProperties DEF TypeOK, BrowserTypeOK
  <2>6. inbox' \in [1 .. Len(inbox) -> Messages]
    BY <2>3, <2>4, <2>5
  <2>7. inbox' \in Seq(Messages)
    BY <2>5, <2>6, SeqDef
  <2>8. unsure' \subseteq Tabs
    BY <1>14 DEF Expires, TypeOK, ProcTypeOK, Attacking
  <2> QED
    BY <1>14, <2>1, <2>2, <2>7, <2>8 DEF Expires, ModelTypeOK, BrowserTypeOK, ProcTypeOK, TypeOK, PCs, modelVars, viewVars
<1>15. ASSUME NEW p \in Clients, WaitCancelled(p) PROVE TypeOK'
  <2>1. p \in Procs /\ Proceeds(p, {}) /\ ProcTypeOK /\ {} \in SUBSET Tabs
        /\ reply' \in [Procs -> Results \cup {NoResult}] /\ sid' \in [Procs -> Nat]
    BY <1>15 DEF WaitCancelled, Aborts, Procs, TypeOK, ProcTypeOK
  <2>2. ProcTypeOK'
    BY <2>1, ProceedsKeeps
  <2>3. gaveUp' \subseteq Tabs
    BY <1>15, <2>1 DEF WaitCancelled, TypeOK, ProcTypeOK
  <2> QED
    BY <1>15, <2>2, <2>3 DEF WaitCancelled, TypeOK, ModelTypeOK, BrowserTypeOK, modelVars, viewVars,
                            browserVars, boundVars
<1>16. ASSUME NEW p \in Clients, EnableAutoAttach(p) PROVE TypeOK'
  <2>1. /\ p \in Procs /\ known \in SUBSET Tabs /\ Proceeds(p, known) /\ ProcTypeOK
        /\ ops' \in [Clients -> Nat] /\ autoAttach' \in BOOLEAN
        /\ reply' \in [Procs -> Results \cup {NoResult}] /\ sid' \in [Procs -> Nat]
    BY <1>16 DEF EnableAutoAttach, StartsOp, Procs, TypeOK, ModelTypeOK, ProcTypeOK
  <2>2. ProcTypeOK'
    BY <2>1, ProceedsKeeps
  <2> QED
    BY <1>16, <2>1, <2>2 DEF EnableAutoAttach, TypeOK, ModelTypeOK, BrowserTypeOK, viewVars,
                            browserVars, historyVars
<1>17. ASSUME NEW p \in Clients, CreateTarget(p) PROVE TypeOK'
  <2>1. p \in Procs /\ ops' \in [Clients -> Nat]
    BY <1>17 DEF CreateTarget, StartsOp, Procs, TypeOK
  <2>2. cmds' \subseteq Commands /\ pc' = [pc EXCEPT ![p] = "create"] /\ pc' \in [Procs -> PCs]
    BY <1>17, <2>1, SendsTyped DEF CreateTarget, Sending, TypeOK, BrowserTypeOK
  <2> QED
    BY <1>17, <2>1, <2>2 DEF CreateTarget, ModelTypeOK, BrowserTypeOK, ProcTypeOK, TypeOK, PCs, Attacking, modelVars, viewVars, historyVars
<1>18. ASSUME NEW p \in Clients, CloseTarget(p) PROVE TypeOK'
  <2>1. p \in Procs /\ ops' \in [Clients -> Nat]
    BY <1>18 DEF CloseTarget, StartsOp, Procs, TypeOK
  <2>2. cmds' \subseteq Commands /\ pc' = [pc EXCEPT ![p] = "remove"] /\ pc' \in [Procs -> PCs]
    BY <1>18, <2>1, SendsTyped, BrowserAssumption
    DEF CloseTarget, Sending, TypeOK, BrowserTypeOK
  <2> QED
    BY <1>18, <2>1, <2>2 DEF CloseTarget, ModelTypeOK, BrowserTypeOK, ProcTypeOK, TypeOK, PCs, Attacking, modelVars, viewVars, historyVars
<1>19. CASE ReadReply
  <2>1. inbox' \in Seq(Messages)
    BY <1>19, HeadTyped DEF ReadReply, TypeOK
  <2>2. reply' \in [Procs -> Results \cup {NoResult}]
    BY <1>19, HeadTyped DEF ReadReply, TypeOK, ProcTypeOK
  <2> QED
    BY <1>19, <2>1, <2>2 DEF ReadReply, ModelTypeOK, BrowserTypeOK, ProcTypeOK, TypeOK, PCs, modelVars, viewVars, boundVars, historyVars
<1>20. CASE OnTabCreated
  <2>1. /\ inbox' \in Seq(Messages) /\ Head(inbox).tab \in Tabs
        /\ Knows(Head(inbox).tab, pc, tab)
    BY <1>20, HeadTyped DEF OnTabCreated, TypeOK
  <2>2. /\ pc \in [Procs -> PCs] /\ tab \in [Procs -> Tabs \cup {NoOne}] /\ known \subseteq Tabs
        /\ \A q \in Procs : pc[q] \in Attacking \cup {"enter", "wait", "emit"} => tab[q] \in Tabs
        /\ todo' \in [Procs -> SUBSET Tabs]
        /\ reply' \in [Procs -> Results \cup {NoResult}] /\ sid' \in [Procs -> Nat]
    BY <1>20 DEF OnTabCreated, TypeOK, ModelTypeOK, ProcTypeOK, PCs
  <2>3. ProcTypeOK' /\ known' \subseteq Tabs
    BY <2>1, <2>2, KnowsKeeps
  <2> QED
    BY <1>20, <2>1, <2>3 DEF OnTabCreated, TypeOK, ModelTypeOK, BrowserTypeOK, viewVars, boundVars,
                            historyVars
<1>21. CASE OnTabRemoved
  <2>1. inbox' \in Seq(Messages) /\ Head(inbox).tab \in Tabs
    BY <1>21, HeadTyped DEF OnTabRemoved, TypeOK
  <2> QED
    BY <1>21, <2>1 DEF OnTabRemoved, DetachTab, ModelTypeOK, BrowserTypeOK, ProcTypeOK, TypeOK, PCs, procVars, viewVars, boundVars
<1>22. CASE OnDebuggerDetach
  <2>1. inbox' \in Seq(Messages) /\ Head(inbox).tab \in Tabs
    BY <1>22, HeadTyped DEF OnDebuggerDetach, TypeOK
  <2> QED
    BY <1>22, <2>1 DEF OnDebuggerDetach, DetachTab, ModelTypeOK, BrowserTypeOK, ProcTypeOK, TypeOK, PCs, procVars, viewVars, boundVars
<1>23. CASE EmitDetached
  BY <1>23 DEF EmitDetached, ModelTypeOK, BrowserTypeOK, ProcTypeOK, TypeOK, PCs, modelVars, procVars, browserVars, boundVars, historyVars
<1>24. ASSUME NEW c \in cmds, Execute(c) PROVE TypeOK'
  <2>1. /\ c \in Commands /\ c.by \in Procs \cup {NoOne} /\ c.tab \in Tabs \cup {NoOne}
        /\ cmds' \subseteq Commands
    BY <1>24 DEF Execute, TypeOK, BrowserTypeOK, Commands
  <2>2. ASSUME NEW outcome \in {"ok", "error"}, NEW t \in Tabs \cup {NoOne}, outcome = "ok" => t \in Tabs,
               NEW before \in Seq(Messages), NEW after \in Seq(Messages),
               Answers(c, outcome, t, before, after)
        PROVE  inbox' \in Seq(Messages)
    <3> DEFINE answer == IF c.by = NoOne THEN <<>> ELSE <<Reply(c.by, outcome, t)>>
    <3>1. c.by # NoOne => Reply(c.by, outcome, t) \in Messages
      BY <2>1, <2>2 DEF Reply, Messages
    <3>2. answer \in Seq(Messages)
      BY <3>1, AppendTyped
    <3>3. inbox' = inbox \o before \o answer \o after /\ inbox \in Seq(Messages)
      BY <2>2 DEF Answers, TypeOK, BrowserTypeOK
    <3> HIDE DEF answer
    <3> QED
      BY <2>2, <3>2, <3>3, ConcatTyped
  <2>3. <<>> \in Seq(Messages)
    OBVIOUS
  <2>4. ASSUME NEW t \in Tabs
        PROVE  <<Event("created", t)>> \in Seq(Messages) /\ ClosingEvents(t) \in Seq(Messages)
    BY MessageTyped
  <2>5. CASE Refuses(c)
    BY <1>24, <2>1, <2>2, <2>3, <2>5
    DEF Refuses, Execute, ModelTypeOK, BrowserTypeOK, ProcTypeOK, TypeOK, PCs, modelVars, procVars, viewVars, boundVars, historyVars
  <2>6. CASE Performs(c)
    <3>1. unopened' \subseteq Tabs /\ open' \subseteq Tabs /\ debugged' \subseteq Tabs
      <4>1. c.what \in Sending
        BY <2>1 DEF Commands, Sending
      <4>2. CASE c.what \in {"attach", "info", "detach"}
        BY <2>6, <4>2 DEF Performs, TypeOK, BrowserTypeOK
      <4>3. CASE c.what = "create"
        BY <2>6, <4>3 DEF Performs, Opens, TypeOK, BrowserTypeOK
      <4>4. CASE c.what = "remove"
        BY <2>6, <4>4 DEF Performs, Closes, TypeOK, BrowserTypeOK
      <4> QED
        BY <4>1, <4>2, <4>3, <4>4 DEF Sending
    <3>2. inbox' \in Seq(Messages)
      <4>1. CASE c.what \in {"attach", "info", "detach"}
        BY <2>1, <2>2, <2>3, <2>6, <4>1 DEF Performs, Commands, TypeOK, BrowserTypeOK
      <4>2. CASE c.what = "create"
        BY <2>2, <2>3, <2>4, <2>6, <4>2 DEF Performs, Opens, TypeOK, BrowserTypeOK
      <4>3. CASE c.what = "remove"
        BY <2>2, <2>3, <2>4, <2>6, <4>3 DEF Performs, Closes, TypeOK, BrowserTypeOK
      <4> QED
        BY <2>1, <4>1, <4>2, <4>3 DEF Commands, Sending
    <3> QED
      BY <1>24, <2>1, <3>1, <3>2
      DEF Execute, ModelTypeOK, BrowserTypeOK, ProcTypeOK, TypeOK, PCs, modelVars, procVars, viewVars, boundVars, historyVars
  <2> QED
    BY <1>24, <2>5, <2>6 DEF Execute
<1>25. ASSUME NEW t \in Tabs, UserOpens(t) PROVE TypeOK'
  <2>1. inbox' = Append(inbox, Event("created", t)) /\ inbox \in Seq(Messages)
    BY <1>25 DEF UserOpens, TypeOK, BrowserTypeOK
  <2>2. inbox' \in Seq(Messages)
    BY <2>1, MessageTyped, AppendTyped
  <2> QED
    BY <1>25, <2>2 DEF UserOpens, Opens, ModelTypeOK, BrowserTypeOK, ProcTypeOK, TypeOK, PCs, modelVars, procVars, viewVars, boundVars, historyVars
<1>26. ASSUME NEW t \in Tabs, UserCloses(t) PROVE TypeOK'
  <2>1. inbox' = inbox \o ClosingEvents(t) /\ inbox \in Seq(Messages)
    BY <1>26 DEF UserCloses, TypeOK, BrowserTypeOK
  <2>2. inbox' \in Seq(Messages)
    BY <2>1, MessageTyped, ConcatTyped
  <2> QED
    BY <1>26, <2>2 DEF UserCloses, Closes, ModelTypeOK, BrowserTypeOK, ProcTypeOK, TypeOK, PCs, modelVars, procVars, viewVars, boundVars, historyVars
<1>27. ASSUME NEW t \in Tabs, UserDetaches(t) PROVE TypeOK'
  <2>1. inbox' = Append(inbox, Event("detach", t)) /\ inbox \in Seq(Messages)
    BY <1>27 DEF UserDetaches, TypeOK, BrowserTypeOK
  <2>2. inbox' \in Seq(Messages)
    BY <2>1, MessageTyped, AppendTyped
  <2> QED
    BY <1>27, <2>2 DEF UserDetaches, ModelTypeOK, BrowserTypeOK, ProcTypeOK, TypeOK, PCs, modelVars, procVars, viewVars, historyVars
<1>28. CASE UNCHANGED vars
  BY <1>28 DEF vars, modelVars, procVars, viewVars, browserVars, boundVars, historyVars, TypeOK, ModelTypeOK, ProcTypeOK, BrowserTypeOK
<1> QED
  BY <1>1, <1>2, <1>3, <1>4, <1>5, <1>6, <1>7, <1>8, <1>9, <1>10, <1>11, <1>12, <1>13, <1>14, <1>15, <1>16, <1>17, <1>18, <1>19, <1>20, <1>21, <1>22, <1>23, <1>24, <1>25, <1>26, <1>27, <1>28
  DEF Next, ProcStep, AttachTab, Reader, User, Procs

(***************************************************************************)
(* One goroutine attaches a tab: m.attaching and the goroutines agree, and *)
(* a tab with an attach under way has no session.                          *)
(***************************************************************************)
AttachInv ==
    /\ \A p \in Procs : pc[p] \in Attacking => attaching[tab[p]] = p
    /\ \A t \in Tabs : attaching[t] # NoOne =>
           pc[attaching[t]] \in Attacking /\ tab[attaching[t]] = t /\ sessions[t] = 0

LEMMA AttachInit == Init => AttachInv
  BY DEF Init, AttachInv, Attacking

LEMMA CreateMoves ==
    ASSUME TypeOK, NEW p \in Procs, CreateReplied(p)
    PROVE  /\ pc[p] = "create" /\ UNCHANGED todo /\ known \subseteq known'
           /\ \A q \in Procs :
                  \/ pc'[q] = pc[q] /\ tab'[q] = tab[q]
                  \/ pc[q] \in {"idle", "create"} /\ pc'[q] \in {"enter", "idle"}
           /\ pc'[p] \in {"enter", "idle"}
           /\ \A q \in Procs \ {p} :
                  \/ pc'[q] = pc[q] /\ tab'[q] = tab[q]
                  \/ pc[q] = "idle" /\ pc'[q] = "enter"
           /\ \A t \in known' \ known :
                  \E q \in Procs : pc'[q] = "enter" /\ tab'[q] = t
<1>1. CASE Takes(p, "error") /\ pc' = [pc EXCEPT ![p] = "idle"] /\ UNCHANGED <<known, tab>>
  BY <1>1 DEF CreateReplied, TypeOK, ProcTypeOK
<1>2. CASE /\ Takes(p, "ok")
           /\ Knows(reply[p].tab, [pc EXCEPT ![p] = "enter"], [tab EXCEPT ![p] = reply[p].tab])
  <2> DEFINE pcs == [pc EXCEPT ![p] = "enter"]
             tabs == [tab EXCEPT ![p] = reply[p].tab]
  <2>1. reply[p].tab \in Tabs
    BY <1>2, TakesTyped DEF TypeOK
  <2>2. pcs \in [Procs -> PCs] /\ tabs \in [Procs -> Tabs \cup {NoOne}] /\ known \subseteq Tabs
    BY <2>1 DEF TypeOK, ModelTypeOK, ProcTypeOK, PCs
  <2>3. /\ \A q \in Procs \ {p} : pcs[q] = pc[q] /\ tabs[q] = tab[q]
        /\ pcs[p] = "enter" /\ tabs[p] = reply[p].tab
    BY DEF TypeOK, ProcTypeOK
  <2>4. Knows(reply[p].tab, pcs, tabs)
    BY <1>2
  <2> HIDE DEF pcs, tabs
  <2>5. /\ known' = known \cup {reply[p].tab}
        /\ \A q \in Procs :
               \/ pc'[q] = pcs[q] /\ tab'[q] = tabs[q]
               \/ pcs[q] = "idle" /\ pc'[q] = "enter" /\ tab'[q] = reply[p].tab
    BY <2>1, <2>2, <2>4, KnowsTyped
  <2>6. pc'[p] = "enter" /\ tab'[p] = reply[p].tab
    BY <2>3, <2>5
  <2> QED
    BY <2>3, <2>5, <2>6 DEF CreateReplied
<1> QED
  BY <1>1, <1>2 DEF CreateReplied

LEMMA AttachNext == TypeOK /\ AttachInv /\ [Next]_vars => AttachInv'
<1> SUFFICES ASSUME TypeOK, AttachInv, [Next]_vars PROVE AttachInv'
  OBVIOUS
<1>1. ASSUME NEW p \in Procs, EnterAttached(p) PROVE AttachInv'
  <2>1. p \in Procs /\ todo[p] \subseteq Tabs /\ Proceeds(p, todo[p])
    BY <1>1 DEF EnterAttached, StartsOp, Aborts, Procs, TypeOK, ProcTypeOK, ModelTypeOK
  <2>2. /\ pc'[p] \in {"enter", "idle"}
        /\ \A q \in Procs \ {p} : pc'[q] = pc[q] /\ tab'[q] = tab[q]
    BY <2>1, ProceedsTyped DEF TypeOK
  <2>3. UNCHANGED <<sessions, attaching>> /\ pc[p] \notin Attacking
    BY <1>1 DEF EnterAttached, StartsOp, Attacking, modelVars
  <2> QED
    BY <2>1, <2>2, <2>3, BrowserAssumption DEF AttachInv, TypeOK, ModelTypeOK, ProcTypeOK, Attacking
<1>2. ASSUME NEW p \in Procs, EnterWait(p) PROVE AttachInv'
  BY <1>2 DEF EnterWait, AttachInv, TypeOK, ModelTypeOK, ProcTypeOK, Attacking, modelVars, viewVars, browserVars, boundVars, historyVars
<1>3. ASSUME NEW p \in Procs, EnterAttach(p) PROVE AttachInv'
  <2>1. tab[p] \in Tabs /\ pc' = [pc EXCEPT ![p] = "attach"] /\ UNCHANGED <<tab, sessions>>
    BY <1>3 DEF EnterAttach, Sends, TypeOK, ProcTypeOK
  <2>2. /\ pc[p] = "enter" /\ sessions[tab[p]] = 0 /\ attaching[tab[p]] = NoOne
        /\ attaching' = [attaching EXCEPT ![tab[p]] = p] /\ \A q \in Procs : q # NoOne
    BY <1>3, BrowserAssumption DEF EnterAttach, Procs
  <2> QED
    BY <2>1, <2>2 DEF AttachInv, TypeOK, ModelTypeOK, ProcTypeOK, Attacking
<1>4. ASSUME NEW p \in Procs, WaitReturns(p) PROVE AttachInv'
  <2>1. PICK rest \in SUBSET Tabs : Proceeds(p, rest)
    BY <1>4 DEF WaitReturns, Aborts, TypeOK, ProcTypeOK
  <2>2. /\ pc'[p] \in {"enter", "idle"}
        /\ \A q \in Procs \ {p} : pc'[q] = pc[q] /\ tab'[q] = tab[q]
    BY <1>4, <2>1, ProceedsTyped DEF TypeOK
  <2>3. UNCHANGED <<sessions, attaching>> /\ pc[p] \notin Attacking
    BY <1>4 DEF WaitReturns, Attacking, modelVars
  <2> QED
    BY <1>4, <2>2, <2>3, BrowserAssumption DEF AttachInv, TypeOK, ModelTypeOK, ProcTypeOK, Attacking
<1>5. ASSUME NEW p \in Procs, AttachReplied(p) PROVE AttachInv'
  <2>1. /\ pc[p] \in Attacking /\ \E at \in Attacking : pc' = [pc EXCEPT ![p] = at]
        /\ UNCHANGED <<tab, attaching, sessions>>
    BY <1>5 DEF AttachReplied, Attacking, modelVars, Sends
  <2> QED
    BY <1>5, <2>1 DEF AttachInv, TypeOK, ModelTypeOK, ProcTypeOK
<1>6. ASSUME NEW p \in Procs, InfoReplied(p) PROVE AttachInv'
  <2>1. /\ pc[p] \in Attacking /\ \E at \in Attacking : pc' = [pc EXCEPT ![p] = at]
        /\ UNCHANGED <<tab, attaching, sessions>>
    BY <1>6 DEF InfoReplied, Attacking, modelVars, Sends
  <2> QED
    BY <1>6, <2>1 DEF AttachInv, TypeOK, ModelTypeOK, ProcTypeOK
<1>7. ASSUME NEW p \in Procs, DetachReplied(p) PROVE AttachInv'
  <2>1. /\ pc[p] \in Attacking /\ \E at \in Attacking : pc' = [pc EXCEPT ![p] = at]
        /\ UNCHANGED <<tab, attaching, sessions>>
    BY <1>7 DEF DetachReplied, Attacking, modelVars
  <2> QED
    BY <1>7, <2>1 DEF AttachInv, TypeOK, ModelTypeOK, ProcTypeOK
<1>8. ASSUME NEW p \in Procs, Allocate(p) PROVE AttachInv'
  <2>1. /\ pc[p] \in Attacking /\ \E at \in Attacking : pc' = [pc EXCEPT ![p] = at]
        /\ UNCHANGED <<tab, attaching, sessions>>
    BY <1>8 DEF Allocate, Attacking, modelVars
  <2> QED
    BY <1>8, <2>1 DEF AttachInv, TypeOK, ModelTypeOK, ProcTypeOK
<1>9. ASSUME NEW p \in Procs, Commit(p) PROVE AttachInv'
  <2>1. tab[p] \in Tabs /\ pc[p] = "commit" /\ pc' = [pc EXCEPT ![p] = "emit"] /\ UNCHANGED tab
    BY <1>9 DEF Commit, TypeOK, ProcTypeOK, Attacking
  <2>2. /\ attaching' = [attaching EXCEPT ![tab[p]] = NoOne]
        /\ sessions' = [sessions EXCEPT ![tab[p]] = sid[p]]
    BY <1>9 DEF Commit
  <2> QED
    BY <1>9, <2>1, <2>2, BrowserAssumption DEF AttachInv, TypeOK, ModelTypeOK, ProcTypeOK, Attacking
<1>10. ASSUME NEW p \in Procs, Fail(p) PROVE AttachInv'
  <2>1. tab[p] \in Tabs /\ {} \subseteq Tabs /\ Proceeds(p, {}) /\ pc[p] = "fail"
    BY <1>10 DEF Fail, Aborts, TypeOK, ProcTypeOK, Attacking
  <2>2. /\ pc'[p] \in {"enter", "idle"}
        /\ \A q \in Procs \ {p} : pc'[q] = pc[q] /\ tab'[q] = tab[q]
    BY <1>10, <2>1, ProceedsTyped DEF TypeOK
  <2>3. UNCHANGED sessions /\ attaching' = [attaching EXCEPT ![tab[p]] = NoOne]
    BY <1>10 DEF Fail
  <2> QED
    BY <1>10, <2>1, <2>2, <2>3, BrowserAssumption DEF AttachInv, TypeOK, ModelTypeOK, ProcTypeOK, Attacking
<1>11. ASSUME NEW p \in Procs, EmitAttached(p) PROVE AttachInv'
  <2>1. p \in Procs /\ todo[p] \subseteq Tabs /\ Proceeds(p, todo[p])
    BY <1>11 DEF EmitAttached, StartsOp, Aborts, Procs, TypeOK, ProcTypeOK, ModelTypeOK
  <2>2. /\ pc'[p] \in {"enter", "idle"}
        /\ \A q \in Procs \ {p} : pc'[q] = pc[q] /\ tab'[q] = tab[q]
    BY <2>1, ProceedsTyped DEF TypeOK
  <2>3. UNCHANGED <<sessions, attaching>> /\ pc[p] \notin Attacking
    BY <1>11 DEF EmitAttached, StartsOp, Attacking, modelVars
  <2> QED
    BY <2>1, <2>2, <2>3, BrowserAssumption DEF AttachInv, TypeOK, ModelTypeOK, ProcTypeOK, Attacking
<1>12. ASSUME NEW p \in Procs, CreateReplied(p) PROVE AttachInv'
  <2>1. /\ UNCHANGED <<attaching, sessions>> /\ pc[p] = "create"
        /\ \A q \in Procs :
              \/ pc'[q] = pc[q] /\ tab'[q] = tab[q]
              \/ pc[q] \in {"idle", "create"} /\ pc'[q] \in {"enter", "idle"}
    BY <1>12, CreateMoves DEF CreateReplied, TypeOK
  <2> QED
    BY <2>1, BrowserAssumption DEF AttachInv, TypeOK, ModelTypeOK, ProcTypeOK, Attacking
<1>13. ASSUME NEW p \in Procs, RemoveReplied(p) PROVE AttachInv'
  <2>1. pc[p] = "remove" /\ pc' = [pc EXCEPT ![p] = "idle"] /\ UNCHANGED <<tab, attaching, sessions>>
    BY <1>13 DEF RemoveReplied, modelVars
  <2> QED
    BY <1>13, <2>1, BrowserAssumption DEF AttachInv, TypeOK, ModelTypeOK, ProcTypeOK, Attacking
<1>14. ASSUME NEW p \in Procs, Expires(p) PROVE AttachInv'
  BY <1>14 DEF Expires, AttachInv, TypeOK, ModelTypeOK, ProcTypeOK, Attacking, modelVars, viewVars
<1>15. ASSUME NEW p \in Clients, WaitCancelled(p) PROVE AttachInv'
  <2>1. p \in Procs /\ {} \subseteq Tabs /\ Proceeds(p, {})
    BY <1>15 DEF WaitCancelled, StartsOp, Aborts, Procs, TypeOK, ProcTypeOK, ModelTypeOK
  <2>2. /\ pc'[p] \in {"enter", "idle"}
        /\ \A q \in Procs \ {p} : pc'[q] = pc[q] /\ tab'[q] = tab[q]
    BY <2>1, ProceedsTyped DEF TypeOK
  <2>3. UNCHANGED <<sessions, attaching>> /\ pc[p] \notin Attacking
    BY <1>15 DEF WaitCancelled, StartsOp, Attacking, modelVars
  <2> QED
    BY <2>1, <2>2, <2>3, BrowserAssumption DEF AttachInv, TypeOK, ModelTypeOK, ProcTypeOK, Attacking
<1>16. ASSUME NEW p \in Clients, EnableAutoAttach(p) PROVE AttachInv'
  <2>1. p \in Procs /\ known \subseteq Tabs /\ Proceeds(p, known)
    BY <1>16 DEF EnableAutoAttach, StartsOp, Aborts, Procs, TypeOK, ProcTypeOK, ModelTypeOK
  <2>2. /\ pc'[p] \in {"enter", "idle"}
        /\ \A q \in Procs \ {p} : pc'[q] = pc[q] /\ tab'[q] = tab[q]
    BY <2>1, ProceedsTyped DEF TypeOK
  <2>3. UNCHANGED <<sessions, attaching>> /\ pc[p] \notin Attacking
    BY <1>16 DEF EnableAutoAttach, StartsOp, Attacking
  <2> QED
    BY <2>1, <2>2, <2>3, BrowserAssumption DEF AttachInv, TypeOK, ModelTypeOK, ProcTypeOK, Attacking
<1>17. ASSUME NEW p \in Clients, CreateTarget(p) PROVE AttachInv'
  <2>1. /\ \E at \in Sending \ Attacking : pc' = [pc EXCEPT ![p] = at]
        /\ p \in Procs /\ pc[p] = "idle" /\ UNCHANGED <<tab, attaching, sessions>>
    BY <1>17 DEF CreateTarget, StartsOp, Sends, Sending, Attacking, Procs, modelVars
  <2> QED
    BY <2>1, BrowserAssumption DEF AttachInv, TypeOK, ModelTypeOK, ProcTypeOK, Attacking
<1>18. ASSUME NEW p \in Clients, CloseTarget(p) PROVE AttachInv'
  <2>1. /\ \E at \in Sending \ Attacking : pc' = [pc EXCEPT ![p] = at]
        /\ p \in Procs /\ pc[p] = "idle" /\ UNCHANGED <<tab, attaching, sessions>>
    BY <1>18 DEF CloseTarget, StartsOp, Sends, Sending, Attacking, Procs, modelVars
  <2> QED
    BY <2>1, BrowserAssumption DEF AttachInv, TypeOK, ModelTypeOK, ProcTypeOK, Attacking
<1>19. CASE ReadReply
  BY <1>19 DEF ReadReply, AttachInv, TypeOK, ModelTypeOK, ProcTypeOK, Attacking, modelVars, viewVars, boundVars, historyVars
<1>20. CASE OnTabCreated
  <2>1. Head(inbox).tab \in Tabs /\ Knows(Head(inbox).tab, pc, tab) /\ UNCHANGED <<attaching, sessions>>
    BY <1>20, HeadTyped DEF OnTabCreated, TypeOK
  <2>2. \A q \in Procs :
           \/ pc'[q] = pc[q] /\ tab'[q] = tab[q]
           \/ pc[q] = "idle" /\ pc'[q] = "enter"
    BY <2>1, KnowsTyped DEF TypeOK, ModelTypeOK, ProcTypeOK, PCs
  <2> QED
    BY <2>1, <2>2, BrowserAssumption DEF AttachInv, TypeOK, ModelTypeOK, ProcTypeOK, Attacking
<1>21. CASE OnTabRemoved
  <2>1. /\ Head(inbox).tab \in Tabs /\ UNCHANGED <<pc, tab, attaching>>
        /\ sessions' = [sessions EXCEPT ![Head(inbox).tab] = 0]
    BY <1>21, HeadTyped DEF OnTabRemoved, DetachTab, TypeOK, procVars
  <2> QED
    BY <2>1 DEF AttachInv, TypeOK, ModelTypeOK, ProcTypeOK, Attacking
<1>22. CASE OnDebuggerDetach
  <2>1. /\ Head(inbox).tab \in Tabs /\ UNCHANGED <<pc, tab, attaching>>
        /\ sessions' = [sessions EXCEPT ![Head(inbox).tab] = 0]
    BY <1>22, HeadTyped DEF OnDebuggerDetach, DetachTab, TypeOK, procVars
  <2> QED
    BY <2>1 DEF AttachInv, TypeOK, ModelTypeOK, ProcTypeOK, Attacking
<1>23. CASE EmitDetached
  BY <1>23 DEF EmitDetached, AttachInv, TypeOK, ModelTypeOK, ProcTypeOK, Attacking, modelVars, procVars, browserVars, boundVars, historyVars
<1>24. ASSUME NEW c \in cmds, Execute(c) PROVE AttachInv'
  BY <1>24 DEF Execute, AttachInv, TypeOK, ModelTypeOK, ProcTypeOK, Attacking, modelVars, procVars, viewVars, boundVars, historyVars
<1>25. ASSUME NEW t \in Tabs, UserOpens(t) PROVE AttachInv'
  BY <1>25 DEF UserOpens, AttachInv, TypeOK, ModelTypeOK, ProcTypeOK, Attacking, modelVars, procVars, viewVars, boundVars, historyVars
<1>26. ASSUME NEW t \in Tabs, UserCloses(t) PROVE AttachInv'
  BY <1>26 DEF UserCloses, AttachInv, TypeOK, ModelTypeOK, ProcTypeOK, Attacking, modelVars, procVars, viewVars, boundVars, historyVars
<1>27. ASSUME NEW t \in Tabs, UserDetaches(t) PROVE AttachInv'
  BY <1>27 DEF UserDetaches, AttachInv, TypeOK, ModelTypeOK, ProcTypeOK, Attacking, modelVars, procVars, viewVars, historyVars
<1>28. CASE UNCHANGED vars
  BY <1>28 DEF vars, modelVars, procVars, viewVars, browserVars, boundVars, historyVars, AttachInv, TypeOK, ModelTypeOK, ProcTypeOK, Attacking
<1> QED
  BY <1>1, <1>2, <1>3, <1>4, <1>5, <1>6, <1>7, <1>8, <1>9, <1>10, <1>11, <1>12, <1>13, <1>14, <1>15, <1>16, <1>17, <1>18, <1>19, <1>20, <1>21, <1>22, <1>23, <1>24, <1>25, <1>26, <1>27, <1>28
  DEF Next, ProcStep, AttachTab, Reader, User, Procs

(***************************************************************************)
(* Session ids.  A goroutine holds one from its allocation until it has    *)
(* reported it; no two hold the same, no two tabs have the same, and an id *)
(* that waits to be installed has been neither installed nor reported.     *)
(***************************************************************************)
Holders == {"commit", "emit"}

SidInv ==
    /\ \A p \in Procs : sid[p] < nextID /\ (sid[p] # 0 <=> pc[p] \in Holders)
    /\ \A p, q \in Procs : sid[p] # 0 /\ sid[p] = sid[q] => p = q
    /\ \A t \in Tabs : sessions[t] < nextID
    /\ \A t, u \in Tabs : sessions[t] # 0 /\ sessions[t] = sessions[u] => t = u
    /\ emitting < nextID /\ \A i \in attached \cup detached : i # 0 /\ i < nextID
    /\ \A p \in Procs : pc[p] = "commit" =>
           /\ sid[p] \notin attached \cup detached \cup {emitting}
           /\ \A t \in Tabs : sessions[t] # sid[p]

LEMMA SidInit == Init => SidInv
  BY DEF Init, SidInv, Holders

\* What most steps do to the session ids: nothing.
Quiet ==
    /\ UNCHANGED <<nextID, sessions, sid, emitting, attached, detached>>
    /\ \A p \in Procs : pc'[p] # pc[p] => pc[p] \notin Holders /\ pc'[p] \notin Holders

SidStep ==
    \/ \E p \in Procs : Allocate(p) \/ Commit(p) \/ EmitAttached(p)
    \/ OnTabRemoved \/ OnDebuggerDetach \/ EmitDetached

LEMMA QuietOrSid == TypeOK /\ [Next]_vars => Quiet \/ SidStep
<1> SUFFICES ASSUME TypeOK, [Next]_vars PROVE Quiet \/ SidStep
  OBVIOUS
<1>1. ASSUME NEW p \in Procs, EnterAttached(p) PROVE Quiet \/ SidStep
  <2>1. p \in Procs /\ todo[p] \subseteq Tabs /\ Proceeds(p, todo[p])
    BY <1>1 DEF EnterAttached, StartsOp, Aborts, Procs, TypeOK, ProcTypeOK, ModelTypeOK
  <2>2. /\ pc'[p] \in {"enter", "idle"}
        /\ \A q \in Procs \ {p} : pc'[q] = pc[q]
    BY <2>1, ProceedsTyped DEF TypeOK
  <2> QED
    BY <1>1, <2>1, <2>2 DEF EnterAttached, StartsOp, modelVars, viewVars, Quiet, Holders
<1>2. ASSUME NEW p \in Procs, EnterWait(p) PROVE Quiet \/ SidStep
  <2>1. \E at \in PCs \ Holders : pc' = [pc EXCEPT ![p] = at]
    BY <1>2 DEF EnterWait, StartsOp, Sends, PCs, Holders, Sending, Attacking
  <2> QED
    BY <1>2, <2>1 DEF EnterWait, StartsOp, modelVars, viewVars, TypeOK, ProcTypeOK, Quiet, Holders
<1>3. ASSUME NEW p \in Procs, EnterAttach(p) PROVE Quiet \/ SidStep
  <2>1. \E at \in PCs \ Holders : pc' = [pc EXCEPT ![p] = at]
    BY <1>3 DEF EnterAttach, StartsOp, Sends, PCs, Holders, Sending, Attacking
  <2> QED
    BY <1>3, <2>1 DEF EnterAttach, StartsOp, viewVars, TypeOK, ProcTypeOK, Quiet, Holders
<1>4. ASSUME NEW p \in Procs, WaitReturns(p) PROVE Quiet \/ SidStep
  <2>1. PICK rest \in SUBSET Tabs : Proceeds(p, rest)
    BY <1>4 DEF WaitReturns, Aborts, TypeOK, ProcTypeOK
  <2>2. /\ pc'[p] \in {"enter", "idle"}
        /\ \A q \in Procs \ {p} : pc'[q] = pc[q]
    BY <1>4, <2>1, ProceedsTyped DEF TypeOK
  <2> QED
    BY <1>4, <2>2 DEF WaitReturns, modelVars, viewVars, Quiet, Holders
<1>5. ASSUME NEW p \in Procs, AttachReplied(p) PROVE Quiet \/ SidStep
  <2>1. \E at \in PCs \ Holders : pc' = [pc EXCEPT ![p] = at]
    BY <1>5 DEF AttachReplied, StartsOp, Sends, PCs, Holders, Sending, Attacking
  <2> QED
    BY <1>5, <2>1 DEF AttachReplied, StartsOp, modelVars, viewVars, TypeOK, ProcTypeOK, Quiet, Holders
<1>6. ASSUME NEW p \in Procs, InfoReplied(p) PROVE Quiet \/ SidStep
  <2>1. \E at \in PCs \ Holders : pc' = [pc EXCEPT ![p] = at]
    BY <1>6 DEF InfoReplied, StartsOp, Sends, PCs, Holders, Sending, Attacking
  <2> QED
    BY <1>6, <2>1 DEF InfoReplied, StartsOp, modelVars, viewVars, TypeOK, ProcTypeOK, Quiet, Holders
<1>7. ASSUME NEW p \in Procs, DetachReplied(p) PROVE Quiet \/ SidStep
  <2>1. \E at \in PCs \ Holders : pc' = [pc EXCEPT ![p] = at]
    BY <1>7 DEF DetachReplied, StartsOp, Sends, PCs, Holders, Sending, Attacking
  <2> QED
    BY <1>7, <2>1 DEF DetachReplied, StartsOp, modelVars, viewVars, TypeOK, ProcTypeOK, Quiet, Holders
<1>8. ASSUME NEW p \in Procs, Allocate(p) PROVE Quiet \/ SidStep
  BY <1>8 DEF SidStep
<1>9. ASSUME NEW p \in Procs, Commit(p) PROVE Quiet \/ SidStep
  BY <1>9 DEF SidStep
<1>10. ASSUME NEW p \in Procs, Fail(p) PROVE Quiet \/ SidStep
  <2>1. p \in Procs /\ {} \subseteq Tabs /\ Proceeds(p, {})
    BY <1>10 DEF Fail, StartsOp, Aborts, Procs, TypeOK, ProcTypeOK, ModelTypeOK
  <2>2. /\ pc'[p] \in {"enter", "idle"}
        /\ \A q \in Procs \ {p} : pc'[q] = pc[q]
    BY <2>1, ProceedsTyped DEF TypeOK
  <2> QED
    BY <1>10, <2>1, <2>2 DEF Fail, StartsOp, viewVars, Quiet, Holders
<1>11. ASSUME NEW p \in Procs, EmitAttached(p) PROVE Quiet \/ SidStep
  BY <1>11 DEF SidStep
<1>12. ASSUME NEW p \in Procs, CreateReplied(p) PROVE Quiet \/ SidStep
  <2>1. \A q \in Procs :
           \/ pc'[q] = pc[q]
           \/ pc[q] \in {"idle", "create"} /\ pc'[q] \in {"enter", "idle"}
    BY <1>12, CreateMoves
  <2> QED
    BY <1>12, <2>1 DEF CreateReplied, viewVars, Quiet, Holders
<1>13. ASSUME NEW p \in Procs, RemoveReplied(p) PROVE Quiet \/ SidStep
  <2>1. \E at \in PCs \ Holders : pc' = [pc EXCEPT ![p] = at]
    BY <1>13 DEF RemoveReplied, StartsOp, Sends, PCs, Holders, Sending, Attacking
  <2> QED
    BY <1>13, <2>1 DEF RemoveReplied, StartsOp, modelVars, viewVars, TypeOK, ProcTypeOK, Quiet, Holders
<1>14. ASSUME NEW p \in Procs, Expires(p) PROVE Quiet \/ SidStep
  BY <1>14 DEF Expires, Quiet, Holders, modelVars, viewVars
<1>15. ASSUME NEW p \in Clients, WaitCancelled(p) PROVE Quiet \/ SidStep
  <2>1. p \in Procs /\ {} \subseteq Tabs /\ Proceeds(p, {})
    BY <1>15 DEF WaitCancelled, StartsOp, Aborts, Procs, TypeOK, ProcTypeOK, ModelTypeOK
  <2>2. /\ pc'[p] \in {"enter", "idle"}
        /\ \A q \in Procs \ {p} : pc'[q] = pc[q]
    BY <2>1, ProceedsTyped DEF TypeOK
  <2> QED
    BY <1>15, <2>1, <2>2 DEF WaitCancelled, StartsOp, modelVars, viewVars, Quiet, Holders
<1>16. ASSUME NEW p \in Clients, EnableAutoAttach(p) PROVE Quiet \/ SidStep
  <2>1. p \in Procs /\ known \subseteq Tabs /\ Proceeds(p, known)
    BY <1>16 DEF EnableAutoAttach, StartsOp, Aborts, Procs, TypeOK, ProcTypeOK, ModelTypeOK
  <2>2. /\ pc'[p] \in {"enter", "idle"}
        /\ \A q \in Procs \ {p} : pc'[q] = pc[q]
    BY <2>1, ProceedsTyped DEF TypeOK
  <2> QED
    BY <1>16, <2>1, <2>2 DEF EnableAutoAttach, StartsOp, viewVars, Quiet, Holders
<1>17. ASSUME NEW p \in Clients, CreateTarget(p) PROVE Quiet \/ SidStep
  <2>1. \E at \in PCs \ Holders : pc' = [pc EXCEPT ![p] = at]
    BY <1>17 DEF CreateTarget, StartsOp, Sends, PCs, Holders, Sending, Attacking
  <2> QED
    BY <1>17, <2>1 DEF CreateTarget, StartsOp, modelVars, viewVars, TypeOK, ProcTypeOK, Quiet, Holders
<1>18. ASSUME NEW p \in Clients, CloseTarget(p) PROVE Quiet \/ SidStep
  <2>1. \E at \in PCs \ Holders : pc' = [pc EXCEPT ![p] = at]
    BY <1>18 DEF CloseTarget, StartsOp, Sends, PCs, Holders, Sending, Attacking
  <2> QED
    BY <1>18, <2>1 DEF CloseTarget, StartsOp, modelVars, viewVars, TypeOK, ProcTypeOK, Quiet, Holders
<1>19. CASE ReadReply
  BY <1>19 DEF ReadReply, Quiet, Holders, modelVars, viewVars, boundVars, historyVars
<1>20. CASE OnTabCreated
  <2>1. Head(inbox).tab \in Tabs /\ Knows(Head(inbox).tab, pc, tab)
    BY <1>20, HeadTyped DEF OnTabCreated, TypeOK
  <2>2. \A q \in Procs : pc'[q] = pc[q] \/ (pc[q] = "idle" /\ pc'[q] = "enter")
    BY <2>1, KnowsTyped DEF TypeOK, ModelTypeOK, ProcTypeOK, PCs
  <2> QED
    BY <1>20, <2>2 DEF OnTabCreated, viewVars, Quiet, Holders
<1>21. CASE OnTabRemoved
  BY <1>21 DEF SidStep
<1>22. CASE OnDebuggerDetach
  BY <1>22 DEF SidStep
<1>23. CASE EmitDetached
  BY <1>23 DEF SidStep
<1>24. ASSUME NEW c \in cmds, Execute(c) PROVE Quiet \/ SidStep
  BY <1>24 DEF Execute, Quiet, Holders, modelVars, procVars, viewVars, boundVars, historyVars
<1>25. ASSUME NEW t \in Tabs, UserOpens(t) PROVE Quiet \/ SidStep
  BY <1>25 DEF UserOpens, Quiet, Holders, modelVars, procVars, viewVars, boundVars, historyVars
<1>26. ASSUME NEW t \in Tabs, UserCloses(t) PROVE Quiet \/ SidStep
  BY <1>26 DEF UserCloses, Quiet, Holders, modelVars, procVars, viewVars, boundVars, historyVars
<1>27. ASSUME NEW t \in Tabs, UserDetaches(t) PROVE Quiet \/ SidStep
  BY <1>27 DEF UserDetaches, Quiet, Holders, modelVars, procVars, viewVars, historyVars
<1>28. CASE UNCHANGED vars
  BY <1>28 DEF vars, modelVars, procVars, viewVars, browserVars, boundVars, historyVars, Quiet, Holders
<1> QED
  BY <1>1, <1>2, <1>3, <1>4, <1>5, <1>6, <1>7, <1>8, <1>9, <1>10, <1>11, <1>12, <1>13, <1>14, <1>15, <1>16, <1>17, <1>18, <1>19, <1>20, <1>21, <1>22, <1>23, <1>24, <1>25, <1>26, <1>27, <1>28
  DEF Next, ProcStep, AttachTab, Reader, User, Procs

LEMMA SidNext == TypeOK /\ AttachInv /\ SidInv /\ [Next]_vars => SidInv'
<1> SUFFICES ASSUME TypeOK, AttachInv, SidInv, [Next]_vars PROVE SidInv'
  OBVIOUS
<1> USE DEF Holders
<1>1. CASE Quiet
  BY <1>1 DEF Quiet, SidInv
<1>2. ASSUME NEW p \in Procs, Allocate(p) PROVE SidInv'
  <2>1. /\ sid' = [sid EXCEPT ![p] = nextID] /\ pc' = [pc EXCEPT ![p] = "commit"]
        /\ pc[p] = "allocate" /\ nextID' = nextID + 1
        /\ UNCHANGED <<sessions, emitting, attached, detached>>
    BY <1>2 DEF Allocate, viewVars
  <2>2. /\ sid \in [Procs -> Nat] /\ pc \in [Procs -> PCs] /\ sessions \in [Tabs -> Nat]
        /\ emitting \in Nat /\ attached \subseteq Nat /\ detached \subseteq Nat
        /\ nextID \in Nat \ {0}
    BY DEF TypeOK, ModelTypeOK, ProcTypeOK, PCs
  <2> QED
    BY <2>1, <2>2 DEF SidInv
<1>3. ASSUME NEW p \in Procs, Commit(p) PROVE SidInv'
  <2>1. /\ sessions' = [sessions EXCEPT ![tab[p]] = sid[p]] /\ pc' = [pc EXCEPT ![p] = "emit"]
        /\ pc[p] = "commit" /\ UNCHANGED <<nextID, sid, emitting, attached, detached>>
    BY <1>3 DEF Commit, viewVars
  <2>2. sid \in [Procs -> Nat] /\ pc \in [Procs -> PCs] /\ sessions \in [Tabs -> Nat]
    BY DEF TypeOK, ModelTypeOK, ProcTypeOK, PCs
  <2>3. ASSUME NEW q \in Procs, pc'[q] = "commit"
        PROVE  pc[q] = "commit" /\ sid[q] # sid[p]
    BY <2>1, <2>2, <2>3 DEF SidInv
  <2> QED
    BY <2>1, <2>2, <2>3 DEF SidInv
<1>4. ASSUME NEW p \in Procs, EmitAttached(p) PROVE SidInv'
  <2>1. /\ sid' = [sid EXCEPT ![p] = 0] /\ attached' = attached \cup {sid[p]} /\ pc[p] = "emit"
        /\ Proceeds(p, todo[p]) /\ UNCHANGED <<nextID, sessions, emitting, detached>>
    BY <1>4 DEF EmitAttached, modelVars
  <2>2. pc'[p] \in {"enter", "idle"} /\ \A q \in Procs \ {p} : pc'[q] = pc[q]
    BY <2>1, ProceedsTyped DEF TypeOK, ProcTypeOK
  <2>3. /\ sid \in [Procs -> Nat] /\ sessions \in [Tabs -> Nat] /\ nextID \in Nat \ {0}
        /\ attached \subseteq Nat /\ detached \subseteq Nat
    BY DEF TypeOK, ModelTypeOK, ProcTypeOK
  <2>4. ASSUME NEW q \in Procs, pc'[q] = "commit"
        PROVE  q # p /\ pc[q] = "commit" /\ sid[q] # sid[p]
    BY <2>2, <2>1, <2>4 DEF SidInv
  <2> QED
    BY <2>1, <2>2, <2>3, <2>4 DEF SidInv
<1>5. ASSUME NEW t \in Tabs, DetachTab(t), UNCHANGED <<nextID, sid, pc, attached, detached>>
      PROVE  SidInv'
  <2>1. sessions' = [sessions EXCEPT ![t] = 0] /\ emitting' = sessions[t]
    BY <1>5 DEF DetachTab
  <2>2. sid \in [Procs -> Nat] /\ sessions \in [Tabs -> Nat] /\ nextID \in Nat \ {0}
    BY DEF TypeOK, ModelTypeOK, ProcTypeOK
  <2> QED
    BY <1>5, <2>1, <2>2 DEF SidInv
<1>6. CASE OnTabRemoved
  BY <1>5, <1>6, HeadTyped DEF OnTabRemoved, procVars, viewVars, TypeOK
<1>7. CASE OnDebuggerDetach
  BY <1>5, <1>7, HeadTyped DEF OnDebuggerDetach, procVars, viewVars, TypeOK
<1>8. CASE EmitDetached
  <2>1. /\ emitting # 0 /\ detached' = detached \cup {emitting} /\ emitting' = 0
        /\ UNCHANGED <<nextID, sessions, sid, pc, attached>>
    BY <1>8 DEF EmitDetached, modelVars, procVars
  <2>2. sid \in [Procs -> Nat] /\ nextID \in Nat \ {0}
    BY DEF TypeOK, ModelTypeOK, ProcTypeOK
  <2> QED
    BY <2>1, <2>2 DEF SidInv
<1> QED
  BY <1>1, <1>2, <1>3, <1>4, <1>6, <1>7, <1>8, QuietOrSid DEF SidStep

LEMMA EventsInit == Init => EventsAgree
  BY DEF Init, EventsAgree

LEMMA EventsNext == TypeOK /\ AttachInv /\ SidInv /\ EventsAgree /\ [Next]_vars => EventsAgree'
<1> SUFFICES ASSUME TypeOK, AttachInv, SidInv, EventsAgree, [Next]_vars PROVE EventsAgree'
  OBVIOUS
<1> USE DEF Holders
<1>1. CASE Quiet
  BY <1>1 DEF Quiet, EventsAgree
<1>2. ASSUME NEW p \in Procs, Allocate(p) PROVE EventsAgree'
  <2>1. /\ sid' = [sid EXCEPT ![p] = nextID] /\ pc' = [pc EXCEPT ![p] = "commit"]
        /\ pc[p] = "allocate" /\ UNCHANGED <<sessions, emitting, attached, detached>>
    BY <1>2 DEF Allocate, viewVars
  <2>2. ASSUME NEW q \in Procs
        PROVE  (pc'[q] = "emit" <=> pc[q] = "emit") /\ (pc[q] = "emit" => sid'[q] = sid[q])
    BY <2>1 DEF TypeOK, ProcTypeOK
  <2> QED
    BY <2>1, <2>2 DEF EventsAgree
<1>3. ASSUME NEW p \in Procs, Commit(p) PROVE EventsAgree'
  <2>1. /\ sessions' = [sessions EXCEPT ![tab[p]] = sid[p]] /\ pc' = [pc EXCEPT ![p] = "emit"]
        /\ pc[p] = "commit" /\ UNCHANGED <<sid, emitting, attached, detached>>
    BY <1>3 DEF Commit, viewVars
  <2>2. tab[p] \in Tabs /\ sessions[tab[p]] = 0 /\ sid[p] # 0
        /\ sid[p] \notin detached \cup {emitting}
    BY <1>3, <2>1, BrowserAssumption DEF AttachInv, SidInv, TypeOK, ProcTypeOK, Attacking, Procs
  <2>3. sid \in [Procs -> Nat] /\ pc \in [Procs -> PCs] /\ sessions \in [Tabs -> Nat]
    BY DEF TypeOK, ModelTypeOK, ProcTypeOK, PCs
  <2>4. {sid'[q] : q \in {r \in Procs : pc'[r] = "emit"}}
            = {sid[q] : q \in {r \in Procs : pc[r] = "emit"}} \cup {sid[p]}
    BY <2>1, <2>3
  <2>5. {sessions'[t] : t \in {u \in Tabs : sessions'[u] # 0}}
            = {sessions[t] : t \in {u \in Tabs : sessions[u] # 0}} \cup {sid[p]}
    BY <2>1, <2>2, <2>3
  <2> QED
    BY <2>1, <2>2, <2>4, <2>5 DEF EventsAgree
<1>4. ASSUME NEW p \in Procs, EmitAttached(p) PROVE EventsAgree'
  <2>1. /\ sid' = [sid EXCEPT ![p] = 0] /\ attached' = attached \cup {sid[p]} /\ pc[p] = "emit"
        /\ Proceeds(p, todo[p]) /\ UNCHANGED <<sessions, emitting, detached>>
    BY <1>4 DEF EmitAttached, modelVars
  <2>2. pc'[p] \in {"enter", "idle"} /\ \A q \in Procs \ {p} : pc'[q] = pc[q]
    BY <2>1, ProceedsTyped DEF TypeOK, ProcTypeOK
  <2>3. {sid'[q] : q \in {r \in Procs : pc'[r] = "emit"}} \cup {sid[p]}
            = {sid[q] : q \in {r \in Procs : pc[r] = "emit"}}
    BY <2>1, <2>2 DEF TypeOK, ProcTypeOK
  <2> DEFINE told == attached \cup {sid[q] : q \in {r \in Procs : pc[r] = "emit"}}
             toldPrime == attached' \cup {sid'[q] : q \in {r \in Procs : pc'[r] = "emit"}}
             alive == {sessions[t] : t \in {u \in Tabs : sessions[u] # 0}}
             alivePrime == {sessions'[t] : t \in {u \in Tabs : sessions'[u] # 0}}
  <2>4. toldPrime = told
    BY <2>1, <2>3
  <2>5. alivePrime = alive
    BY <2>1
  <2>6. /\ alive \subseteq told \ (detached \cup {emitting})
        /\ told \subseteq alive \cup detached \cup {emitting}
    BY DEF EventsAgree
  <2>7. /\ alivePrime \subseteq toldPrime \ (detached' \cup {emitting'})
        /\ toldPrime \subseteq alivePrime \cup detached' \cup {emitting'}
    BY <2>1, <2>4, <2>5, <2>6
  <2> QED
    BY <2>7 DEF EventsAgree
<1>5. ASSUME NEW t \in Tabs, DetachTab(t), emitting = 0, UNCHANGED <<sid, pc, attached, detached>>
      PROVE  EventsAgree'
  <2>1. sessions' = [sessions EXCEPT ![t] = 0] /\ emitting' = sessions[t]
    BY <1>5 DEF DetachTab
  <2>2. sessions \in [Tabs -> Nat]
    BY DEF TypeOK, ModelTypeOK
  <2> DEFINE alive == {sessions[u] : u \in {v \in Tabs : sessions[v] # 0}}
             alivePrime == {sessions'[u] : u \in {v \in Tabs : sessions'[v] # 0}}
             inEmit == {sid[p] : p \in {q \in Procs : pc[q] = "emit"}}
  <2>3. alivePrime = alive \ {sessions[t]}
    BY <2>1, <2>2 DEF SidInv
  <2>4. 0 \notin attached \cup inEmit
    BY <1>5 DEF EventsAgree, SidInv
  <2>5. /\ alive \subseteq (attached \cup inEmit) \ detached
        /\ attached \cup inEmit \subseteq alive \cup detached \cup {emitting}
    BY DEF EventsAgree
  <2>6. alivePrime \subseteq (attached \cup inEmit) \ (detached \cup {emitting'})
    BY <2>1, <2>3, <2>5
  <2>7. attached \cup inEmit \subseteq alivePrime \cup detached \cup {emitting'}
    BY <1>5, <2>1, <2>3, <2>4, <2>5
  <2> QED
    BY <1>5, <2>6, <2>7 DEF EventsAgree
<1>6. CASE OnTabRemoved
  BY <1>5, <1>6, HeadTyped DEF OnTabRemoved, Reads, procVars, viewVars, TypeOK
<1>7. CASE OnDebuggerDetach
  BY <1>5, <1>7, HeadTyped DEF OnDebuggerDetach, Reads, procVars, viewVars, TypeOK
<1>8. CASE EmitDetached
  BY <1>8 DEF EmitDetached, EventsAgree, modelVars, procVars
<1> QED
  BY <1>1, <1>2, <1>3, <1>4, <1>6, <1>7, <1>8, QuietOrSid DEF SidStep

(***************************************************************************)
(* No known tab is forgotten once autoAttach is set.                       *)
(***************************************************************************)
Wanted(t) == \E p \in Procs : t \in todo[p] \/ (pc[p] = "enter" /\ tab[p] = t)
Cared(t) == sessions[t] # 0 \/ attaching[t] # NoOne \/ Wanted(t) \/ t \in gaveUp

LEMMA MissedInit == Init => NoTabMissed
  BY DEF Init, NoTabMissed

\* p returns to its loop: whatever p wanted it still wants, but for the tab it
\* has come from and the tabs it drops.
LEMMA ProceedsWanted ==
    ASSUME TypeOK, NEW p \in Procs, NEW rest \in SUBSET Tabs, Proceeds(p, rest), NEW t \in Tabs, Wanted(t)
    PROVE  Wanted(t)' \/ (t \in todo[p] /\ t \notin rest) \/ (pc[p] = "enter" /\ tab[p] = t)
<1>1. PICK q \in Procs : t \in todo[q] \/ (pc[q] = "enter" /\ tab[q] = t)
  BY DEF Wanted
<1>2. CASE q = p /\ t \in rest
  <2>1. (pc'[p] = "enter" /\ tab'[p] = t) \/ t \in todo'[p]
    BY <1>2, ProceedsTyped DEF TypeOK
  <2> QED
    BY <2>1 DEF Wanted
<1>3. CASE q = p /\ t \notin rest
  BY <1>1, <1>3
<1>4. CASE q # p
  <2>1. pc'[q] = pc[q] /\ tab'[q] = tab[q] /\ todo'[q] = todo[q]
    BY <1>4, ProceedsTyped DEF TypeOK
  <2> QED
    BY <1>1, <2>1 DEF Wanted
<1> QED
  BY <1>2, <1>3, <1>4

\* A step that keeps care of every tab it leaves known keeps NoTabMissed.
LEMMA CareKept ==
    ASSUME TypeOK, NoTabMissed, autoAttach' = autoAttach,
           \A t \in known' : t \in known /\ (Cared(t) => Cared(t)')
    PROVE  NoTabMissed'
<1>1. ASSUME autoAttach, NEW t \in known PROVE Cared(t)
  BY <1>1 DEF NoTabMissed, Cared, Wanted
<1>2. ASSUME autoAttach', NEW t \in known' PROVE Cared(t)'
  BY <1>1, <1>2
<1> QED
  BY <1>2 DEF NoTabMissed, Cared, Wanted

LEMMA MissedNext == TypeOK /\ AttachInv /\ SidInv /\ NoTabMissed /\ [Next]_vars => NoTabMissed'
<1> SUFFICES ASSUME TypeOK, AttachInv, SidInv, NoTabMissed, [Next]_vars PROVE NoTabMissed'
  OBVIOUS
<1>1. ASSUME NEW p \in Procs, EnterAttached(p) PROVE NoTabMissed'
  <2>1. p \in Procs /\ todo[p] \subseteq Tabs /\ Proceeds(p, todo[p])
    BY <1>1 DEF EnterAttached, StartsOp, Aborts, Procs, TypeOK, ProcTypeOK, ModelTypeOK
  <2>2. ASSUME NEW t \in known, Cared(t) PROVE Cared(t)'
    <3>1. t \in Tabs /\ (Wanted(t) => Wanted(t)' \/ (t \in todo[p] /\ t \notin todo[p]) \/ (pc[p] = "enter" /\ tab[p] = t))
      BY <2>1, ProceedsWanted DEF TypeOK, ModelTypeOK
    <3> QED
      BY <1>1, <2>2, <3>1 DEF EnterAttached, modelVars, historyVars, Cared
  <2> QED
    BY <1>1, <2>2, CareKept DEF EnterAttached, modelVars
<1>2. ASSUME NEW p \in Procs, EnterWait(p) PROVE NoTabMissed'
  <2>1. ASSUME NEW t \in known, Cared(t) PROVE Cared(t)'
    BY <1>2, <2>1 DEF EnterWait, StartsOp, Sends, Procs, modelVars, procVars, historyVars, Cared, Wanted, TypeOK, ModelTypeOK, ProcTypeOK
  <2> QED
    BY <1>2, <2>1, CareKept DEF EnterWait, modelVars
<1>3. ASSUME NEW p \in Procs, EnterAttach(p) PROVE NoTabMissed'
  <2>1. /\ pc[p] = "enter" /\ tab[p] \in Tabs /\ pc' = [pc EXCEPT ![p] = "attach"]
        /\ attaching' = [attaching EXCEPT ![tab[p]] = p] /\ p # NoOne
        /\ UNCHANGED <<known, autoAttach, sessions, tab, todo, gaveUp>>
    BY <1>3, BrowserAssumption DEF EnterAttach, Sends, Procs, TypeOK, ProcTypeOK
  <2>2. ASSUME NEW t \in known, Cared(t) PROVE Cared(t)'
    <3>1. CASE t = tab[p]
      BY <2>1, <3>1 DEF Cared, Wanted, TypeOK, ModelTypeOK, ProcTypeOK
    <3>2. CASE t # tab[p]
      BY <2>1, <2>2, <3>2 DEF Cared, Wanted, TypeOK, ModelTypeOK, ProcTypeOK
    <3> QED
      BY <3>1, <3>2
  <2> QED
    BY <2>1, <2>2, CareKept
<1>4. ASSUME NEW p \in Procs, WaitReturns(p) PROVE NoTabMissed'
  <2>1. PICK rest \in SUBSET Tabs :
            /\ Proceeds(p, rest)
            /\ \A t \in todo[p] : t \in rest \/ t \in gaveUp'
            /\ gaveUp \subseteq gaveUp'
    BY <1>4 DEF WaitReturns, Aborts, TypeOK, ProcTypeOK
  <2>2. ASSUME NEW t \in known, Cared(t) PROVE Cared(t)'
    <3>1. t \in Tabs /\ (Wanted(t) => Wanted(t)' \/ (t \in todo[p] /\ t \notin rest) \/ (pc[p] = "enter" /\ tab[p] = t))
      BY <1>4, <2>1, ProceedsWanted DEF TypeOK, ModelTypeOK
    <3> QED
      BY <1>4, <2>1, <2>2, <3>1 DEF WaitReturns, modelVars, Cared
  <2> QED
    BY <1>4, <2>2, CareKept DEF WaitReturns, modelVars
<1>5. ASSUME NEW p \in Procs, AttachReplied(p) PROVE NoTabMissed'
  <2>1. ASSUME NEW t \in known, Cared(t) PROVE Cared(t)'
    BY <1>5, <2>1 DEF AttachReplied, StartsOp, Sends, Procs, modelVars, procVars, historyVars, Cared, Wanted, TypeOK, ModelTypeOK, ProcTypeOK
  <2> QED
    BY <1>5, <2>1, CareKept DEF AttachReplied, modelVars
<1>6. ASSUME NEW p \in Procs, InfoReplied(p) PROVE NoTabMissed'
  <2>1. ASSUME NEW t \in known, Cared(t) PROVE Cared(t)'
    BY <1>6, <2>1 DEF InfoReplied, StartsOp, Sends, Procs, modelVars, procVars, historyVars, Cared, Wanted, TypeOK, ModelTypeOK, ProcTypeOK
  <2> QED
    BY <1>6, <2>1, CareKept DEF InfoReplied, modelVars
<1>7. ASSUME NEW p \in Procs, DetachReplied(p) PROVE NoTabMissed'
  <2>1. ASSUME NEW t \in known, Cared(t) PROVE Cared(t)'
    BY <1>7, <2>1 DEF DetachReplied, StartsOp, Sends, Procs, modelVars, procVars, historyVars, Cared, Wanted, TypeOK, ModelTypeOK, ProcTypeOK
  <2> QED
    BY <1>7, <2>1, CareKept DEF DetachReplied, modelVars
<1>8. ASSUME NEW p \in Procs, Allocate(p) PROVE NoTabMissed'
  <2>1. ASSUME NEW t \in known, Cared(t) PROVE Cared(t)'
    BY <1>8, <2>1 DEF Allocate, StartsOp, Sends, Procs, modelVars, procVars, historyVars, Cared, Wanted, TypeOK, ModelTypeOK, ProcTypeOK
  <2> QED
    BY <1>8, <2>1, CareKept DEF Allocate, modelVars
<1>9. ASSUME NEW p \in Procs, Commit(p) PROVE NoTabMissed'
  <2>1. /\ pc[p] = "commit" /\ tab[p] \in Tabs /\ pc' = [pc EXCEPT ![p] = "emit"]
        /\ sessions' = [sessions EXCEPT ![tab[p]] = sid[p]]
        /\ attaching' = [attaching EXCEPT ![tab[p]] = NoOne] /\ gaveUp' = gaveUp \ {tab[p]}
        /\ UNCHANGED <<known, autoAttach, tab, todo>>
    BY <1>9 DEF Commit, Attacking, TypeOK, ProcTypeOK
  <2>2. sid[p] # 0
    BY <2>1 DEF SidInv, Holders
  <2>3. ASSUME NEW t \in known, Cared(t) PROVE Cared(t)'
    <3>1. CASE t = tab[p]
      BY <2>1, <2>2, <3>1 DEF Cared, Wanted, TypeOK, ModelTypeOK, ProcTypeOK
    <3>2. CASE t # tab[p]
      BY <2>1, <2>3, <3>2 DEF Cared, Wanted, TypeOK, ModelTypeOK, ProcTypeOK
    <3> QED
      BY <3>1, <3>2
  <2> QED
    BY <2>1, <2>3, CareKept
<1>10. ASSUME NEW p \in Procs, Fail(p) PROVE NoTabMissed'
  <2>1. p \in Procs /\ {} \subseteq Tabs /\ Proceeds(p, {}) /\ tab[p] \in Tabs
    BY <1>10 DEF Fail, Aborts, TypeOK, ProcTypeOK, Attacking
  <2>2. ASSUME NEW t \in known, Cared(t) PROVE Cared(t)'
    <3>1. t \in Tabs /\ (Wanted(t) => Wanted(t)' \/ t \in todo[p] \/ (pc[p] = "enter" /\ tab[p] = t))
      BY <2>1, ProceedsWanted DEF TypeOK, ModelTypeOK
    <3>2. attaching' = [attaching EXCEPT ![tab[p]] = NoOne] /\ attaching \in [Tabs -> Procs \cup {NoOne}]
      BY <1>10 DEF Fail, TypeOK, ModelTypeOK
    <3> QED
      BY <1>10, <2>2, <3>1, <3>2 DEF Fail, Cared
  <2> QED
    BY <1>10, <2>2, CareKept DEF Fail
<1>11. ASSUME NEW p \in Procs, EmitAttached(p) PROVE NoTabMissed'
  <2>1. p \in Procs /\ todo[p] \subseteq Tabs /\ Proceeds(p, todo[p])
    BY <1>11 DEF EmitAttached, StartsOp, Aborts, Procs, TypeOK, ProcTypeOK, ModelTypeOK
  <2>2. ASSUME NEW t \in known, Cared(t) PROVE Cared(t)'
    <3>1. t \in Tabs /\ (Wanted(t) => Wanted(t)' \/ (t \in todo[p] /\ t \notin todo[p]) \/ (pc[p] = "enter" /\ tab[p] = t))
      BY <2>1, ProceedsWanted DEF TypeOK, ModelTypeOK
    <3> QED
      BY <1>11, <2>2, <3>1 DEF EmitAttached, modelVars, historyVars, Cared
  <2> QED
    BY <1>11, <2>2, CareKept DEF EmitAttached, modelVars
<1>12. ASSUME NEW p \in Procs, CreateReplied(p) PROVE NoTabMissed'
  <2>1. /\ UNCHANGED <<sessions, attaching, autoAttach, todo, gaveUp>> /\ pc[p] = "create"
        /\ \A q \in Procs :
               \/ pc'[q] = pc[q] /\ tab'[q] = tab[q]
               \/ pc[q] \in {"idle", "create"} /\ pc'[q] \in {"enter", "idle"}
        /\ \A t \in known' \ known : Wanted(t)'
    BY <1>12, CreateMoves DEF CreateReplied, historyVars, Wanted
  <2>2. ASSUME autoAttach, NEW t \in known' PROVE Cared(t)'
    BY <2>1, <2>2 DEF NoTabMissed, Cared, Wanted
  <2> QED
    BY <2>1, <2>2 DEF NoTabMissed, Cared, Wanted
<1>13. ASSUME NEW p \in Procs, RemoveReplied(p) PROVE NoTabMissed'
  <2>1. ASSUME NEW t \in known, Cared(t) PROVE Cared(t)'
    BY <1>13, <2>1 DEF RemoveReplied, StartsOp, Sends, Procs, modelVars, procVars, historyVars, Cared, Wanted, TypeOK, ModelTypeOK, ProcTypeOK
  <2> QED
    BY <1>13, <2>1, CareKept DEF RemoveReplied, modelVars
<1>14. ASSUME NEW p \in Procs, Expires(p) PROVE NoTabMissed'
  <2>1. ASSUME NEW t \in known, Cared(t) PROVE Cared(t)'
    BY <1>14, <2>1 DEF Expires, StartsOp, Sends, Procs, modelVars, procVars, historyVars, Cared, Wanted, TypeOK, ModelTypeOK, ProcTypeOK
  <2> QED
    BY <1>14, <2>1, CareKept DEF Expires, modelVars
<1>15. ASSUME NEW p \in Clients, WaitCancelled(p) PROVE NoTabMissed'
  <2>1. p \in Procs /\ {} \subseteq Tabs /\ Proceeds(p, {})
    BY <1>15 DEF WaitCancelled, StartsOp, Aborts, Procs, TypeOK, ProcTypeOK, ModelTypeOK
  <2>2. ASSUME NEW t \in known, Cared(t) PROVE Cared(t)'
    <3>1. t \in Tabs /\ (Wanted(t) => Wanted(t)' \/ (t \in todo[p] /\ t \notin {}) \/ (pc[p] = "enter" /\ tab[p] = t))
      BY <2>1, ProceedsWanted DEF TypeOK, ModelTypeOK
    <3> QED
      BY <1>15, <2>2, <3>1 DEF WaitCancelled, modelVars, Cared
  <2> QED
    BY <1>15, <2>2, CareKept DEF WaitCancelled, modelVars
<1>16. ASSUME NEW p \in Clients, EnableAutoAttach(p) PROVE NoTabMissed'
  <2>1. p \in Procs /\ known \subseteq Tabs /\ Proceeds(p, known) /\ known' = known
    BY <1>16 DEF EnableAutoAttach, StartsOp, Procs, TypeOK, ModelTypeOK
  <2>2. /\ pc'[p] = "enter" => known \subseteq todo'[p] \cup {tab'[p]}
        /\ pc'[p] = "idle" => known = {}
        /\ pc'[p] \in {"enter", "idle"}
    BY <2>1, ProceedsTyped DEF TypeOK
  <2> QED
    BY <2>1, <2>2 DEF NoTabMissed
<1>17. ASSUME NEW p \in Clients, CreateTarget(p) PROVE NoTabMissed'
  <2>1. ASSUME NEW t \in known, Cared(t) PROVE Cared(t)'
    BY <1>17, <2>1 DEF CreateTarget, StartsOp, Sends, Procs, modelVars, procVars, historyVars, Cared, Wanted, TypeOK, ModelTypeOK, ProcTypeOK
  <2> QED
    BY <1>17, <2>1, CareKept DEF CreateTarget, modelVars
<1>18. ASSUME NEW p \in Clients, CloseTarget(p) PROVE NoTabMissed'
  <2>1. ASSUME NEW t \in known, Cared(t) PROVE Cared(t)'
    BY <1>18, <2>1 DEF CloseTarget, StartsOp, Sends, Procs, modelVars, procVars, historyVars, Cared, Wanted, TypeOK, ModelTypeOK, ProcTypeOK
  <2> QED
    BY <1>18, <2>1, CareKept DEF CloseTarget, modelVars
<1>19. CASE ReadReply
  <2>1. ASSUME NEW t \in known, Cared(t) PROVE Cared(t)'
    BY <1>19, <2>1 DEF ReadReply, StartsOp, Sends, Procs, modelVars, procVars, historyVars, Cared, Wanted, TypeOK, ModelTypeOK, ProcTypeOK
  <2> QED
    BY <1>19, <2>1, CareKept DEF ReadReply, modelVars
<1>20. CASE OnTabCreated
  <2> DEFINE new == Head(inbox).tab
  <2>1. /\ new \in Tabs /\ Knows(new, pc, tab)
        /\ UNCHANGED <<sessions, attaching, autoAttach, todo, gaveUp>>
    BY <1>20, HeadTyped DEF OnTabCreated, historyVars, TypeOK
  <2> HIDE DEF new
  <2>2. pc \in [Procs -> PCs] /\ tab \in [Procs -> Tabs \cup {NoOne}] /\ known \subseteq Tabs
    BY DEF TypeOK, ModelTypeOK, ProcTypeOK, PCs
  <2>3. /\ known' = known \cup {new}
        /\ \A q \in Procs :
               \/ pc'[q] = pc[q] /\ tab'[q] = tab[q]
               \/ pc[q] = "idle" /\ pc'[q] = "enter" /\ tab'[q] = new
        /\ autoAttach => \E q \in Procs : pc'[q] = "enter" /\ tab'[q] = new
    BY <2>1, <2>2, KnowsTyped
  <2>4. ASSUME autoAttach, NEW t \in known' PROVE Cared(t)'
    <3>1. CASE t = new
      BY <2>3, <2>4, <3>1 DEF Cared, Wanted
    <3>2. CASE t \in known
      BY <2>1, <2>3, <2>4, <3>2 DEF NoTabMissed, Cared, Wanted
    <3> QED
      BY <2>3, <3>1, <3>2
  <2> QED
    BY <2>1, <2>4 DEF NoTabMissed, Cared, Wanted
<1>21. CASE OnTabRemoved
  <2>1. /\ Head(inbox).tab \in Tabs /\ UNCHANGED <<attaching, autoAttach, pc, tab, todo>>
        /\ sessions' = [sessions EXCEPT ![Head(inbox).tab] = 0]
        /\ gaveUp' = gaveUp \ {Head(inbox).tab} /\ known' = known \ {Head(inbox).tab}
    BY <1>21, HeadTyped DEF OnTabRemoved, DetachTab, TypeOK, procVars
  <2>2. ASSUME NEW t \in known', Cared(t) PROVE Cared(t)'
    BY <2>1, <2>2 DEF Cared, Wanted, TypeOK, ModelTypeOK, ProcTypeOK
  <2> QED
    BY <2>1, <2>2, CareKept
<1>22. CASE OnDebuggerDetach
  <2>1. /\ Head(inbox).tab \in Tabs /\ UNCHANGED <<attaching, autoAttach, known, pc, tab, todo>>
        /\ sessions' = [sessions EXCEPT ![Head(inbox).tab] = 0]
        /\ gaveUp' = gaveUp \cup {Head(inbox).tab}
    BY <1>22, HeadTyped DEF OnDebuggerDetach, DetachTab, TypeOK, procVars
  <2>2. ASSUME NEW t \in known', Cared(t) PROVE Cared(t)'
    BY <2>1, <2>2 DEF Cared, Wanted, TypeOK, ModelTypeOK, ProcTypeOK
  <2> QED
    BY <2>1, <2>2, CareKept
<1>23. CASE EmitDetached
  <2>1. ASSUME NEW t \in known, Cared(t) PROVE Cared(t)'
    BY <1>23, <2>1 DEF EmitDetached, StartsOp, Sends, Procs, modelVars, procVars, historyVars, Cared, Wanted, TypeOK, ModelTypeOK, ProcTypeOK
  <2> QED
    BY <1>23, <2>1, CareKept DEF EmitDetached, modelVars
<1>24. ASSUME NEW c \in cmds, Execute(c) PROVE NoTabMissed'
  <2>1. ASSUME NEW t \in known, Cared(t) PROVE Cared(t)'
    BY <1>24, <2>1 DEF Execute, StartsOp, Sends, Procs, modelVars, procVars, historyVars, Cared, Wanted, TypeOK, ModelTypeOK, ProcTypeOK
  <2> QED
    BY <1>24, <2>1, CareKept DEF Execute, modelVars
<1>25. ASSUME NEW u \in Tabs, UserOpens(u) PROVE NoTabMissed'
  <2>1. ASSUME NEW t \in known, Cared(t) PROVE Cared(t)'
    BY <1>25, <2>1 DEF UserOpens, StartsOp, Sends, Procs, modelVars, procVars, historyVars, Cared, Wanted, TypeOK, ModelTypeOK, ProcTypeOK
  <2> QED
    BY <1>25, <2>1, CareKept DEF UserOpens, modelVars
<1>26. ASSUME NEW u \in Tabs, UserCloses(u) PROVE NoTabMissed'
  <2>1. ASSUME NEW t \in known, Cared(t) PROVE Cared(t)'
    BY <1>26, <2>1 DEF UserCloses, StartsOp, Sends, Procs, modelVars, procVars, historyVars, Cared, Wanted, TypeOK, ModelTypeOK, ProcTypeOK
  <2> QED
    BY <1>26, <2>1, CareKept DEF UserCloses, modelVars
<1>27. ASSUME NEW u \in Tabs, UserDetaches(u) PROVE NoTabMissed'
  <2>1. ASSUME NEW t \in known, Cared(t) PROVE Cared(t)'
    BY <1>27, <2>1 DEF UserDetaches, StartsOp, Sends, Procs, modelVars, procVars, historyVars, Cared, Wanted, TypeOK, ModelTypeOK, ProcTypeOK
  <2> QED
    BY <1>27, <2>1, CareKept DEF UserDetaches, modelVars
<1>28. CASE UNCHANGED vars
  BY <1>28 DEF vars, modelVars, procVars, viewVars, browserVars, boundVars, historyVars, NoTabMissed
<1> QED
  BY <1>1, <1>2, <1>3, <1>4, <1>5, <1>6, <1>7, <1>8, <1>9, <1>10, <1>11, <1>12, <1>13, <1>14, <1>15, <1>16, <1>17, <1>18, <1>19, <1>20, <1>21, <1>22, <1>23, <1>24, <1>25, <1>26, <1>27, <1>28
  DEF Next, ProcStep, AttachTab, Reader, User, Procs

(***************************************************************************)
(* The debugger.  A goroutine has at most one call under way: a command to *)
(* execute, a reply on its way to the reader, or what the wait returned.   *)
(***************************************************************************)
Asking   == {c.by : c \in cmds}
Answered == {inbox[i].to : i \in DOMAIN inbox}

CallInv ==
    /\ \A c \in cmds : c.by # NoOne =>
           /\ pc[c.by] = c.what /\ reply[c.by] = NoResult /\ c.by \notin Answered
           /\ c.what \in Attacking => c.tab = tab[c.by]
    /\ \A c, d \in cmds : c.by = d.by /\ c.by # NoOne => c = d
    /\ \A c \in cmds : c.by = NoOne /\ c.what \in {"attach", "detach"} => c.tab \in unsure
    /\ \A i \in DOMAIN inbox : inbox[i].to # NoOne =>
           /\ pc[inbox[i].to] \in Sending /\ reply[inbox[i].to] = NoResult
           /\ \A j \in DOMAIN inbox : inbox[j].to = inbox[i].to => i = j
    /\ \A p \in Procs : reply[p] # NoResult => pc[p] \in Sending \cup {"wait"}

\* The tabs of which the reader has still to read a loss; those whose session
\* is or will be accounted for; those whose debugger is gone; and those that
\* no loss still to be read belongs to, unless their debugger is gone.
IsLoss(m)  == m.kind \in {"removed", "detach"}
LostTabs   == {t \in Tabs : Lost(t)}
SoundTabs  == debugged \cup missed \cup unsure \cup LostTabs
GoneTabs   == (Tabs \ debugged) \cup unsure
CleanTabs  == GoneTabs \cup (Tabs \ LostTabs)

\* What each goroutine that attaches a tab has found out about it.
CallerInv ==
    \A p \in Procs :
        /\ pc[p] \in {"info", "allocate", "commit"} => tab[p] \in SoundTabs \cap CleanTabs
        /\ pc[p] = "fail" => tab[p] \in GoneTabs
        /\ pc[p] = "attach" =>
               /\ p \in Asking \/ reply[p].outcome = "error" => tab[p] \in GoneTabs
               /\ reply[p].outcome = "ok" => tab[p] \in SoundTabs \cap CleanTabs
        /\ pc[p] = "detach" /\ reply[p] # NoResult => tab[p] \in GoneTabs

\* What each reply on its way will tell; the losses of a tab that was attached
\* before it was lost are read before the attach returns.
AnswerInv ==
    \A i \in DOMAIN inbox : LET p == inbox[i].to IN p # NoOne =>
        /\ pc[p] = "attach" /\ inbox[i].outcome = "error" => tab[p] \in GoneTabs
        /\ pc[p] = "attach" /\ inbox[i].outcome = "ok" =>
               /\ tab[p] \in SoundTabs
               /\ \/ tab[p] \in GoneTabs
                  \/ \A j \in DOMAIN inbox : IsLoss(inbox[j]) /\ inbox[j].tab = tab[p] => j < i
        /\ pc[p] = "detach" => tab[p] \in GoneTabs

SessionInv ==
    \A t \in Tabs :
        /\ sessions[t] # 0 => t \in SoundTabs \cap CleanTabs
        /\ sessions[t] = 0 /\ attaching[t] = NoOne => t \in GoneTabs

DebugInv == CallInv /\ CallerInv /\ AnswerInv /\ SessionInv

LEMMA DebugInit == Init => DebugInv
<1> SUFFICES ASSUME Init PROVE DebugInv
  OBVIOUS
<1>1. cmds = {} /\ DOMAIN inbox = {} /\ debugged = {}
  BY DEF Init
<1>2. \A p \in Procs : pc[p] = "idle" /\ reply[p] = NoResult
  BY DEF Init
<1>3. \A t \in Tabs : sessions[t] = 0
  BY DEF Init
<1> QED
  BY <1>1, <1>2, <1>3 DEF DebugInv, CallInv, CallerInv, AnswerInv, SessionInv, GoneTabs

LEMMA Unasked ==
    ASSUME CallInv, NEW p \in Procs, pc[p] \notin Sending \/ reply[p] # NoResult,
           cmds \subseteq Commands
    PROVE  p \notin Asking /\ p \notin Answered
<1>1. p # NoOne
  BY BrowserAssumption DEF Procs
<1>2. ASSUME p \in Asking PROVE FALSE
  BY <1>1, <1>2 DEF CallInv, Asking, Commands, Sending
<1>3. ASSUME p \in Answered PROVE FALSE
  BY <1>1, <1>3 DEF CallInv, Answered
<1> QED
  BY <1>2, <1>3

LEMMA MessageTo ==
    ASSUME BrowserTypeOK, NEW i \in DOMAIN inbox
    PROVE  /\ inbox[i] \in Messages /\ inbox[i].to \in Procs \cup {NoOne}
           /\ inbox[i].outcome \in {"ok", "error", "none"}
           /\ inbox[i].to # NoOne => inbox[i].kind = "reply" /\ inbox[i].outcome \in {"ok", "error"}
           /\ i \in Nat
<1>1. inbox[i] \in Messages /\ i \in Nat
  BY DEF BrowserTypeOK
<1> QED
  BY <1>1 DEF Messages

\* Steps of goroutines that have no call under way; a session is installed or
\* an attach ends only for a tab that is fit for it.
LEMMA QuietCalls ==
    ASSUME TypeOK, DebugInv,
           UNCHANGED <<debugged, missed, unsure, cmds, inbox>>,
           \A t \in Tabs :
               \/ sessions'[t] = sessions[t] /\ attaching'[t] = attaching[t]
               \/ sessions'[t] # 0 /\ t \in SoundTabs \cap CleanTabs
               \/ sessions'[t] = 0 /\ t \in GoneTabs,
           \A q \in Procs :
               \/ pc'[q] = pc[q] /\ tab'[q] = tab[q] /\ reply'[q] = reply[q]
               \/ /\ pc[q] \notin Sending \/ reply[q] # NoResult
                  /\ pc'[q] \in {"idle", "enter", "wait", "emit"}
                  /\ pc'[q] = "wait" \/ reply'[q] = NoResult
    PROVE  DebugInv'
<1>1. \A q \in Procs : q \in Asking \cup Answered =>
          pc'[q] = pc[q] /\ tab'[q] = tab[q] /\ reply'[q] = reply[q]
  BY Unasked DEF TypeOK, BrowserTypeOK, DebugInv
<1>2. \A c \in cmds : c.by \in Procs \cup {NoOne}
  BY DEF TypeOK, BrowserTypeOK, Commands
<1>3. \A i \in DOMAIN inbox : inbox[i].to \in Procs \cup {NoOne}
  BY MessageTo DEF TypeOK
<1>4. UNCHANGED <<Asking, Answered, LostTabs, GoneTabs, SoundTabs, CleanTabs>>
  BY DEF Asking, Answered, LostTabs, GoneTabs, SoundTabs, CleanTabs, Lost, Pending
<1>5. CallInv'
  <2>1. ASSUME NEW c \in cmds, c.by # NoOne
        PROVE  /\ pc'[c.by] = c.what /\ reply'[c.by] = NoResult /\ c.by \notin Answered'
               /\ c.what \in Attacking => c.tab = tab'[c.by]
    <3>1. c.by \in Asking /\ c.by \in Procs
      BY <1>2, <2>1 DEF Asking
    <3> QED
      BY <1>1, <1>4, <2>1, <3>1 DEF DebugInv, CallInv
  <2>2. ASSUME NEW i \in DOMAIN inbox, inbox[i].to # NoOne
        PROVE  /\ pc'[inbox[i].to] \in Sending /\ reply'[inbox[i].to] = NoResult
               /\ \A j \in DOMAIN inbox : inbox[j].to = inbox[i].to => i = j
    <3>1. inbox[i].to \in Answered /\ inbox[i].to \in Procs
      BY <1>3, <2>2 DEF Answered
    <3> QED
      BY <1>1, <2>2, <3>1 DEF DebugInv, CallInv
  <2>3. ASSUME NEW p \in Procs, reply'[p] # NoResult PROVE pc'[p] \in Sending \cup {"wait"}
    BY <2>3 DEF DebugInv, CallInv
  <2> QED
    BY <2>1, <2>2, <2>3 DEF DebugInv, CallInv
<1>6. CallerInv'
  BY <1>4 DEF DebugInv, CallerInv, NoResult, Result
<1>7. AnswerInv'
  <2> SUFFICES ASSUME NEW i \in DOMAIN inbox, NEW p, p = inbox[i].to, p # NoOne
               PROVE  /\ pc'[p] = "attach" /\ inbox[i].outcome = "error" => tab'[p] \in GoneTabs
                      /\ pc'[p] = "attach" /\ inbox[i].outcome = "ok" =>
                             /\ tab'[p] \in SoundTabs
                             /\ \/ tab'[p] \in GoneTabs
                                \/ \A j \in DOMAIN inbox :
                                       IsLoss(inbox[j]) /\ inbox[j].tab = tab'[p] => j < i
                      /\ pc'[p] = "detach" => tab'[p] \in GoneTabs
    BY <1>4 DEF AnswerInv
  <2>1. p \in Answered /\ p \in Procs
    BY <1>3 DEF Answered
  <2>2. pc'[p] = pc[p] /\ tab'[p] = tab[p]
    BY <1>1, <2>1
  <2> QED
    BY <2>2 DEF DebugInv, AnswerInv
<1>8. SessionInv'
  BY <1>4 DEF DebugInv, SessionInv
<1> QED
  BY <1>5, <1>6, <1>7, <1>8 DEF DebugInv

\* A goroutine that attaches a tab is the only one, and the tab has no session.
LEMMA OneAttacker ==
    ASSUME TypeOK, AttachInv, NEW p \in Procs, pc[p] \in Attacking
    PROVE  /\ tab[p] \in Tabs /\ attaching[tab[p]] # NoOne /\ sessions[tab[p]] = 0
           /\ \A q \in Procs : pc[q] \in Attacking /\ tab[q] = tab[p] => q = p
<1>1. p # NoOne /\ tab[p] \in Tabs
  BY BrowserAssumption DEF Procs, TypeOK, ProcTypeOK
<1> QED
  BY <1>1 DEF AttachInv

\* What the browser and its user do: they answer at most one call, append to
\* the inbox, attach a debugger only for an attach, and let a debugger go only
\* for a detach, unless they report the loss.
LEMMA BrowserMoves ==
    ASSUME TypeOK, AttachInv, DebugInv,
           UNCHANGED <<sessions, attaching, pc, tab, reply, missed, unsure>>,
           NEW by \in Procs \cup {NoOne}, NEW outcome,
           cmds' \subseteq cmds, by = NoOne \/ by \in Asking \ Asking',
           \A i \in DOMAIN inbox : i \in DOMAIN inbox' /\ inbox'[i] = inbox[i],
           \A i \in DOMAIN inbox' \ DOMAIN inbox :
               /\ inbox'[i].to \in {NoOne, by} /\ \A j \in DOMAIN inbox : j < i
               /\ inbox'[i].to # NoOne => inbox'[i].outcome = outcome
               /\ IsLoss(inbox'[i]) => inbox'[i].tab \notin debugged',
           \A i, j \in DOMAIN inbox' \ DOMAIN inbox :
               by # NoOne /\ inbox'[i].to = by /\ inbox'[j].to = by => i = j,
           debugged' \subseteq Tabs,
           \A t \in debugged' \ debugged :
               t \in unsure \/ (by # NoOne /\ pc[by] = "attach" /\ tab[by] = t /\ outcome = "ok"),
           \A t \in debugged \ debugged' :
               t \in unsure \cup LostTabs' \/ (by # NoOne /\ pc[by] = "detach" /\ tab[by] = t),
           by # NoOne /\ pc[by] = "attach" /\ outcome = "ok" => tab[by] \in debugged',
           by # NoOne /\ pc[by] = "detach" => tab[by] \in GoneTabs'
    PROVE  DebugInv'
<1> DEFINE Attaches(t) == by # NoOne /\ pc[by] = "attach" /\ tab[by] = t /\ outcome = "ok"
           Detaches(t) == by # NoOne /\ pc[by] = "detach" /\ tab[by] = t
<1> USE DEF DebugInv
<1>1. /\ LostTabs \subseteq LostTabs' /\ LostTabs' \subseteq LostTabs \cup (Tabs \ debugged')
      /\ LostTabs' \subseteq Tabs
  BY DEF LostTabs, Lost, Pending, IsLoss
<1>2. ASSUME NEW t \in GoneTabs, ~Attaches(t) PROVE t \in GoneTabs'
  BY <1>2 DEF GoneTabs, TypeOK
<1>3. ASSUME NEW t \in CleanTabs, ~Attaches(t) PROVE t \in CleanTabs'
  BY <1>1, <1>2, <1>3 DEF CleanTabs, GoneTabs, TypeOK
<1>4. ASSUME NEW t \in SoundTabs, ~Detaches(t) PROVE t \in SoundTabs'
  BY <1>1, <1>4 DEF SoundTabs
<1>5. /\ Asking' \subseteq Asking /\ Answered \subseteq Answered'
      /\ Answered' \subseteq Answered \cup {by, NoOne}
  BY DEF Asking, Answered
<1>6. by # NoOne => by \in Procs /\ pc[by] \in Sending /\ reply[by] = NoResult /\ by \notin Answered
  BY DEF Asking, CallInv, TypeOK, BrowserTypeOK, Commands, Sending
<1>7. ASSUME NEW p \in Procs, pc[p] \in Attacking, Attaches(tab[p]) \/ Detaches(tab[p])
      PROVE  p = by
  BY <1>6, <1>7, OneAttacker DEF Attacking
<1>8. CallInv'
  <2>1. ASSUME NEW c \in cmds', c.by # NoOne PROVE c.by \notin Answered'
    BY <1>5, <2>1 DEF CallInv, Asking
  <2>2. ASSUME NEW i \in DOMAIN inbox', inbox'[i].to # NoOne
        PROVE  /\ pc[inbox'[i].to] \in Sending /\ reply[inbox'[i].to] = NoResult
               /\ \A j \in DOMAIN inbox' : inbox'[j].to = inbox'[i].to => i = j
    <3>1. CASE i \in DOMAIN inbox
      <4>1. inbox'[i] = inbox[i] /\ inbox[i].to # by
        BY <1>6, <2>2, <3>1 DEF Answered
      <4> QED
        BY <2>2, <3>1, <4>1 DEF CallInv
    <3>2. CASE i \notin DOMAIN inbox
      <4>1. inbox'[i].to = by /\ \A j \in DOMAIN inbox : inbox'[j].to # by
        BY <1>6, <2>2, <3>2 DEF Answered
      <4> QED
        BY <1>6, <2>2, <3>2, <4>1
    <3> QED
      BY <3>1, <3>2
  <2> QED
    BY <2>1, <2>2 DEF CallInv
<1>9. CallerInv'
  <2> SUFFICES ASSUME NEW p \in Procs
               PROVE  /\ pc[p] \in {"info", "allocate", "commit"} => tab[p] \in SoundTabs' \cap CleanTabs'
                      /\ pc[p] = "fail" => tab[p] \in GoneTabs'
                      /\ pc[p] = "attach" =>
                             /\ p \in Asking' \/ reply[p].outcome = "error" => tab[p] \in GoneTabs'
                             /\ reply[p].outcome = "ok" => tab[p] \in SoundTabs' \cap CleanTabs'
                      /\ pc[p] = "detach" /\ reply[p] # NoResult => tab[p] \in GoneTabs'
    BY DEF CallerInv
  <2>1. CASE p = by
    <3>1. pc[p] \in Sending /\ reply[p] = NoResult /\ p \notin Asking'
      BY <1>6, <2>1, BrowserAssumption DEF Procs
    <3>2. pc[p] = "info" => tab[p] \in SoundTabs' \cap CleanTabs'
      BY <1>3, <1>4, <2>1 DEF CallerInv
    <3> QED
      BY <3>1, <3>2 DEF Sending, NoResult, Result
  <2>2. CASE p # by
    <3>1. pc[p] \in Attacking => ~Attaches(tab[p]) /\ ~Detaches(tab[p])
      BY <1>7, <2>2
    <3> QED
      BY <1>2, <1>3, <1>4, <1>5, <3>1 DEF CallerInv, Attacking
  <2> QED
    BY <2>1, <2>2
<1>10. AnswerInv'
  <2> SUFFICES ASSUME NEW i \in DOMAIN inbox', NEW p, p = inbox'[i].to, p # NoOne
               PROVE  /\ pc[p] = "attach" /\ inbox'[i].outcome = "error" => tab[p] \in GoneTabs'
                      /\ pc[p] = "attach" /\ inbox'[i].outcome = "ok" =>
                             /\ tab[p] \in SoundTabs'
                             /\ \/ tab[p] \in GoneTabs'
                                \/ \A j \in DOMAIN inbox' :
                                       IsLoss(inbox'[j]) /\ inbox'[j].tab = tab[p] => j < i
                      /\ pc[p] = "detach" => tab[p] \in GoneTabs'
    BY DEF AnswerInv
  <2>0. ASSUME NEW q \in Procs, pc[q] \in Attacking, tab[q] \notin GoneTabs', NEW j \in DOMAIN inbox',
               IsLoss(inbox'[j]), inbox'[j].tab = tab[q]
        PROVE  j \in DOMAIN inbox /\ inbox'[j] = inbox[j]
    BY <2>0, OneAttacker DEF GoneTabs
  <2>1. CASE i \in DOMAIN inbox
    <3>1. inbox'[i] = inbox[i] /\ p \in Procs /\ p # by
      BY <1>6, <2>1, MessageTo DEF TypeOK, Answered
    <3>2. pc[p] \in Attacking => ~Attaches(tab[p]) /\ ~Detaches(tab[p])
      BY <1>7, <3>1
    <3> QED
      BY <1>2, <1>4, <2>0, <2>1, <3>1, <3>2 DEF AnswerInv, Attacking
  <2>2. CASE i \notin DOMAIN inbox
    <3>1. p = by /\ p \in Procs /\ inbox'[i].outcome = outcome /\ \A j \in DOMAIN inbox : j < i
      BY <1>6, <2>2
    <3>2. pc[p] = "attach" => tab[p] \in GoneTabs
      BY <3>1 DEF CallerInv
    <3>3. pc[p] = "attach" /\ outcome # "ok" => tab[p] \in GoneTabs'
      BY <1>2, <3>1, <3>2
    <3> QED
      BY <2>0, <3>1, <3>3 DEF SoundTabs, Attacking
  <2> QED
    BY <2>1, <2>2
<1>11. SessionInv'
  <2> SUFFICES ASSUME NEW t \in Tabs
               PROVE  /\ sessions[t] # 0 => t \in SoundTabs' \cap CleanTabs'
                      /\ sessions[t] = 0 /\ attaching[t] = NoOne => t \in GoneTabs'
    BY DEF SessionInv
  <2>1. Attaches(t) \/ Detaches(t) => sessions[t] = 0 /\ attaching[t] # NoOne
    BY <1>6, OneAttacker DEF Attacking
  <2> QED
    BY <1>2, <1>3, <1>4, <2>1 DEF SessionInv
<1> QED
  BY <1>8, <1>9, <1>10, <1>11

\* Where the messages of a longer inbox come from.
LEMMA ConcatParts ==
    ASSUME NEW r \in Seq(Messages), NEW e \in Seq(Messages), NEW s, s = r \o e
    PROVE  /\ s \in Seq(Messages) /\ Len(s) = Len(r) + Len(e)
           /\ DOMAIN s = 1 .. Len(s) /\ DOMAIN r = 1 .. Len(r) /\ DOMAIN e = 1 .. Len(e)
           /\ \A i \in DOMAIN r : i \in DOMAIN s /\ s[i] = r[i]
           /\ \A i \in DOMAIN s \ DOMAIN r :
                  /\ i - Len(r) \in DOMAIN e /\ s[i] = e[i - Len(r)] /\ \A j \in DOMAIN r : j < i
           /\ \A k \in DOMAIN e : Len(r) + k \in DOMAIN s /\ s[Len(r) + k] = e[k]
<1>1. /\ s \in Seq(Messages) /\ Len(s) = Len(r) + Len(e) /\ Len(r) \in Nat /\ Len(e) \in Nat
      /\ \A i \in 1 .. Len(s) : s[i] = IF i <= Len(r) THEN r[i] ELSE e[i - Len(r)]
  BY ConcatProperties
<1>2. DOMAIN s = 1 .. Len(s) /\ DOMAIN r = 1 .. Len(r) /\ DOMAIN e = 1 .. Len(e)
  BY <1>1
<1> QED
  BY <1>1, <1>2

\* What answering a command appends: the events it causes, and one reply.
LEMMA AnswerParts ==
    ASSUME BrowserTypeOK, NEW c \in Commands, NEW outcome \in {"ok", "error"},
           NEW t \in Tabs \cup {NoOne}, outcome = "ok" => t \in Tabs,
           NEW before \in Seq(Messages), NEW after \in Seq(Messages),
           Answers(c, outcome, t, before, after)
    PROVE  /\ \A i \in DOMAIN inbox : i \in DOMAIN inbox' /\ inbox'[i] = inbox[i]
           /\ \A i \in DOMAIN inbox' \ DOMAIN inbox :
                  /\ \A j \in DOMAIN inbox : j < i
                  /\ \/ \E k \in DOMAIN before : inbox'[i] = before[k]
                     \/ \E k \in DOMAIN after : inbox'[i] = after[k]
                     \/ /\ c.by # NoOne /\ inbox'[i] = Reply(c.by, outcome, t)
                        /\ i = Len(inbox) + Len(before) + 1
           /\ \A k \in DOMAIN before : \E i \in DOMAIN inbox' : inbox'[i] = before[k]
<1> DEFINE answer == IF c.by = NoOne THEN <<>> ELSE <<Reply(c.by, outcome, t)>>
           s == inbox \o before
           u == s \o answer
<1>0. c.by # NoOne => Reply(c.by, outcome, t) \in Messages
  BY DEF Reply, Messages, Commands
<1>1. answer \in Seq(Messages)
  BY <1>0, AppendTyped
<1>2. \A k \in DOMAIN answer : k = 1 /\ c.by # NoOne /\ answer[k] = Reply(c.by, outcome, t)
  OBVIOUS
<1>3. inbox \in Seq(Messages) /\ inbox' = u \o after /\ u = s \o answer
  BY DEF Answers, BrowserTypeOK
<1> HIDE DEF answer
<1>4. /\ s \in Seq(Messages) /\ Len(s) = Len(inbox) + Len(before)
      /\ DOMAIN s = 1 .. Len(s) /\ DOMAIN inbox = 1 .. Len(inbox) /\ DOMAIN before = 1 .. Len(before)
      /\ \A i \in DOMAIN inbox : i \in DOMAIN s /\ s[i] = inbox[i]
      /\ \A i \in DOMAIN s \ DOMAIN inbox :
             /\ i - Len(inbox) \in DOMAIN before /\ s[i] = before[i - Len(inbox)]
             /\ \A j \in DOMAIN inbox : j < i
      /\ \A k \in DOMAIN before : Len(inbox) + k \in DOMAIN s /\ s[Len(inbox) + k] = before[k]
  BY <1>3, ConcatParts
<1> HIDE DEF s, u
<1>4a. s \in Seq(Messages) /\ u = s \o answer
  BY <1>3, <1>4
<1>5. /\ u \in Seq(Messages) /\ Len(u) = Len(s) + Len(answer)
      /\ DOMAIN u = 1 .. Len(u) /\ DOMAIN answer = 1 .. Len(answer)
      /\ \A i \in DOMAIN s : i \in DOMAIN u /\ u[i] = s[i]
      /\ \A i \in DOMAIN u \ DOMAIN s :
             i - Len(s) \in DOMAIN answer /\ u[i] = answer[i - Len(s)] /\ \A j \in DOMAIN s : j < i
  BY <1>1, <1>4a, ConcatParts
<1>6. /\ DOMAIN inbox' = 1 .. Len(inbox') /\ DOMAIN after = 1 .. Len(after)
      /\ \A i \in DOMAIN u : i \in DOMAIN inbox' /\ inbox'[i] = u[i]
      /\ \A i \in DOMAIN inbox' \ DOMAIN u :
             /\ i - Len(u) \in DOMAIN after /\ inbox'[i] = after[i - Len(u)]
             /\ \A j \in DOMAIN u : j < i
  BY <1>3, <1>5, ConcatParts
<1>7. Len(inbox) \in Nat /\ Len(before) \in Nat /\ Len(s) \in Nat
  BY <1>3, <1>4
<1>8. ASSUME NEW i \in DOMAIN inbox PROVE i \in DOMAIN inbox' /\ inbox'[i] = inbox[i]
  BY <1>4, <1>5, <1>6
<1>9. ASSUME NEW i \in DOMAIN inbox' \ DOMAIN inbox
      PROVE  /\ \A j \in DOMAIN inbox : j < i
             /\ \/ \E k \in DOMAIN before : inbox'[i] = before[k]
                \/ \E k \in DOMAIN after : inbox'[i] = after[k]
                \/ /\ c.by # NoOne /\ inbox'[i] = Reply(c.by, outcome, t)
                   /\ i = Len(inbox) + Len(before) + 1
  <2>1. CASE i \in DOMAIN s
    BY <1>4, <1>5, <1>6, <2>1
  <2>2. CASE i \in DOMAIN u \ DOMAIN s
    <3>1. /\ i - Len(s) = 1 /\ c.by # NoOne /\ inbox'[i] = Reply(c.by, outcome, t)
          /\ \A j \in DOMAIN s : j < i
      BY <1>2, <1>5, <1>6, <2>2
    <3> QED
      BY <1>4, <1>5, <1>7, <2>2, <3>1
  <2>3. CASE i \notin DOMAIN u
    BY <1>4, <1>5, <1>6, <2>3
  <2> QED
    BY <2>1, <2>2, <2>3
<1>10. ASSUME NEW k \in DOMAIN before PROVE \E i \in DOMAIN inbox' : inbox'[i] = before[k]
  BY <1>4, <1>5, <1>6
<1> QED
  BY <1>8, <1>9, <1>10

LEMMA ClosingParts ==
    ASSUME NEW t \in Tabs
    PROVE  /\ ClosingEvents(t) \in Seq(Messages)
           /\ \A k \in DOMAIN ClosingEvents(t) :
                  ClosingEvents(t)[k].to = NoOne /\ ClosingEvents(t)[k].tab = t
           /\ \E k \in DOMAIN ClosingEvents(t) : ClosingEvents(t)[k].kind = "removed"
<1>1. ClosingEvents(t) \in Seq(Messages)
  BY MessageTyped
<1>2. CASE t \in debugged
  <2>1. ClosingEvents(t) = <<Event("detach", t), Event("removed", t)>>
    BY <1>2 DEF ClosingEvents
  <2>2. DOMAIN ClosingEvents(t) = {1, 2}
    BY <2>1
  <2> QED
    BY <1>1, <2>1, <2>2 DEF Event
<1>3. CASE t \notin debugged
  <2>1. ClosingEvents(t) = <<Event("removed", t)>>
    BY <1>3 DEF ClosingEvents
  <2>2. DOMAIN ClosingEvents(t) = {1}
    BY <2>1
  <2> QED
    BY <1>1, <2>1, <2>2 DEF Event
<1> QED
  BY <1>2, <1>3

\* A loss that is still to be read.
LEMMA ReportsLoss ==
    ASSUME NEW t \in Tabs, NEW i \in DOMAIN inbox', IsLoss(inbox'[i]), inbox'[i].tab = t
    PROVE  t \in LostTabs'
  BY DEF LostTabs, Lost, Pending, IsLoss

LEMMA ExecuteDebug ==
    ASSUME TypeOK, TypeOK', AttachInv, DebugInv, NEW c \in cmds, Execute(c)
    PROVE  DebugInv'
<1> USE DEF DebugInv
<1>1. /\ c \in Commands /\ c.by \in Procs \cup {NoOne} /\ c.what \in Sending
      /\ c.tab \in Tabs \cup {NoOne} /\ (c.what # "create" => c.tab \in Tabs)
      /\ cmds' = cmds \ {c} /\ debugged' \subseteq Tabs /\ debugged \subseteq Tabs
      /\ BrowserTypeOK /\ <<>> \in Seq(Messages)
      /\ Performs(c) \/ (Refuses(c) /\ ~(c.what = "detach" /\ c.tab \in debugged))
      /\ UNCHANGED <<sessions, attaching, pc, tab, reply, missed, unsure>>
  BY DEF Execute, TypeOK, BrowserTypeOK, Commands, Sending, modelVars, procVars, historyVars
<1>2. /\ c.by # NoOne => /\ c.by \in Asking \ Asking' /\ pc[c.by] = c.what
                         /\ c.what \in Attacking => c.tab = tab[c.by]
      /\ c.by = NoOne /\ c.what \in {"attach", "detach"} => c.tab \in unsure
  BY <1>1 DEF CallInv, Asking
<1>3. ASSUME NEW outcome \in {"ok", "error"}, NEW t \in Tabs \cup {NoOne}, outcome = "ok" => t \in Tabs,
             NEW before \in Seq(Messages), NEW after \in Seq(Messages),
             Answers(c, outcome, t, before, after),
             \A k \in DOMAIN before :
                 before[k].to = NoOne /\ (IsLoss(before[k]) => before[k].tab \notin debugged'),
             \A k \in DOMAIN after :
                 after[k].to = NoOne /\ (IsLoss(after[k]) => after[k].tab \notin debugged'),
             c.what \in {"attach", "detach"} \/ debugged' \subseteq debugged,
             \A u \in debugged' \ debugged : c.what = "attach" /\ outcome = "ok" /\ u = c.tab,
             \A u \in debugged \ debugged' :
                 (c.what = "detach" /\ u = c.tab) \/ u \in LostTabs',
             c.what = "attach" /\ outcome = "ok" => c.tab \in debugged',
             c.what = "detach" => c.tab \notin debugged'
      PROVE  DebugInv'
  <2>1. /\ \A i \in DOMAIN inbox : i \in DOMAIN inbox' /\ inbox'[i] = inbox[i]
        /\ \A i \in DOMAIN inbox' \ DOMAIN inbox :
               /\ \A j \in DOMAIN inbox : j < i
               /\ \/ \E k \in DOMAIN before : inbox'[i] = before[k]
                  \/ \E k \in DOMAIN after : inbox'[i] = after[k]
                  \/ /\ c.by # NoOne /\ inbox'[i] = Reply(c.by, outcome, t)
                     /\ i = Len(inbox) + Len(before) + 1
    BY <1>1, <1>3, AnswerParts
  <2>2. \A i \in DOMAIN inbox' \ DOMAIN inbox :
            /\ inbox'[i].to \in {NoOne, c.by}
            /\ inbox'[i].to # NoOne => inbox'[i].outcome = outcome /\ i = Len(inbox) + Len(before) + 1
            /\ IsLoss(inbox'[i]) => inbox'[i].tab \notin debugged'
    BY <1>3, <2>1 DEF Reply, IsLoss
  <2>3. \A u \in debugged' \ debugged :
            u \in unsure \/ (c.by # NoOne /\ pc[c.by] = "attach" /\ tab[c.by] = u /\ outcome = "ok")
    BY <1>2, <1>3 DEF Attacking
  <2>4. \A u \in debugged \ debugged' :
            u \in unsure \cup LostTabs' \/ (c.by # NoOne /\ pc[c.by] = "detach" /\ tab[c.by] = u)
    BY <1>2, <1>3 DEF Attacking
  <2>5. c.by # NoOne /\ pc[c.by] = "attach" /\ outcome = "ok" => tab[c.by] \in debugged'
    BY <1>2, <1>3 DEF Attacking
  <2>6. c.by # NoOne /\ pc[c.by] = "detach" => tab[c.by] \in GoneTabs'
    BY <1>1, <1>2, <1>3 DEF Attacking, GoneTabs
  <2>7. cmds' \subseteq cmds /\ (c.by = NoOne \/ c.by \in Asking \ Asking')
    BY <1>1, <1>2
  <2>8. \A i \in DOMAIN inbox' \ DOMAIN inbox :
            /\ inbox'[i].to \in {NoOne, c.by} /\ \A j \in DOMAIN inbox : j < i
            /\ inbox'[i].to # NoOne => inbox'[i].outcome = outcome
            /\ IsLoss(inbox'[i]) => inbox'[i].tab \notin debugged'
    BY <2>1, <2>2
  <2>9. \A i, j \in DOMAIN inbox' \ DOMAIN inbox :
            c.by # NoOne /\ inbox'[i].to = c.by /\ inbox'[j].to = c.by => i = j
    BY <2>2
  <2>10. \A i \in DOMAIN inbox : i \in DOMAIN inbox' /\ inbox'[i] = inbox[i]
    BY <2>1
  <2>11. /\ UNCHANGED <<sessions, attaching, pc, tab, reply, missed, unsure>>
         /\ c.by \in Procs \cup {NoOne} /\ debugged' \subseteq Tabs
    BY <1>1
  <2> QED
    BY <2>3, <2>4, <2>5, <2>6, <2>7, <2>8, <2>9, <2>10, <2>11, BrowserMoves
<1>4. DOMAIN <<>> = {}
  OBVIOUS
<1>5. ASSUME Refuses(c), ~(c.what = "detach" /\ c.tab \in debugged) PROVE DebugInv'
  <2>1. Answers(c, "error", c.tab, <<>>, <<>>) /\ debugged' = debugged
    BY <1>5 DEF Refuses
  <2> QED
    BY <1>1, <1>3, <1>4, <1>5, <2>1
<1>6. ASSUME Performs(c) PROVE DebugInv'
  <2>1. CASE c.what = "attach"
    <3>1. /\ Answers(c, "ok", c.tab, <<>>, <<>>) /\ debugged' = debugged \cup {c.tab}
      BY <1>6, <2>1 DEF Performs
    <3> QED
      BY <1>1, <1>3, <1>4, <2>1, <3>1
  <2>2. CASE c.what = "info"
    <3>1. Answers(c, "ok", c.tab, <<>>, <<>>) /\ debugged' = debugged
      BY <1>6, <2>2 DEF Performs
    <3> QED
      BY <1>1, <1>3, <1>4, <2>2, <3>1
  <2>3. CASE c.what = "detach"
    <3>1. Answers(c, "ok", c.tab, <<>>, <<>>) /\ debugged' = debugged \ {c.tab}
      BY <1>6, <2>3 DEF Performs
    <3> QED
      BY <1>1, <1>3, <1>4, <2>3, <3>1
  <2>4. CASE c.what = "create"
    <3>1. PICK t \in unopened :
              /\ debugged' = debugged
              /\ \/ Answers(c, "ok", t, <<Event("created", t)>>, <<>>)
                 \/ Answers(c, "ok", t, <<>>, <<Event("created", t)>>)
      BY <1>6, <2>4 DEF Performs
    <3> DEFINE e == <<Event("created", t)>>
    <3>2. t \in Tabs
      BY DEF TypeOK, BrowserTypeOK
    <3>3. /\ e \in Seq(Messages)
          /\ \A k \in DOMAIN e : e[k].to = NoOne /\ (IsLoss(e[k]) => e[k].tab \notin debugged')
      <4>1. e \in Seq(Messages) /\ DOMAIN e = {1} /\ e[1] = Event("created", t)
        BY <3>2, MessageTyped
      <4> QED
        BY <4>1 DEF Event, IsLoss
    <3>4. Answers(c, "ok", t, e, <<>>) \/ Answers(c, "ok", t, <<>>, e)
      BY <3>1
    <3> HIDE DEF e
    <3> QED
      BY <1>1, <1>3, <1>4, <2>4, <3>1, <3>2, <3>3, <3>4
  <2>5. CASE c.what = "remove"
    <3> DEFINE e == ClosingEvents(c.tab)
    <3>1. Answers(c, "ok", c.tab, e, <<>>) /\ debugged' = debugged \ {c.tab} /\ c.tab \in Tabs
      BY <1>1, <1>6, <2>5 DEF Performs, Closes
    <3>2. /\ e \in Seq(Messages)
          /\ \A k \in DOMAIN e : e[k].to = NoOne /\ e[k].tab = c.tab
          /\ \E k \in DOMAIN e : e[k].kind = "removed"
      BY <3>1, ClosingParts
    <3> HIDE DEF e
    <3>3. \A k \in DOMAIN e : \E i \in DOMAIN inbox' : inbox'[i] = e[k]
      BY <1>1, <3>1, <3>2, AnswerParts
    <3>4. c.tab \in LostTabs'
      BY <3>1, <3>2, <3>3, ReportsLoss DEF IsLoss
    <3> QED
      BY <1>1, <1>3, <1>4, <2>5, <3>1, <3>2, <3>4
  <2> QED
    BY <1>1, <2>1, <2>2, <2>3, <2>4, <2>5 DEF Sending
<1> QED
  BY <1>1, <1>5, <1>6

LEMMA UserDebug ==
    ASSUME TypeOK, TypeOK', AttachInv, DebugInv, NEW t \in Tabs,
           UserOpens(t) \/ UserCloses(t) \/ UserDetaches(t)
    PROVE  DebugInv'
<1>1. /\ UNCHANGED <<sessions, attaching, pc, tab, reply, missed, unsure, cmds>>
      /\ inbox \in Seq(Messages) /\ debugged' \subseteq Tabs
  BY DEF UserOpens, UserCloses, UserDetaches, TypeOK, BrowserTypeOK, modelVars, procVars, historyVars
<1>2. ASSUME NEW e \in Seq(Messages), inbox' = inbox \o e,
             \A k \in DOMAIN e : e[k].to = NoOne /\ (IsLoss(e[k]) => e[k].tab \notin debugged'),
             debugged' \subseteq debugged,
             debugged' = debugged \/ \E k \in DOMAIN e : IsLoss(e[k]) /\ debugged' = debugged \ {e[k].tab}
      PROVE  DebugInv'
  <2>1. /\ \A i \in DOMAIN inbox : i \in DOMAIN inbox' /\ inbox'[i] = inbox[i]
        /\ \A i \in DOMAIN inbox' \ DOMAIN inbox :
               /\ i - Len(inbox) \in DOMAIN e /\ inbox'[i] = e[i - Len(inbox)]
               /\ \A j \in DOMAIN inbox : j < i
        /\ \A k \in DOMAIN e : Len(inbox) + k \in DOMAIN inbox' /\ inbox'[Len(inbox) + k] = e[k]
    BY <1>1, <1>2, ConcatParts
  <2>2. debugged \ debugged' \subseteq LostTabs'
    BY <1>2, <2>1, ReportsLoss DEF TypeOK, BrowserTypeOK
  <2>3. \A i \in DOMAIN inbox' \ DOMAIN inbox :
            /\ inbox'[i].to = NoOne /\ \A j \in DOMAIN inbox : j < i
            /\ IsLoss(inbox'[i]) => inbox'[i].tab \notin debugged'
    BY <1>2, <2>1
  <2> QED
    BY <1>1, <1>2, <2>1, <2>2, <2>3, BrowserMoves
<1>3. ASSUME NEW m \in Messages, inbox' = Append(inbox, m), m.to = NoOne,
             \/ ~IsLoss(m) /\ debugged' = debugged
             \/ IsLoss(m) /\ debugged' = debugged \ {m.tab}
      PROVE  DebugInv'
  <2> DEFINE e == <<m>>
  <2>1. e \in Seq(Messages) /\ inbox' = inbox \o e /\ DOMAIN e = {1} /\ e[1] = m
    BY <1>1, <1>3
  <2> HIDE DEF e
  <2> QED
    BY <1>2, <1>3, <2>1
<1>4. CASE UserOpens(t)
  <2>1. /\ inbox' = Append(inbox, Event("created", t)) /\ debugged' = debugged
        /\ Event("created", t) \in Messages
    BY <1>4, MessageTyped DEF UserOpens
  <2>2. Event("created", t).to = NoOne /\ ~IsLoss(Event("created", t))
    BY DEF Event, IsLoss
  <2> QED
    BY <1>3, <2>1, <2>2
<1>5. CASE UserCloses(t)
  <2> DEFINE e == ClosingEvents(t)
  <2>1. /\ inbox' = inbox \o e /\ debugged' = debugged \ {t}
    BY <1>5 DEF UserCloses, Closes
  <2>2. /\ e \in Seq(Messages)
        /\ \A k \in DOMAIN e : e[k].to = NoOne /\ e[k].tab = t
        /\ \E k \in DOMAIN e : IsLoss(e[k])
    BY ClosingParts DEF IsLoss
  <2> HIDE DEF e
  <2> QED
    BY <1>2, <2>1, <2>2
<1>6. CASE UserDetaches(t)
  <2>1. /\ inbox' = Append(inbox, Event("detach", t)) /\ debugged' = debugged \ {t}
        /\ Event("detach", t) \in Messages
    BY <1>6, MessageTyped DEF UserDetaches
  <2>2. Event("detach", t).to = NoOne /\ IsLoss(Event("detach", t)) /\ Event("detach", t).tab = t
    BY DEF Event, IsLoss
  <2> QED
    BY <1>3, <2>1, <2>2
<1> QED
  BY <1>4, <1>5, <1>6

\* A goroutine without a call under way moves on, and may send a command.
LEMMA ProcMoves ==
    ASSUME TypeOK, TypeOK', AttachInv, DebugInv, NEW p \in Procs,
           UNCHANGED <<sessions, debugged, unsure, inbox, tab>>,
           pc[p] \notin Sending \/ reply[p] # NoResult,
           reply'[p] = NoResult,
           \A q \in Procs \ {p} : pc'[q] = pc[q] /\ reply'[q] = reply[q],
           \A c \in cmds' \ cmds : c.by = p /\ c.what = pc'[p] /\ (c.what \in Attacking => c.tab = tab[p]),
           \A c, d \in cmds' \ cmds : c = d,
           cmds \subseteq cmds',
           missed' \subseteq missed,
           \A t \in missed \ missed' : sessions[t] = 0 /\ attaching[t] = NoOne,
           \A t \in Tabs : attaching'[t] = NoOne => attaching[t] = NoOne,
           pc'[p] \in {"info", "allocate", "commit"} => tab[p] \in SoundTabs' \cap CleanTabs,
           pc'[p] \in {"fail", "attach"} => tab[p] \in GoneTabs
    PROVE  DebugInv'
<1> USE DEF DebugInv
<1>1. /\ p \notin Asking /\ p \notin Answered /\ p # NoOne
      /\ Asking' \subseteq Asking \cup {p} /\ UNCHANGED <<Answered, LostTabs, GoneTabs, CleanTabs>>
      /\ SoundTabs' \subseteq SoundTabs
  BY Unasked, BrowserAssumption
  DEF Procs, TypeOK, BrowserTypeOK, Asking, Answered, LostTabs, Lost, Pending, GoneTabs, CleanTabs, SoundTabs
<1>2. ASSUME NEW t \in SoundTabs, sessions[t] # 0 \/ attaching[t] # NoOne PROVE t \in SoundTabs'
  BY <1>1, <1>2 DEF SoundTabs
<1>3. ASSUME NEW q \in Procs, pc[q] \in Attacking, tab[q] \in SoundTabs PROVE tab[q] \in SoundTabs'
  BY <1>2, <1>3, OneAttacker
<1>4. CallInv'
  <2>1. ASSUME NEW c \in cmds', c.by # NoOne
        PROVE  /\ pc'[c.by] = c.what /\ reply'[c.by] = NoResult /\ c.by \notin Answered'
               /\ c.what \in Attacking => c.tab = tab[c.by]
    <3>1. CASE c \in cmds
      <4>1. c.by \in Procs \ {p}
        BY <1>1, <2>1, <3>1 DEF Asking, TypeOK, BrowserTypeOK, Commands
      <4> QED
        BY <1>1, <2>1, <3>1, <4>1 DEF CallInv
    <3>2. CASE c \notin cmds
      BY <1>1, <2>1, <3>2
    <3> QED
      BY <3>1, <3>2
  <2>2. ASSUME NEW c \in cmds', NEW d \in cmds', c.by = d.by, c.by # NoOne PROVE c = d
    BY <1>1, <2>2 DEF CallInv, Asking
  <2>3. \A c \in cmds' : c.by = NoOne /\ c.what \in {"attach", "detach"} => c.tab \in unsure'
    BY <1>1 DEF CallInv
  <2>4. \A i \in DOMAIN inbox : inbox[i].to # NoOne => inbox[i].to \in Procs \ {p}
    BY <1>1, MessageTo DEF TypeOK, Answered
  <2>5. \A i \in DOMAIN inbox : inbox[i].to # NoOne =>
            /\ pc'[inbox[i].to] \in Sending /\ reply'[inbox[i].to] = NoResult
            /\ \A j \in DOMAIN inbox : inbox[j].to = inbox[i].to => i = j
    BY <2>4 DEF CallInv
  <2>6. \A q \in Procs : reply'[q] # NoResult => pc'[q] \in Sending \cup {"wait"}
    BY DEF CallInv
  <2> QED
    BY <2>1, <2>2, <2>3, <2>5, <2>6 DEF CallInv
<1>5. CallerInv'
  <2> SUFFICES ASSUME NEW q \in Procs
               PROVE  /\ pc'[q] \in {"info", "allocate", "commit"} => tab[q] \in SoundTabs' \cap CleanTabs
                      /\ pc'[q] = "fail" => tab[q] \in GoneTabs
                      /\ pc'[q] = "attach" =>
                             /\ q \in Asking' \/ reply'[q].outcome = "error" => tab[q] \in GoneTabs
                             /\ reply'[q].outcome = "ok" => tab[q] \in SoundTabs' \cap CleanTabs
                      /\ pc'[q] = "detach" /\ reply'[q] # NoResult => tab[q] \in GoneTabs
    BY <1>1 DEF CallerInv
  <2>1. CASE q = p
    BY <2>1 DEF NoResult, Result
  <2>2. CASE q # p
    BY <1>1, <1>3, <2>2 DEF CallerInv, Attacking
  <2> QED
    BY <2>1, <2>2
<1>6. AnswerInv'
  <2> SUFFICES ASSUME NEW i \in DOMAIN inbox, NEW q, q = inbox[i].to, q # NoOne
               PROVE  /\ pc'[q] = "attach" /\ inbox[i].outcome = "error" => tab[q] \in GoneTabs
                      /\ pc'[q] = "attach" /\ inbox[i].outcome = "ok" =>
                             /\ tab[q] \in SoundTabs'
                             /\ \/ tab[q] \in GoneTabs
                                \/ \A j \in DOMAIN inbox :
                                       IsLoss(inbox[j]) /\ inbox[j].tab = tab[q] => j < i
                      /\ pc'[q] = "detach" => tab[q] \in GoneTabs
    BY <1>1 DEF AnswerInv
  <2>1. q \in Procs \ {p}
    BY <1>1, MessageTo DEF TypeOK, Answered
  <2> QED
    BY <1>3, <2>1 DEF AnswerInv, Attacking
<1>7. SessionInv'
  BY <1>1, <1>2 DEF SessionInv
<1> QED
  BY <1>4, <1>5, <1>6, <1>7

LEMMA ExpiresDebug ==
    ASSUME TypeOK, TypeOK', DebugInv, NEW p \in Procs, Expires(p)
    PROVE  DebugInv'
<1> USE DEF DebugInv
<1>1. /\ UNCHANGED <<sessions, attaching, pc, tab, debugged, missed>>
      /\ p # NoOne /\ reply[p] = NoResult /\ reply'[p].outcome = "error"
      /\ \A q \in Procs \ {p} : reply'[q] = reply[q]
      /\ unsure \subseteq unsure' /\ pc[p] \in Sending
      /\ pc[p] \in {"attach", "detach"} => tab[p] \in unsure'
      /\ cmds \subseteq Commands /\ DOMAIN inbox' = DOMAIN inbox
  BY BrowserAssumption DEF Expires, Procs, TypeOK, BrowserTypeOK, ProcTypeOK, modelVars, Result
<1>2. \A i \in DOMAIN inbox :
          /\ inbox'[i].to = IF inbox[i].to = p THEN NoOne ELSE inbox[i].to
          /\ inbox'[i].outcome = inbox[i].outcome /\ inbox'[i].tab = inbox[i].tab
          /\ inbox'[i].kind = inbox[i].kind
  <2>1. \A i \in DOMAIN inbox : inbox[i] \in Messages
    BY MessageTo DEF TypeOK
  <2> QED
    BY <2>1 DEF Expires, Messages
<1>3. \A c \in cmds' :
          \/ c \in cmds /\ c.by # p
          \/ \E d \in cmds : d.by = p /\ c.by = NoOne /\ c.what = d.what /\ c.tab = d.tab
  BY <1>1 DEF Expires, Commands
<1>4. /\ Asking' \subseteq (Asking \ {p}) \cup {NoOne} /\ Answered' \subseteq (Answered \ {p}) \cup {NoOne}
      /\ LostTabs' = LostTabs /\ GoneTabs \subseteq GoneTabs'
      /\ SoundTabs \subseteq SoundTabs' /\ CleanTabs \subseteq CleanTabs'
  <2>1. LostTabs' = LostTabs
    BY <1>1, <1>2 DEF LostTabs, Lost, Pending
  <2>2. Asking' \subseteq (Asking \ {p}) \cup {NoOne} /\ Answered' \subseteq (Answered \ {p}) \cup {NoOne}
    BY <1>1, <1>2, <1>3 DEF Asking, Answered
  <2> QED
    BY <1>1, <2>1, <2>2 DEF GoneTabs, SoundTabs, CleanTabs
<1>5. CallInv'
  <2>1. ASSUME NEW c \in cmds', c.by # NoOne
        PROVE  /\ pc'[c.by] = c.what /\ reply'[c.by] = NoResult /\ c.by \notin Answered'
               /\ c.what \in Attacking => c.tab = tab'[c.by]
    <3>1. c \in cmds /\ c.by \in Procs \ {p}
      BY <1>1, <1>3, <2>1 DEF Commands
    <3> QED
      BY <1>1, <1>4, <2>1, <3>1 DEF CallInv
  <2>2. ASSUME NEW c \in cmds', NEW d \in cmds', c.by = d.by, c.by # NoOne PROVE c = d
    BY <1>3, <2>2 DEF CallInv
  <2>3. ASSUME NEW c \in cmds', c.by = NoOne, c.what \in {"attach", "detach"} PROVE c.tab \in unsure'
    BY <1>1, <1>3, <2>3 DEF CallInv, Attacking
  <2>4. ASSUME NEW i \in DOMAIN inbox', inbox'[i].to # NoOne
        PROVE  /\ pc'[inbox'[i].to] \in Sending /\ reply'[inbox'[i].to] = NoResult
               /\ \A j \in DOMAIN inbox' : inbox'[j].to = inbox'[i].to => i = j
    <3>1. inbox[i].to \in Procs \ {p} /\ inbox'[i].to = inbox[i].to /\ i \in DOMAIN inbox
      BY <1>1, <1>2, <2>4, MessageTo DEF TypeOK
    <3> QED
      BY <1>1, <1>2, <2>4, <3>1 DEF CallInv
  <2>5. \A q \in Procs : reply'[q] # NoResult => pc'[q] \in Sending \cup {"wait"}
    BY <1>1 DEF CallInv
  <2> QED
    BY <2>1, <2>2, <2>3, <2>4, <2>5 DEF CallInv
<1>6. CallerInv'
  <2> SUFFICES ASSUME NEW q \in Procs
               PROVE  /\ pc[q] \in {"info", "allocate", "commit"} => tab[q] \in SoundTabs' \cap CleanTabs'
                      /\ pc[q] = "fail" => tab[q] \in GoneTabs'
                      /\ pc[q] = "attach" =>
                             /\ q \in Asking' \/ reply'[q].outcome = "error" => tab[q] \in GoneTabs'
                             /\ reply'[q].outcome = "ok" => tab[q] \in SoundTabs' \cap CleanTabs'
                      /\ pc[q] = "detach" /\ reply'[q] # NoResult => tab[q] \in GoneTabs'
    BY <1>1 DEF CallerInv
  <2>1. CASE q = p
    BY <1>1, <1>4, <2>1 DEF CallerInv, GoneTabs
  <2>2. CASE q # p
    <3>1. q # NoOne
      BY BrowserAssumption DEF Procs
    <3> QED
      BY <1>1, <1>4, <2>2, <3>1 DEF CallerInv
  <2> QED
    BY <2>1, <2>2
<1>7. AnswerInv'
  <2> SUFFICES ASSUME NEW i \in DOMAIN inbox', NEW q, q = inbox'[i].to, q # NoOne
               PROVE  /\ pc[q] = "attach" /\ inbox'[i].outcome = "error" => tab[q] \in GoneTabs'
                      /\ pc[q] = "attach" /\ inbox'[i].outcome = "ok" =>
                             /\ tab[q] \in SoundTabs'
                             /\ \/ tab[q] \in GoneTabs'
                                \/ \A j \in DOMAIN inbox' :
                                       IsLoss(inbox'[j]) /\ inbox'[j].tab = tab[q] => j < i
                      /\ pc[q] = "detach" => tab[q] \in GoneTabs'
    BY <1>1 DEF AnswerInv
  <2>1. i \in DOMAIN inbox /\ inbox[i].to = q
    BY <1>1, <1>2
  <2> QED
    BY <1>1, <1>2, <1>4, <2>1 DEF AnswerInv, IsLoss
<1>8. SessionInv'
  BY <1>1, <1>4 DEF SessionInv
<1> QED
  BY <1>5, <1>6, <1>7, <1>8

\* The inbox without its first message.
LEMMA TailParts ==
    ASSUME BrowserTypeOK, NEW kind, Reads(kind)
    PROVE  /\ 1 \in DOMAIN inbox /\ inbox[1] = Head(inbox) /\ inbox[1].kind = kind
           /\ \A i \in DOMAIN inbox' : i \in Nat \ {0} /\ i + 1 \in DOMAIN inbox /\ inbox'[i] = inbox[i + 1]
           /\ \A i \in DOMAIN inbox : i \in Nat /\ (i = 1 \/ (i - 1 \in DOMAIN inbox' /\ inbox'[i - 1] = inbox[i]))
<1>1. inbox \in Seq(Messages) /\ inbox # <<>> /\ inbox' = Tail(inbox) /\ Head(inbox).kind = kind
  BY DEF BrowserTypeOK, Reads
<1>2. /\ Len(inbox) \in Nat \ {0} /\ DOMAIN inbox = 1 .. Len(inbox) /\ Head(inbox) = inbox[1]
      /\ Len(inbox') = Len(inbox) - 1 /\ inbox' \in Seq(Messages)
      /\ \A i \in 1 .. Len(inbox') : inbox'[i] = inbox[i + 1]
  BY <1>1, HeadTailProperties, EmptySeq, LenProperties
<1>3. DOMAIN inbox' = 1 .. Len(inbox') /\ Len(inbox') \in Nat
  BY <1>2, LenProperties
<1>4. ASSUME NEW i \in DOMAIN inbox'
      PROVE  i \in Nat \ {0} /\ i + 1 \in DOMAIN inbox /\ inbox'[i] = inbox[i + 1]
  BY <1>2, <1>3
<1>5. ASSUME NEW i \in DOMAIN inbox, i # 1
      PROVE  i - 1 \in DOMAIN inbox' /\ inbox'[i - 1] = inbox[i]
  <2>1. i - 1 \in 1 .. Len(inbox') /\ (i - 1) + 1 = i
    BY <1>2, <1>3, <1>5
  <2> QED
    BY <1>2, <1>3, <2>1
<1>6. 1 \in DOMAIN inbox /\ inbox[1] = Head(inbox) /\ inbox[1].kind = kind
  BY <1>1, <1>2
<1>7. ASSUME NEW i \in DOMAIN inbox
      PROVE  i \in Nat /\ (i = 1 \/ (i - 1 \in DOMAIN inbox' /\ inbox'[i - 1] = inbox[i]))
  <2>1. i \in Nat
    BY <1>2
  <2>2. CASE i = 1
    BY <2>1, <2>2
  <2>3. CASE i # 1
    BY <1>5, <2>1, <2>3
  <2> QED
    BY <2>2, <2>3
<1> QED
  BY <1>4, <1>6, <1>7

LEMMA ReadReplyDebug ==
    ASSUME TypeOK, TypeOK', DebugInv, ReadReply
    PROVE  DebugInv'
<1> USE DEF DebugInv
<1>1. UNCHANGED <<sessions, attaching, pc, tab, debugged, missed, unsure, cmds>>
  BY DEF ReadReply, modelVars, historyVars
<1> DEFINE m == Head(inbox)
<1>2. /\ 1 \in DOMAIN inbox /\ inbox[1] = m /\ m.kind = "reply"
      /\ \A i \in DOMAIN inbox' : i \in Nat \ {0} /\ i + 1 \in DOMAIN inbox /\ inbox'[i] = inbox[i + 1]
      /\ \A i \in DOMAIN inbox : i \in Nat /\ (i = 1 \/ (i - 1 \in DOMAIN inbox' /\ inbox'[i - 1] = inbox[i]))
  BY TailParts DEF ReadReply, TypeOK
<1>3. /\ m.to \in Procs \cup {NoOne} /\ (m.to # NoOne => m.outcome \in {"ok", "error"})
      /\ m.to = NoOne => reply' = reply
      /\ m.to # NoOne => reply' = [reply EXCEPT ![m.to] = Result(m.outcome, m.tab)]
  BY <1>2, MessageTo DEF ReadReply, TypeOK
<1> HIDE DEF m
<1>4. \A q \in Procs : q # m.to => reply'[q] = reply[q]
  BY <1>3 DEF TypeOK, ProcTypeOK
<1>5. m.to # NoOne => reply'[m.to].outcome = m.outcome /\ reply'[m.to] # NoResult
  BY <1>3 DEF TypeOK, ProcTypeOK, Result, NoResult
<1>6. /\ LostTabs' = LostTabs /\ UNCHANGED <<GoneTabs, SoundTabs, CleanTabs, Asking>>
      /\ Answered' \subseteq Answered
  <2>1. LostTabs' = LostTabs
    BY <1>2 DEF LostTabs, Lost, Pending
  <2>2. Answered' \subseteq Answered
    BY <1>2 DEF Answered
  <2> QED
    BY <1>1, <2>1, <2>2 DEF GoneTabs, SoundTabs, CleanTabs, Asking
<1>7. m.to # NoOne =>
          /\ pc[m.to] \in Sending /\ reply[m.to] = NoResult /\ m.to \in Answered
          /\ m.to \notin Answered' /\ m.to \notin Asking
  <2>1. m.to # NoOne =>
            /\ pc[m.to] \in Sending /\ reply[m.to] = NoResult /\ m.to \in Answered
            /\ \A j \in DOMAIN inbox : inbox[j].to = m.to => j = 1
    BY <1>2 DEF CallInv, Answered
  <2>2. m.to # NoOne => m.to \notin Answered'
    BY <1>2, <2>1 DEF Answered
  <2>3. m.to # NoOne => m.to \notin Asking
    BY <2>1 DEF CallInv, Asking
  <2> QED
    BY <2>1, <2>2, <2>3
<1>8. CallInv'
  <2>1. ASSUME NEW c \in cmds', c.by # NoOne
        PROVE  /\ pc'[c.by] = c.what /\ reply'[c.by] = NoResult /\ c.by \notin Answered'
               /\ c.what \in Attacking => c.tab = tab'[c.by]
    <3>1. c \in cmds /\ c.by \in Procs /\ c.by # m.to
      BY <1>1, <1>7, <2>1 DEF TypeOK, BrowserTypeOK, Commands, Asking
    <3> QED
      BY <1>1, <1>4, <1>6, <2>1, <3>1 DEF CallInv
  <2>2. ASSUME NEW i \in DOMAIN inbox', inbox'[i].to # NoOne
        PROVE  /\ pc'[inbox'[i].to] \in Sending /\ reply'[inbox'[i].to] = NoResult
               /\ \A j \in DOMAIN inbox' : inbox'[j].to = inbox'[i].to => i = j
    <3>1. i + 1 \in DOMAIN inbox /\ inbox'[i] = inbox[i + 1] /\ inbox'[i].to \in Procs /\ inbox'[i].to # m.to
      BY <1>2, <1>7, <2>2, MessageTo DEF TypeOK, Answered
    <3>2. /\ pc[inbox'[i].to] \in Sending /\ reply[inbox'[i].to] = NoResult
          /\ \A j \in DOMAIN inbox : inbox[j].to = inbox'[i].to => i + 1 = j
      BY <2>2, <3>1 DEF CallInv
    <3>3. ASSUME NEW j \in DOMAIN inbox', inbox'[j].to = inbox'[i].to PROVE i = j
      BY <1>2, <3>2, <3>3
    <3> QED
      BY <1>1, <1>4, <3>1, <3>2, <3>3
  <2>3. \A q \in Procs : reply'[q] # NoResult => pc'[q] \in Sending \cup {"wait"}
    BY <1>1, <1>3, <1>4, <1>7 DEF CallInv
  <2> QED
    BY <1>1, <2>1, <2>2, <2>3 DEF CallInv
<1>9. CallerInv'
  <2> SUFFICES ASSUME NEW q \in Procs
               PROVE  /\ pc[q] \in {"info", "allocate", "commit"} => tab[q] \in SoundTabs \cap CleanTabs
                      /\ pc[q] = "fail" => tab[q] \in GoneTabs
                      /\ pc[q] = "attach" =>
                             /\ q \in Asking \/ reply'[q].outcome = "error" => tab[q] \in GoneTabs
                             /\ reply'[q].outcome = "ok" => tab[q] \in SoundTabs \cap CleanTabs
                      /\ pc[q] = "detach" /\ reply'[q] # NoResult => tab[q] \in GoneTabs
    BY <1>1, <1>6 DEF CallerInv
  <2>1. CASE q = m.to
    <3>1. m.to # NoOne
      BY <2>1, BrowserAssumption DEF Procs
    <3>2. pc[q] = "attach" /\ m.outcome = "error" => tab[q] \in GoneTabs
      BY <1>2, <2>1, <3>1 DEF AnswerInv
    <3>3. pc[q] = "attach" /\ m.outcome = "ok" =>
              /\ tab[q] \in SoundTabs
              /\ \/ tab[q] \in GoneTabs
                 \/ \A j \in DOMAIN inbox : IsLoss(inbox[j]) /\ inbox[j].tab = tab[q] => j < 1
      BY <1>2, <2>1, <3>1 DEF AnswerInv
    <3>4. pc[q] = "detach" => tab[q] \in GoneTabs
      BY <1>2, <2>1, <3>1 DEF AnswerInv
    <3>5. pc[q] = "attach" => tab[q] \in Tabs
      BY DEF TypeOK, ProcTypeOK, Attacking
    <3>6. pc[q] = "attach" /\ m.outcome = "ok" => tab[q] \in CleanTabs
      <4>1. \A j \in DOMAIN inbox : ~(j < 1)
        BY <1>2 DEF TypeOK, BrowserTypeOK
      <4> QED
        BY <3>3, <3>5, <4>1 DEF CleanTabs, LostTabs, Lost, Pending, IsLoss
    <3>7. reply'[q].outcome = m.outcome /\ q \notin Asking
      BY <1>5, <1>7, <2>1, <3>1
    <3> QED
      BY <3>2, <3>3, <3>4, <3>6, <3>7 DEF CallerInv
  <2>2. CASE q # m.to
    BY <1>4, <2>2 DEF CallerInv
  <2> QED
    BY <2>1, <2>2
<1>10. AnswerInv'
  <2> SUFFICES ASSUME NEW i \in DOMAIN inbox', NEW q, q = inbox'[i].to, q # NoOne
               PROVE  /\ pc[q] = "attach" /\ inbox'[i].outcome = "error" => tab[q] \in GoneTabs
                      /\ pc[q] = "attach" /\ inbox'[i].outcome = "ok" =>
                             /\ tab[q] \in SoundTabs
                             /\ \/ tab[q] \in GoneTabs
                                \/ \A j \in DOMAIN inbox' :
                                       IsLoss(inbox'[j]) /\ inbox'[j].tab = tab[q] => j < i
                      /\ pc[q] = "detach" => tab[q] \in GoneTabs
    BY <1>1, <1>6 DEF AnswerInv
  <2>1. i \in Nat /\ i + 1 \in DOMAIN inbox /\ inbox'[i] = inbox[i + 1]
    BY <1>2
  <2>2. ASSUME NEW j \in DOMAIN inbox', IsLoss(inbox'[j]), inbox'[j].tab = tab[q],
               \A k \in DOMAIN inbox : IsLoss(inbox[k]) /\ inbox[k].tab = tab[q] => k < i + 1
        PROVE  j < i
    <3>1. j \in Nat /\ j + 1 \in DOMAIN inbox /\ inbox'[j] = inbox[j + 1]
      BY <1>2
    <3> QED
      BY <2>1, <2>2, <3>1
  <2> QED
    BY <2>1, <2>2 DEF AnswerInv
<1>11. SessionInv'
  BY <1>1, <1>6 DEF SessionInv
<1> QED
  BY <1>8, <1>9, <1>10, <1>11

\* The other messages: none is a reply.  A created tab changes nothing here.
LEMMA EventDebug ==
    ASSUME TypeOK, TypeOK', AttachInv, DebugInv, NEW t \in Tabs, NEW kind, kind # "reply", Reads(kind),
           t = Head(inbox).tab,
           UNCHANGED <<attaching, debugged, unsure, cmds>>,
           \A q \in Procs :
               \/ pc'[q] = pc[q] /\ tab'[q] = tab[q] /\ reply'[q] = reply[q]
               \/ pc[q] = "idle" /\ pc'[q] = "enter" /\ reply'[q] = reply[q],
           \/ kind \notin {"removed", "detach"} /\ UNCHANGED <<sessions, missed>>
           \/ kind \in {"removed", "detach"} /\ DetachTab(t)
    PROVE  DebugInv'
<1> USE DEF DebugInv
<1>1. /\ 1 \in DOMAIN inbox /\ inbox[1] = Head(inbox) /\ inbox[1].kind = kind
      /\ \A i \in DOMAIN inbox' : i \in Nat \ {0} /\ i + 1 \in DOMAIN inbox /\ inbox'[i] = inbox[i + 1]
      /\ \A i \in DOMAIN inbox : i \in Nat /\ (i = 1 \/ (i - 1 \in DOMAIN inbox' /\ inbox'[i - 1] = inbox[i]))
  BY TailParts DEF TypeOK
<1>2. inbox[1].to = NoOne
  BY <1>1, MessageTo DEF TypeOK
<1>3. /\ Answered' \subseteq Answered /\ UNCHANGED <<Asking, GoneTabs>>
      /\ LostTabs' \subseteq LostTabs
      /\ kind \notin {"removed", "detach"} => LostTabs' = LostTabs
      /\ kind \in {"removed", "detach"} => t \in LostTabs /\ LostTabs \subseteq LostTabs' \cup {t}
  <2>1. Answered' \subseteq Answered /\ UNCHANGED <<Asking, GoneTabs>>
    BY <1>1 DEF Answered, Asking, GoneTabs
  <2>2. LostTabs' \subseteq LostTabs
    BY <1>1 DEF LostTabs, Lost, Pending
  <2>3. ASSUME NEW u \in LostTabs PROVE u \in LostTabs' \/ (kind \in {"removed", "detach"} /\ u = t)
    BY <1>1, <2>3 DEF LostTabs, Lost, Pending
  <2>4. kind \in {"removed", "detach"} => t \in LostTabs
    BY <1>1 DEF LostTabs, Lost, Pending
  <2> QED
    BY <2>1, <2>2, <2>3, <2>4
<1>4. CleanTabs \subseteq CleanTabs'
  BY <1>3 DEF CleanTabs
<1>5. /\ missed \subseteq missed' /\ \A u \in Tabs \ {t} : sessions'[u] = sessions[u]
      /\ kind \in {"removed", "detach"} =>
             sessions'[t] = 0 /\ (attaching[t] # NoOne => t \in missed')
      /\ kind \notin {"removed", "detach"} => sessions' = sessions
  BY DEF DetachTab, TypeOK, ModelTypeOK
<1>6. ASSUME NEW u \in SoundTabs, sessions'[u] # 0 \/ attaching[u] # NoOne PROVE u \in SoundTabs'
  BY <1>3, <1>5, <1>6 DEF SoundTabs
<1>7. ASSUME NEW q \in Procs, pc[q] \in Attacking, tab[q] \in SoundTabs PROVE tab[q] \in SoundTabs'
  BY <1>6, <1>7, OneAttacker
<1>8. \A q \in Procs : pc[q] # "idle" \/ q \in Asking \cup Answered =>
          pc'[q] = pc[q] /\ tab'[q] = tab[q] /\ reply'[q] = reply[q]
  BY Unasked DEF TypeOK, BrowserTypeOK, Sending
<1>9. \A q \in Procs : reply'[q] = reply[q]
  OBVIOUS
<1>10. CallInv'
  <2>1. ASSUME NEW c \in cmds', c.by # NoOne
        PROVE  /\ pc'[c.by] = c.what /\ reply'[c.by] = NoResult /\ c.by \notin Answered'
               /\ c.what \in Attacking => c.tab = tab'[c.by]
    <3>1. c \in cmds /\ c.by \in Procs /\ c.by \in Asking
      BY <2>1 DEF TypeOK, BrowserTypeOK, Commands, Asking
    <3> QED
      BY <1>3, <1>8, <2>1, <3>1 DEF CallInv
  <2>2. ASSUME NEW i \in DOMAIN inbox', inbox'[i].to # NoOne
        PROVE  /\ pc'[inbox'[i].to] \in Sending /\ reply'[inbox'[i].to] = NoResult
               /\ \A j \in DOMAIN inbox' : inbox'[j].to = inbox'[i].to => i = j
    <3>1. /\ i + 1 \in DOMAIN inbox /\ inbox'[i] = inbox[i + 1]
          /\ inbox'[i].to \in Procs /\ inbox'[i].to \in Answered
      BY <1>1, <2>2, MessageTo DEF TypeOK, Answered
    <3>2. /\ pc[inbox'[i].to] \in Sending /\ reply[inbox'[i].to] = NoResult
          /\ \A j \in DOMAIN inbox : inbox[j].to = inbox'[i].to => i + 1 = j
      BY <2>2, <3>1 DEF CallInv
    <3>3. ASSUME NEW j \in DOMAIN inbox', inbox'[j].to = inbox'[i].to PROVE i = j
      BY <1>1, <3>2, <3>3
    <3> QED
      BY <1>8, <3>1, <3>2, <3>3
  <2>3. \A q \in Procs : reply'[q] # NoResult => pc'[q] \in Sending \cup {"wait"}
    BY <1>8, <1>9 DEF CallInv, Sending
  <2> QED
    BY <2>1, <2>2, <2>3 DEF CallInv
<1>11. CallerInv'
  <2> SUFFICES ASSUME NEW q \in Procs
               PROVE  /\ pc'[q] \in {"info", "allocate", "commit"} => tab'[q] \in SoundTabs' \cap CleanTabs'
                      /\ pc'[q] = "fail" => tab'[q] \in GoneTabs
                      /\ pc'[q] = "attach" =>
                             /\ q \in Asking \/ reply'[q].outcome = "error" => tab'[q] \in GoneTabs
                             /\ reply'[q].outcome = "ok" => tab'[q] \in SoundTabs' \cap CleanTabs'
                      /\ pc'[q] = "detach" /\ reply'[q] # NoResult => tab'[q] \in GoneTabs
    BY <1>3 DEF CallerInv
  <2>1. CASE pc[q] = "idle"
    BY <2>1
  <2>2. CASE pc[q] # "idle"
    BY <1>4, <1>7, <1>8, <2>2 DEF CallerInv, Attacking
  <2> QED
    BY <2>1, <2>2
<1>12. AnswerInv'
  <2> SUFFICES ASSUME NEW i \in DOMAIN inbox', NEW q, q = inbox'[i].to, q # NoOne
               PROVE  /\ pc'[q] = "attach" /\ inbox'[i].outcome = "error" => tab'[q] \in GoneTabs
                      /\ pc'[q] = "attach" /\ inbox'[i].outcome = "ok" =>
                             /\ tab'[q] \in SoundTabs'
                             /\ \/ tab'[q] \in GoneTabs
                                \/ \A j \in DOMAIN inbox' :
                                       IsLoss(inbox'[j]) /\ inbox'[j].tab = tab'[q] => j < i
                      /\ pc'[q] = "detach" => tab'[q] \in GoneTabs
    BY <1>3 DEF AnswerInv
  <2>1. i \in Nat /\ i + 1 \in DOMAIN inbox /\ inbox'[i] = inbox[i + 1] /\ q \in Procs /\ q \in Answered
    BY <1>1, MessageTo DEF TypeOK, Answered
  <2>2. pc'[q] = pc[q] /\ tab'[q] = tab[q]
    BY <1>8, <2>1
  <2>3. ASSUME NEW j \in DOMAIN inbox', IsLoss(inbox'[j]), inbox'[j].tab = tab[q],
               \A k \in DOMAIN inbox : IsLoss(inbox[k]) /\ inbox[k].tab = tab[q] => k < i + 1
        PROVE  j < i
    <3>1. j \in Nat /\ j + 1 \in DOMAIN inbox /\ inbox'[j] = inbox[j + 1]
      BY <1>1
    <3> QED
      BY <2>1, <2>3, <3>1
  <2> QED
    BY <1>7, <2>1, <2>2, <2>3 DEF AnswerInv, Attacking
<1>13. SessionInv'
  <2> SUFFICES ASSUME NEW u \in Tabs
               PROVE  /\ sessions'[u] # 0 => u \in SoundTabs' \cap CleanTabs'
                      /\ sessions'[u] = 0 /\ attaching[u] = NoOne => u \in GoneTabs
    BY <1>3 DEF SessionInv
  <2>1. CASE u = t /\ kind \in {"removed", "detach"}
    BY <1>3, <1>5, <2>1 DEF SessionInv, CleanTabs
  <2>2. CASE ~(u = t /\ kind \in {"removed", "detach"})
    BY <1>4, <1>5, <1>6, <2>2 DEF SessionInv
  <2> QED
    BY <2>1, <2>2
<1> QED
  BY <1>10, <1>11, <1>12, <1>13

LEMMA DebugNext == TypeOK /\ AttachInv /\ SidInv /\ DebugInv /\ [Next]_vars => DebugInv'
<1> SUFFICES ASSUME TypeOK, AttachInv, SidInv, DebugInv, [Next]_vars PROVE DebugInv'
  OBVIOUS
<1>0. TypeOK'
  BY TypeNext
<1>1. ASSUME NEW p \in Procs, EnterAttached(p) PROVE DebugInv'
  <2>1. \E rest \in SUBSET Tabs : Proceeds(p, rest)
    BY <1>1 DEF EnterAttached, Aborts, Procs, TypeOK, ModelTypeOK, ProcTypeOK
  <2>2. /\ p \in Procs /\ pc'[p] \in {"enter", "idle"}
        /\ \A q \in Procs \ {p} : pc'[q] = pc[q] /\ tab'[q] = tab[q]
    BY <2>1, ProceedsTyped DEF TypeOK, Procs
  <2>3. /\ pc[p] = "enter" /\ UNCHANGED <<sessions, attaching, debugged, missed, unsure, cmds, inbox>>
        /\ \A q \in Procs \ {p} : reply'[q] = reply[q]
    BY <1>1 DEF EnterAttached, StartsOp, Takes, TypeOK, ProcTypeOK, modelVars, browserVars, historyVars
  <2>4. reply'[p] = NoResult
    BY <1>1, <2>2, <2>3 DEF EnterAttached, Takes, TypeOK, ProcTypeOK, DebugInv, CallInv, Sending
  <2> QED
    BY <2>2, <2>3, <2>4, QuietCalls DEF Sending
<1>2. ASSUME NEW p \in Procs, EnterWait(p) PROVE DebugInv'
  <2>1. /\ pc[p] = "enter" /\ pc'[p] = "wait" /\ UNCHANGED <<tab, reply>>
        /\ \A q \in Procs \ {p} : pc'[q] = pc[q]
        /\ UNCHANGED <<sessions, attaching, debugged, missed, unsure, cmds, inbox>>
    BY <1>2 DEF EnterWait, TypeOK, ProcTypeOK, modelVars, browserVars, historyVars
  <2> QED
    BY <2>1, QuietCalls DEF Sending
<1>3. ASSUME NEW p \in Procs, EnterAttach(p) PROVE DebugInv'
  <2>1. /\ pc[p] = "enter" /\ sessions[tab[p]] = 0 /\ attaching[tab[p]] = NoOne /\ tab[p] \in Tabs
        /\ UNCHANGED <<sessions, debugged, unsure, inbox, tab, reply>>
        /\ missed' = missed \ {tab[p]} /\ cmds' = cmds \cup {Command(p, "attach", tab[p])}
    BY <1>3 DEF EnterAttach, Sends, TypeOK, ProcTypeOK
  <2>2. /\ pc'[p] = "attach" /\ \A q \in Procs \ {p} : pc'[q] = pc[q]
        /\ \A t \in Tabs : attaching'[t] = NoOne => attaching[t] = NoOne
    BY <1>3, <2>1 DEF EnterAttach, Sends, TypeOK, ModelTypeOK, ProcTypeOK
  <2>3. reply[p] = NoResult /\ tab[p] \in GoneTabs
    BY <2>1 DEF DebugInv, CallInv, SessionInv, Sending
  <2>4. \A c \in cmds' \ cmds : c.by = p /\ c.what = pc'[p] /\ c.tab = tab[p]
    BY <2>1, <2>2 DEF Command
  <2> QED
    BY <1>0, <2>1, <2>2, <2>3, <2>4, ProcMoves DEF Sending
<1>4. ASSUME NEW p \in Procs, WaitReturns(p) PROVE DebugInv'
  <2>1. PICK rest \in SUBSET Tabs : Proceeds(p, rest)
    BY <1>4 DEF WaitReturns, Aborts, TypeOK, ModelTypeOK, ProcTypeOK
  <2>2. /\ p \in Procs /\ pc'[p] \in {"enter", "idle"}
        /\ \A q \in Procs \ {p} : pc'[q] = pc[q] /\ tab'[q] = tab[q]
    BY <2>1, ProceedsTyped DEF TypeOK, Procs
  <2>3. /\ pc[p] = "wait" /\ UNCHANGED <<sessions, attaching, debugged, missed, unsure, cmds, inbox>>
        /\ \A q \in Procs \ {p} : reply'[q] = reply[q]
    BY <1>4 DEF WaitReturns, StartsOp, Takes, TypeOK, ProcTypeOK, modelVars, browserVars, historyVars
  <2>4. reply'[p] = NoResult
    BY <1>4, <2>2, <2>3 DEF WaitReturns, Takes, TypeOK, ProcTypeOK, DebugInv, CallInv, Sending
  <2> QED
    BY <2>2, <2>3, <2>4, QuietCalls DEF Sending
<1>5. ASSUME NEW p \in Procs, AttachReplied(p) PROVE DebugInv'
  <2>1. /\ pc[p] = "attach" /\ reply[p].outcome \in {"ok", "error"} /\ reply'[p] = NoResult
        /\ UNCHANGED <<sessions, attaching, debugged, unsure, missed, inbox, tab>>
        /\ \A q \in Procs \ {p} : pc'[q] = pc[q] /\ reply'[q] = reply[q]
        /\ \/ /\ reply[p].outcome = "ok" /\ pc'[p] = "info"
              /\ cmds' = cmds \cup {Command(p, "info", tab[p])}
           \/ reply[p].outcome = "error" /\ pc'[p] = "fail" /\ cmds' = cmds
    BY <1>5 DEF AttachReplied, Sends, Takes, TypeOK, ProcTypeOK, modelVars, historyVars
  <2>2. /\ SoundTabs' = SoundTabs /\ reply[p] # NoResult
        /\ reply[p].outcome = "ok" => tab[p] \in SoundTabs \cap CleanTabs
        /\ reply[p].outcome = "error" => tab[p] \in GoneTabs
    BY <2>1 DEF DebugInv, CallerInv, SoundTabs, LostTabs, Lost, Pending, NoResult, Result
  <2>3. \A c \in cmds' \ cmds : c.by = p /\ c.what = pc'[p] /\ c.tab = tab[p]
    BY <2>1 DEF Command
  <2>4. \A c, d \in cmds' \ cmds : c = d
    BY <2>1
  <2> QED
    BY <1>0, <2>1, <2>2, <2>3, <2>4, ProcMoves
<1>6. ASSUME NEW p \in Procs, InfoReplied(p) PROVE DebugInv'
  <2>1. /\ pc[p] = "info" /\ reply[p].outcome \in {"ok", "error"} /\ reply'[p] = NoResult
        /\ UNCHANGED <<sessions, attaching, debugged, unsure, missed, inbox, tab>>
        /\ \A q \in Procs \ {p} : pc'[q] = pc[q] /\ reply'[q] = reply[q]
        /\ \/ pc'[p] = "allocate" /\ cmds' = cmds
           \/ pc'[p] = "detach" /\ cmds' = cmds \cup {Command(p, "detach", tab[p])}
    BY <1>6 DEF InfoReplied, Sends, Takes, TypeOK, ProcTypeOK, modelVars, historyVars
  <2>2. /\ SoundTabs' = SoundTabs /\ reply[p] # NoResult /\ tab[p] \in SoundTabs \cap CleanTabs
    BY <2>1 DEF DebugInv, CallerInv, SoundTabs, LostTabs, Lost, Pending, NoResult, Result
  <2>3. \A c \in cmds' \ cmds : c.by = p /\ c.what = pc'[p] /\ c.tab = tab[p]
    BY <2>1 DEF Command
  <2>4. \A c, d \in cmds' \ cmds : c = d
    BY <2>1
  <2> QED
    BY <1>0, <2>1, <2>2, <2>3, <2>4, ProcMoves
<1>7. ASSUME NEW p \in Procs, DetachReplied(p) PROVE DebugInv'
  <2>1. /\ pc[p] = "detach" /\ reply[p].outcome \in {"ok", "error"} /\ reply'[p] = NoResult
        /\ UNCHANGED <<sessions, attaching, debugged, unsure, missed, cmds, inbox, tab>>
        /\ \A q \in Procs \ {p} : pc'[q] = pc[q] /\ reply'[q] = reply[q]
        /\ pc'[p] = "fail"
    BY <1>7 DEF DetachReplied, Takes, TypeOK, ProcTypeOK, modelVars, browserVars, historyVars
  <2>2. reply[p] # NoResult /\ tab[p] \in GoneTabs
    BY <2>1 DEF DebugInv, CallerInv, NoResult, Result
  <2> QED
    BY <1>0, <2>1, <2>2, ProcMoves
<1>8. ASSUME NEW p \in Procs, Allocate(p) PROVE DebugInv'
  <2>1. /\ pc[p] = "allocate" /\ pc'[p] = "commit"
        /\ UNCHANGED <<sessions, attaching, debugged, unsure, missed, cmds, inbox, tab, reply>>
        /\ \A q \in Procs \ {p} : pc'[q] = pc[q]
    BY <1>8 DEF Allocate, TypeOK, ProcTypeOK, browserVars, historyVars
  <2>2. /\ SoundTabs' = SoundTabs /\ reply[p] = NoResult /\ tab[p] \in SoundTabs \cap CleanTabs
    BY <2>1 DEF DebugInv, CallInv, CallerInv, SoundTabs, LostTabs, Lost, Pending, Sending
  <2> QED
    BY <1>0, <2>1, <2>2, ProcMoves DEF Sending
<1>9. ASSUME NEW p \in Procs, Commit(p) PROVE DebugInv'
  <2>1. /\ pc[p] = "commit" /\ pc'[p] = "emit" /\ tab' = tab /\ tab[p] \in Tabs
        /\ \A q \in Procs \ {p} : pc'[q] = pc[q]
        /\ UNCHANGED <<debugged, missed, unsure, cmds, inbox>>
        /\ WakeWaiters(tab[p], "ok")
    BY <1>9 DEF Commit, TypeOK, ProcTypeOK, Attacking, browserVars
  <2>2. /\ sessions'[tab[p]] = sid[p]
        /\ \A t \in Tabs \ {tab[p]} : sessions'[t] = sessions[t] /\ attaching'[t] = attaching[t]
    BY <1>9, <2>1 DEF Commit, TypeOK, ModelTypeOK
  <2>3. sid[p] # 0 /\ reply[p] = NoResult /\ tab[p] \in SoundTabs \cap CleanTabs
    BY <2>1 DEF SidInv, Holders, DebugInv, CallInv, CallerInv, Sending
  <2>4. /\ \A q \in Procs : reply'[q] = reply[q] \/ pc[q] = "wait"
        /\ reply'[p] = reply[p]
    BY <2>1 DEF WakeWaiters, Waiters
  <2> QED
    BY <2>1, <2>2, <2>3, <2>4, QuietCalls DEF Sending
<1>10. ASSUME NEW p \in Procs, Fail(p) PROVE DebugInv'
  <2>1. /\ pc[p] = "fail" /\ tab[p] \in Tabs /\ {} \in SUBSET Tabs /\ Proceeds(p, {})
        /\ UNCHANGED <<sessions, debugged, missed, unsure, cmds, inbox>>
        /\ WakeWaiters(tab[p], "error")
    BY <1>10 DEF Fail, Aborts, TypeOK, ProcTypeOK, Attacking, browserVars
  <2>2. /\ pc'[p] \in {"enter", "idle"}
        /\ \A q \in Procs \ {p} : pc'[q] = pc[q] /\ tab'[q] = tab[q]
    BY <2>1, ProceedsTyped DEF TypeOK
  <2>3. /\ sessions[tab[p]] = 0 /\ \A t \in Tabs \ {tab[p]} : attaching'[t] = attaching[t]
    BY <1>10, <2>1, OneAttacker DEF Fail, TypeOK, ModelTypeOK, Attacking
  <2>4. reply[p] = NoResult /\ tab[p] \in GoneTabs
    BY <2>1 DEF DebugInv, CallInv, CallerInv, Sending
  <2>5. /\ \A q \in Procs : reply'[q] = reply[q] \/ pc[q] = "wait"
        /\ reply'[p] = reply[p]
    BY <2>1 DEF WakeWaiters, Waiters
  <2> QED
    BY <2>1, <2>2, <2>3, <2>4, <2>5, QuietCalls DEF Sending
<1>11. ASSUME NEW p \in Procs, EmitAttached(p) PROVE DebugInv'
  <2>1. \E rest \in SUBSET Tabs : Proceeds(p, rest)
    BY <1>11 DEF EmitAttached, Aborts, Procs, TypeOK, ModelTypeOK, ProcTypeOK
  <2>2. /\ p \in Procs /\ pc'[p] \in {"enter", "idle"}
        /\ \A q \in Procs \ {p} : pc'[q] = pc[q] /\ tab'[q] = tab[q]
    BY <2>1, ProceedsTyped DEF TypeOK, Procs
  <2>3. /\ pc[p] = "emit" /\ UNCHANGED <<sessions, attaching, debugged, missed, unsure, cmds, inbox>>
        /\ \A q \in Procs \ {p} : reply'[q] = reply[q]
    BY <1>11 DEF EmitAttached, StartsOp, Takes, TypeOK, ProcTypeOK, modelVars, browserVars, historyVars
  <2>4. reply'[p] = NoResult
    BY <1>11, <2>2, <2>3 DEF EmitAttached, Takes, TypeOK, ProcTypeOK, DebugInv, CallInv, Sending
  <2> QED
    BY <2>2, <2>3, <2>4, QuietCalls DEF Sending
<1>12. ASSUME NEW p \in Procs, CreateReplied(p) PROVE DebugInv'
  <2>1. /\ pc[p] = "create" /\ pc'[p] \in {"enter", "idle"}
        /\ \A q \in Procs \ {p} :
               (pc'[q] = pc[q] /\ tab'[q] = tab[q]) \/ (pc[q] = "idle" /\ pc'[q] = "enter")
    BY <1>12, CreateMoves
  <2>2. /\ reply[p] # NoResult /\ reply'[p] = NoResult /\ \A q \in Procs \ {p} : reply'[q] = reply[q]
        /\ UNCHANGED <<sessions, attaching, debugged, missed, unsure, cmds, inbox>>
    BY <1>12 DEF CreateReplied, Takes, TypeOK, ProcTypeOK, NoResult, Result, browserVars, historyVars
  <2>3. \A q \in Procs : pc[q] = "idle" => reply[q] = NoResult
    BY DEF DebugInv, CallInv, Sending
  <2> QED
    BY <2>1, <2>2, <2>3, QuietCalls DEF Sending
<1>13. ASSUME NEW p \in Procs, RemoveReplied(p) PROVE DebugInv'
  <2>1. /\ pc'[p] = "idle" /\ UNCHANGED tab
        /\ \A q \in Procs \ {p} : pc'[q] = pc[q] /\ reply'[q] = reply[q]
        /\ reply[p] # NoResult /\ reply'[p] = NoResult
        /\ UNCHANGED <<sessions, attaching, debugged, missed, unsure, cmds, inbox>>
    BY <1>13 DEF RemoveReplied, Takes, TypeOK, ProcTypeOK, NoResult, Result, modelVars, browserVars, historyVars
  <2> QED
    BY <2>1, QuietCalls
<1>14. ASSUME NEW p \in Procs, Expires(p) PROVE DebugInv'
  BY <1>0, <1>14, ExpiresDebug
<1>15. ASSUME NEW p \in Clients, WaitCancelled(p) PROVE DebugInv'
  <2>1. \E rest \in SUBSET Tabs : Proceeds(p, rest)
    BY <1>15 DEF WaitCancelled, Aborts, Procs, TypeOK, ModelTypeOK, ProcTypeOK
  <2>2. /\ p \in Procs /\ pc'[p] \in {"enter", "idle"}
        /\ \A q \in Procs \ {p} : pc'[q] = pc[q] /\ tab'[q] = tab[q]
    BY <2>1, ProceedsTyped DEF TypeOK, Procs
  <2>3. /\ pc[p] = "wait" /\ UNCHANGED <<sessions, attaching, debugged, missed, unsure, cmds, inbox>>
        /\ \A q \in Procs \ {p} : reply'[q] = reply[q]
    BY <1>15 DEF WaitCancelled, StartsOp, Takes, TypeOK, ProcTypeOK, modelVars, browserVars, historyVars
  <2>4. reply'[p] = NoResult
    BY <1>15, <2>2, <2>3 DEF WaitCancelled, Takes, TypeOK, ProcTypeOK, DebugInv, CallInv, Sending
  <2> QED
    BY <2>2, <2>3, <2>4, QuietCalls DEF Sending
<1>16. ASSUME NEW p \in Clients, EnableAutoAttach(p) PROVE DebugInv'
  <2>1. \E rest \in SUBSET Tabs : Proceeds(p, rest)
    BY <1>16 DEF EnableAutoAttach, Aborts, Procs, TypeOK, ModelTypeOK, ProcTypeOK
  <2>2. /\ p \in Procs /\ pc'[p] \in {"enter", "idle"}
        /\ \A q \in Procs \ {p} : pc'[q] = pc[q] /\ tab'[q] = tab[q]
    BY <2>1, ProceedsTyped DEF TypeOK, Procs
  <2>3. /\ pc[p] = "idle" /\ UNCHANGED <<sessions, attaching, debugged, missed, unsure, cmds, inbox>>
        /\ \A q \in Procs \ {p} : reply'[q] = reply[q]
    BY <1>16 DEF EnableAutoAttach, StartsOp, Takes, TypeOK, ProcTypeOK, modelVars, browserVars, historyVars
  <2>4. reply'[p] = NoResult
    BY <1>16, <2>2, <2>3 DEF EnableAutoAttach, Takes, TypeOK, ProcTypeOK, DebugInv, CallInv, Sending
  <2> QED
    BY <2>2, <2>3, <2>4, QuietCalls DEF Sending
<1>17. ASSUME NEW p \in Clients, CreateTarget(p) PROVE DebugInv'
  <2>1. /\ p \in Procs /\ pc[p] = "idle" /\ pc'[p] = "create"
        /\ UNCHANGED <<sessions, attaching, debugged, unsure, missed, inbox, tab, reply>>
        /\ \A q \in Procs \ {p} : pc'[q] = pc[q]
        /\ cmds' = cmds \cup {Command(p, "create", NoOne)}
    BY <1>17 DEF CreateTarget, StartsOp, Sends, Procs, TypeOK, ProcTypeOK, modelVars, historyVars
  <2>2. /\ \A c \in cmds' \ cmds : c.by = p /\ c.what = "create"
        /\ \A c, d \in cmds' \ cmds : c = d
        /\ cmds \subseteq cmds'
    BY <2>1 DEF Command
  <2>3. reply[p] = NoResult
    BY <2>1 DEF DebugInv, CallInv, Sending
  <2> QED
    BY <1>0, <2>1, <2>2, <2>3, ProcMoves DEF Sending, Attacking
<1>18. ASSUME NEW p \in Clients, CloseTarget(p) PROVE DebugInv'
  <2>1. /\ p \in Procs /\ pc[p] = "idle" /\ pc'[p] = "remove"
        /\ UNCHANGED <<sessions, attaching, debugged, unsure, missed, inbox, tab, reply>>
        /\ \A q \in Procs \ {p} : pc'[q] = pc[q]
        /\ \E t \in Tabs : cmds' = cmds \cup {Command(p, "remove", t)}
    BY <1>18 DEF CloseTarget, StartsOp, Sends, Procs, TypeOK, ProcTypeOK, modelVars, historyVars
  <2>2. /\ \A c \in cmds' \ cmds : c.by = p /\ c.what = "remove"
        /\ \A c, d \in cmds' \ cmds : c = d
        /\ cmds \subseteq cmds'
    BY <2>1 DEF Command
  <2>3. reply[p] = NoResult
    BY <2>1 DEF DebugInv, CallInv, Sending
  <2> QED
    BY <1>0, <2>1, <2>2, <2>3, ProcMoves DEF Sending, Attacking
<1>19. CASE ReadReply
  BY <1>0, <1>19, ReadReplyDebug
<1>20. CASE OnTabCreated
  <2>1. Reads("created") /\ Head(inbox).tab \in Tabs /\ Knows(Head(inbox).tab, pc, tab)
    BY <1>20, HeadTyped DEF OnTabCreated, TypeOK
  <2>2. \A q \in Procs : (pc'[q] = pc[q] /\ tab'[q] = tab[q]) \/ (pc[q] = "idle" /\ pc'[q] = "enter")
    BY <2>1, KnowsTyped DEF TypeOK, ModelTypeOK, ProcTypeOK, PCs
  <2>3. UNCHANGED <<sessions, attaching, debugged, missed, unsure, cmds, reply>>
    BY <1>20 DEF OnTabCreated, historyVars
  <2> QED
    BY <1>0, <2>1, <2>2, <2>3, EventDebug
<1>21. CASE OnTabRemoved
  <2>1. Reads("removed") /\ Head(inbox).tab \in Tabs /\ DetachTab(Head(inbox).tab)
    BY <1>21, HeadTyped DEF OnTabRemoved, TypeOK
  <2>2. UNCHANGED <<attaching, debugged, unsure, cmds, pc, tab, reply>>
    BY <1>21 DEF OnTabRemoved, procVars
  <2> QED
    BY <1>0, <2>1, <2>2, EventDebug
<1>22. CASE OnDebuggerDetach
  <2>1. Reads("detach") /\ Head(inbox).tab \in Tabs /\ DetachTab(Head(inbox).tab)
    BY <1>22, HeadTyped DEF OnDebuggerDetach, TypeOK
  <2>2. UNCHANGED <<attaching, debugged, unsure, cmds, pc, tab, reply>>
    BY <1>22 DEF OnDebuggerDetach, procVars
  <2> QED
    BY <1>0, <2>1, <2>2, EventDebug
<1>23. CASE EmitDetached
  <2>1. UNCHANGED <<sessions, attaching, debugged, missed, unsure, cmds, inbox, pc, tab, reply>>
    BY <1>23 DEF EmitDetached, modelVars, procVars, browserVars, historyVars
  <2> QED
    BY <2>1, QuietCalls
<1>24. ASSUME NEW c \in cmds, Execute(c) PROVE DebugInv'
  BY <1>0, <1>24, ExecuteDebug
<1>25. ASSUME NEW t \in Tabs, UserOpens(t) \/ UserCloses(t) \/ UserDetaches(t) PROVE DebugInv'
  BY <1>0, <1>25, UserDebug
<1>26. CASE UNCHANGED vars
  <2>1. UNCHANGED <<sessions, attaching, debugged, missed, unsure, cmds, inbox, pc, tab, reply>>
    BY <1>26 DEF vars, modelVars, procVars, browserVars, historyVars
  <2> QED
    BY <2>1, QuietCalls
<1> QED
  BY <1>1, <1>2, <1>3, <1>4, <1>5, <1>6, <1>7, <1>8, <1>9, <1>10, <1>11, <1>12, <1>13, <1>14, <1>15, <1>16, <1>17, <1>18, <1>19, <1>20, <1>21, <1>22, <1>23, <1>24, <1>25, <1>26
  DEF Next, ProcStep, AttachTab, Reader, User, Procs

(***************************************************************************)
(* The implementation of SessionLife: a session that the reader still has  *)
(* to report as detached is one there has been.                            *)
(***************************************************************************)
EndInv == emitting # 0 => emitting \in Lived

LEMMA EndInit == Init => EndInv
  BY DEF Init, EndInv

\* Only a commit adds a session: to report one as attached keeps it.
LEMMA LivedMoves ==
    ASSUME TypeOK, SidInv, NEW p \in Procs
    PROVE  /\ Commit(p) => Lived' = Lived \cup {sid[p]} /\ sid[p] \notin Lived \cup {0}
           /\ EmitAttached(p) => Lived' = Lived /\ sid[p] \in Lived
           /\ Allocate(p) => Lived' = Lived
<1>1. sid \in [Procs -> Nat] /\ pc \in [Procs -> PCs]
  BY DEF TypeOK, ProcTypeOK, PCs
<1>2. ASSUME Commit(p) PROVE Lived' = Lived \cup {sid[p]} /\ sid[p] \notin Lived \cup {0}
  <2>1. pc[p] = "commit" /\ pc' = [pc EXCEPT ![p] = "emit"] /\ UNCHANGED <<sid, attached>>
    BY <1>2 DEF Commit, viewVars
  <2>2. sid[p] # 0 /\ sid[p] \notin attached
    BY <2>1 DEF SidInv, Holders
  <2>3. \A q \in Procs : pc[q] = "emit" => sid[q] # sid[p]
    BY <2>1, <2>2 DEF SidInv
  <2> QED
    BY <1>1, <2>1, <2>2, <2>3 DEF Lived
<1>3. ASSUME EmitAttached(p) PROVE Lived' = Lived /\ sid[p] \in Lived
  <2>1. /\ pc[p] = "emit" /\ attached' = attached \cup {sid[p]} /\ sid' = [sid EXCEPT ![p] = 0]
        /\ Proceeds(p, todo[p])
    BY <1>3 DEF EmitAttached
  <2>2. pc'[p] \in {"enter", "idle"} /\ \A q \in Procs \ {p} : pc'[q] = pc[q]
    BY <2>1, ProceedsTyped DEF TypeOK, ProcTypeOK
  <2> QED
    BY <1>1, <2>1, <2>2 DEF Lived
<1>4. ASSUME Allocate(p) PROVE Lived' = Lived
  <2>1. /\ pc[p] = "allocate" /\ pc' = [pc EXCEPT ![p] = "commit"]
        /\ sid' = [sid EXCEPT ![p] = nextID] /\ UNCHANGED attached
    BY <1>4 DEF Allocate, viewVars
  <2> QED
    BY <1>1, <2>1 DEF Lived
<1> QED
  BY <1>2, <1>3, <1>4

LEMMA LifeInit == Init => Life!Init
  BY DEF Init, Life!Init, Lived

\* A commit begins a session, a loss finishes one, the two emits tell of it.
LEMMA LifeStep ==
    ASSUME TypeOK, AttachInv, SidInv, EventsAgree, EndInv, [Next]_vars
    PROVE  [Life!Next]_(Life!vars) /\ EndInv'
<1> USE DEF Life!vars
<1>1. CASE Quiet
  <2>1. Lived' = Lived
    BY <1>1 DEF Quiet, Lived, Holders
  <2> QED
    BY <1>1, <2>1 DEF Quiet, EndInv
<1>2. ASSUME NEW p \in Procs, Allocate(p) PROVE [Life!Next]_(Life!vars) /\ EndInv'
  BY <1>2, LivedMoves DEF Allocate, viewVars, EndInv
<1>3. ASSUME NEW p \in Procs, Commit(p) PROVE [Life!Next]_(Life!vars) /\ EndInv'
  <2>1. /\ pc[p] = "commit" /\ sessions' = [sessions EXCEPT ![tab[p]] = sid[p]]
        /\ UNCHANGED <<emitting, attached, detached>>
    BY <1>3 DEF Commit, viewVars
  <2>2. tab[p] \in Tabs /\ sessions[tab[p]] = 0 /\ sessions \in [Tabs -> Nat]
    BY <2>1, BrowserAssumption DEF AttachInv, TypeOK, ModelTypeOK, ProcTypeOK, Attacking, Procs
  <2>3. Lived' = Lived \cup {sid[p]} /\ sid[p] \notin Lived \cup {0}
    BY <1>3, LivedMoves
  <2>4. Life!Begins(tab[p])
    BY <2>1, <2>2, <2>3 DEF Life!Begins
  <2> QED
    BY <2>1, <2>2, <2>3, <2>4 DEF Life!Next, EndInv
<1>4. ASSUME NEW p \in Procs, EmitAttached(p) PROVE [Life!Next]_(Life!vars) /\ EndInv'
  <2>1. attached' = attached \cup {sid[p]} /\ UNCHANGED <<sessions, emitting, detached>>
    BY <1>4 DEF EmitAttached, modelVars
  <2>2. Lived' = Lived /\ sid[p] \in Lived
    BY <1>4, LivedMoves
  <2>3. Life!IsTold(sid[p])
    BY <2>1, <2>2 DEF Life!IsTold
  <2> QED
    BY <2>1, <2>2, <2>3 DEF Life!Next, EndInv
<1>5. ASSUME NEW t \in Tabs, DetachTab(t), UNCHANGED <<sid, pc, attached, detached>>
      PROVE  [Life!Next]_(Life!vars) /\ EndInv'
  <2>1. sessions' = [sessions EXCEPT ![t] = 0] /\ emitting' = sessions[t]
    BY <1>5 DEF DetachTab
  <2>2. Lived' = Lived
    BY <1>5 DEF Lived
  <2>3. sessions[t] # 0 => sessions[t] \in Lived
    BY DEF EventsAgree, Lived
  <2>4. Life!Finishes(t)
    BY <1>5, <2>1, <2>2 DEF Life!Finishes
  <2> QED
    BY <2>1, <2>2, <2>3, <2>4 DEF Life!Next, EndInv
<1>6. CASE OnTabRemoved
  BY <1>5, <1>6, HeadTyped DEF OnTabRemoved, procVars, viewVars, TypeOK
<1>7. CASE OnDebuggerDetach
  BY <1>5, <1>7, HeadTyped DEF OnDebuggerDetach, procVars, viewVars, TypeOK
<1>8. CASE EmitDetached
  <2>1. /\ emitting # 0 /\ detached' = detached \cup {emitting} /\ emitting' = 0
        /\ UNCHANGED <<sessions, attached, sid, pc>>
    BY <1>8 DEF EmitDetached, modelVars, procVars
  <2>2. Lived' = Lived /\ emitting \in Lived
    BY <2>1 DEF Lived, EndInv
  <2>3. \A t \in Tabs : sessions[t] # emitting
    BY <2>1 DEF EventsAgree
  <2>4. Life!IsOver(emitting)
    BY <2>1, <2>2, <2>3 DEF Life!IsOver
  <2> QED
    BY <2>1, <2>2, <2>4 DEF Life!Next, EndInv
<1> QED
  BY <1>1, <1>2, <1>3, <1>4, <1>6, <1>7, <1>8, QuietOrSid DEF SidStep

(***************************************************************************)
(* The results.                                                            *)
(***************************************************************************)
IInv == TypeOK /\ AttachInv /\ SidInv /\ EventsAgree /\ NoTabMissed /\ DebugInv /\ EndInv

LEMMA Invariance == Spec => []IInv
<1>1. Init => IInv
  BY TypeInit, AttachInit, SidInit, EventsInit, MissedInit, DebugInit, EndInit DEF IInv
<1>2. IInv /\ [Next]_vars => IInv'
  BY TypeNext, AttachNext, SidNext, EventsNext, MissedNext, DebugNext, LifeStep DEF IInv
<1> QED
  BY <1>1, <1>2, PTL DEF Spec

\* A tab gets its session from a commit of its only attach: it had none, and
\* the id has been allocated but neither installed nor reported.
LEMMA FreshStep ==
    ASSUME IInv, [Next]_vars, NEW t \in Tabs, sessions'[t] # sessions[t], sessions'[t] # 0
    PROVE  /\ sessions[t] = 0
           /\ sessions'[t] \notin attached \cup detached
           /\ \A u \in Tabs \ {t} : sessions[u] # sessions'[t]
<1> USE DEF IInv
<1>1. CASE Quiet
  BY <1>1 DEF Quiet
<1>2. ASSUME NEW p \in Procs, Allocate(p) PROVE FALSE
  BY <1>2 DEF Allocate
<1>3. ASSUME NEW p \in Procs, EmitAttached(p) PROVE FALSE
  BY <1>3 DEF EmitAttached, modelVars
<1>4. CASE EmitDetached
  BY <1>4 DEF EmitDetached, modelVars
<1>5. ASSUME NEW u \in Tabs, DetachTab(u) PROVE FALSE
  BY <1>5 DEF DetachTab, TypeOK, ModelTypeOK
<1>6. CASE OnTabRemoved
  BY <1>5, <1>6, HeadTyped DEF OnTabRemoved, TypeOK
<1>7. CASE OnDebuggerDetach
  BY <1>5, <1>7, HeadTyped DEF OnDebuggerDetach, TypeOK
<1>8. ASSUME NEW p \in Procs, Commit(p)
      PROVE  /\ sessions[t] = 0
             /\ sessions'[t] \notin attached \cup detached
             /\ \A u \in Tabs \ {t} : sessions[u] # sessions'[t]
  <2>1. pc[p] = "commit" /\ sessions' = [sessions EXCEPT ![tab[p]] = sid[p]]
    BY <1>8 DEF Commit
  <2>2. t = tab[p] /\ sessions'[t] = sid[p]
    BY <2>1 DEF TypeOK, ModelTypeOK
  <2>3. sessions[t] = 0
    BY <2>1, <2>2, BrowserAssumption DEF AttachInv, Attacking, Procs
  <2> QED
    BY <2>1, <2>2, <2>3 DEF SidInv
<1> QED
  BY <1>1, <1>2, <1>3, <1>4, <1>6, <1>7, <1>8, QuietOrSid DEF SidStep

\* Every variable keeps its type, and whoever works on a tab has one.
THEOREM TypeCorrect == Spec => []TypeOK
<1>1. IInv => TypeOK
  BY DEF IInv
<1> QED
  BY <1>1, Invariance, PTL

\* However many goroutines want a tab, at most one sends the attach commands.
THEOREM OneAttachPerTab == Spec => []SingleFlight
<1>1. IInv => SingleFlight
  BY DEF IInv, AttachInv, SingleFlight
<1> QED
  BY <1>1, Invariance, PTL

\* The CDP client's view of the sessions agrees with the model's at all times,
\* up to the one event that each goroutine still has to emit.
THEOREM ViewAgrees == Spec => []EventsAgree
<1>1. IInv => EventsAgree
  BY DEF IInv
<1> QED
  BY <1>1, Invariance, PTL

\* Once auto-attach is on, no known tab is left without anyone to attach it.
THEOREM AllTabsCaredFor == Spec => []NoTabMissed
<1>1. IInv => NoTabMissed
  BY DEF IInv
<1> QED
  BY <1>1, Invariance, PTL

\* A session is never replaced, and a new one has an id never used before.
THEOREM FreshSessions == Spec => SessionsAreFresh
<1>1. IInv /\ [Next]_vars =>
          [\A t \in Tabs :
              sessions'[t] # sessions[t] /\ sessions'[t] # 0 =>
                  /\ sessions[t] = 0
                  /\ sessions'[t] \notin attached \cup detached
                  /\ \A u \in Tabs \ {t} : sessions[u] # sessions'[t]]_vars
  BY FreshStep
<1> QED
  BY <1>1, Invariance, PTL DEF Spec, SessionsAreFresh

LEMMA EndStep ==
    ASSUME TypeOK, AttachInv, DebugInv, [Next]_vars, NEW t \in Tabs, sessions[t] # 0, sessions'[t] = 0
    PROVE  t \notin debugged \/ t \in unsure
<1>1. CASE Quiet
  BY <1>1 DEF Quiet
<1>2. ASSUME NEW p \in Procs, Allocate(p) \/ EmitAttached(p) PROVE FALSE
  BY <1>2 DEF Allocate, EmitAttached, modelVars
<1>3. ASSUME NEW p \in Procs, Commit(p) PROVE FALSE
  <2>1. tab[p] \in Tabs /\ sessions[tab[p]] = 0
    BY <1>3, OneAttacker DEF Commit, Attacking
  <2> QED
    BY <1>3, <2>1 DEF Commit, TypeOK, ModelTypeOK
<1>4. CASE EmitDetached
  BY <1>4 DEF EmitDetached, modelVars
<1>5. ASSUME NEW kind \in {"removed", "detach"}, Reads(kind), DetachTab(Head(inbox).tab)
      PROVE  t \notin debugged \/ t \in unsure
  <2>1. t = Head(inbox).tab
    BY <1>5, HeadTyped DEF DetachTab, TypeOK, ModelTypeOK
  <2>2. 1 \in DOMAIN inbox /\ inbox[1].kind = kind /\ inbox[1].tab = t
    BY <1>5, <2>1, TailParts DEF TypeOK
  <2>3. t \in LostTabs /\ t \in CleanTabs
    BY <2>2 DEF LostTabs, Lost, Pending, DebugInv, SessionInv
  <2> QED
    BY <2>3 DEF CleanTabs, GoneTabs
<1> QED
  BY <1>1, <1>2, <1>3, <1>4, <1>5, QuietOrSid DEF SidStep, OnTabRemoved, OnDebuggerDetach

\* A session belongs to a tab we debug, but for losses still to be read, losses
\* read while the attach was under way, and commands that have expired.
THEOREM SessionsHaveDebuggers == Spec => []SessionsAreReal
<1>1. IInv => SessionsAreReal
  BY DEF IInv, DebugInv, SessionInv, SessionsAreReal, SoundTabs, LostTabs
<1> QED
  BY <1>1, Invariance, PTL

\* No debugger stays attached to a tab that has neither a session nor an attach
\* under way, unless a command for it expired: attachTab always detaches again.
THEOREM DebuggersHaveSessions == Spec => []NoDebuggerLeak
<1>1. IInv => NoDebuggerLeak
  BY DEF IInv, TypeOK, BrowserTypeOK, DebugInv, SessionInv, NoDebuggerLeak, GoneTabs
<1> QED
  BY <1>1, Invariance, PTL

\* A loss that the reader reads late never ends the session of a later attach.
THEOREM LateLossesHarmless == Spec => OnlyLostSessionsEnd
<1>1. IInv /\ [Next]_vars =>
          [\A t \in Tabs : sessions[t] # 0 /\ sessions'[t] = 0 => t \notin debugged \/ t \in unsure]_vars
  BY EndStep DEF IInv
<1> QED
  BY <1>1, Invariance, PTL DEF Spec, OnlyLostSessionsEnd

\* The routing state of browser_model.go keeps what SessionLife promises: no session id
\* serves twice, and the client learns only of sessions that have begun, and of the end
\* of none that a tab still has.
THEOREM SessionsLiveOnce == Spec => ImplementsSessions
<1>1. IInv /\ [Next]_vars => [Life!Next]_(Life!vars)
  BY LifeStep DEF IInv
<1> QED
  BY <1>1, LifeInit, Invariance, PTL DEF Spec, ImplementsSessions, Life!Spec

==============================================================================
