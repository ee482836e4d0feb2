---------------------------- MODULE BrowserProofs -----------------------------
(* Proofs of Browser's safety properties, for any callers and pages.          *)
EXTENDS Browser, FiniteSetTheorems, SequenceTheorems, TLAPS

(***************************************************************************)
(* The inductive invariant.                                                *)
(***************************************************************************)
Making == {"creating", "created", "refused"}
Leaving == {"cancel", "remove"}
Paged == Making \cup Leaving \cup {"run", "state", "running", "failing", "close"}
Steps == Paged \cup {"idle", "newpage", "closing", "allocating", "serving", "list", "listing"}

\* The variables have their types; whoever makes, uses or closes a page has one.
TypeOK ==
    /\ new \in {"start", "wait", "init", "cleanup", "failed", "up"}
    /\ closed \in BOOLEAN /\ lost \in BOOLEAN /\ watching \in BOOLEAN
    /\ pages \subseteq Pages /\ current \in Pages \cup {NoPage}
    /\ pc \in [Callers -> Steps]
    /\ target \in [Callers -> Pages \cup {NoPage}]
    /\ then \in [Callers -> {"idle", "list", "listing", "closing"}]
    /\ pageOrder \in Seq(Pages) /\ list \in [Callers -> Seq(Pages)]
    /\ todo \subseteq Pages /\ made \subseteq Pages /\ late \subseteq Callers
    /\ \A c \in Callers : pc[c] \in Paged => target[c] \in Pages

\* A session error, once told, stays: b.lost is set by watchDisconnect's one step.
ErrorInv ==
    /\ new # "up" => ~ closed /\ ~ lost /\ ~ watching
    /\ lost => ~ watching
    /\ told # {} => closed \/ lost
    /\ \A c \in Callers : pc[c] = "refused" => closed \/ lost
    /\ \A c \in late : told # {}
    /\ SessionErrorsAreFinal

\* A page goes from the one caller that makes it to b.pages, and leaves that
\* only when it is closed.
PageInv ==
    /\ pages \subseteq handed /\ handed \subseteq made
    /\ pageClosed \subseteq handed /\ handed \ pages \subseteq pageClosed
    /\ todo \subseteq handed
    /\ \A c \in Callers : pc[c] \in Making => target[c] \in made \ handed
    /\ \A c, d \in Callers : pc[c] \in Making /\ pc[d] \in Making /\ target[c] = target[d] => c = d
    /\ \A c \in Callers : pc[c] = "close" => target[c] \in handed

\* b.pageOrder lists the pages, each once.
OrderInv ==
    /\ \A i, j \in DOMAIN pageOrder : pageOrder[i] = pageOrder[j] => i = j
    /\ \A p \in Pages : p \in pages <=> \E i \in DOMAIN pageOrder : pageOrder[i] = p
    /\ IF pages = {} THEN current = NoPage ELSE current \in pages

\* A closed page that is still listed is taken out by the one caller that closed
\* it, which cancels it first.
LeaveInv ==
    /\ \A c \in Callers : pc[c] \in Leaving => target[c] \in pageClosed /\ target[c] \in pages
    /\ \A c, d \in Callers : pc[c] \in Leaving /\ pc[d] \in Leaving /\ target[c] = target[d] => c = d
    /\ \A c \in Callers : pc[c] = "remove" => target[c] \in cancelled
    /\ \A p \in pages : p \in pageClosed => \E c \in Callers : pc[c] \in Leaving /\ target[c] = p

IInv ==
    /\ TypeOK /\ ErrorInv /\ PageInv /\ OrderInv /\ LeaveInv
    /\ CloseMissesNoPage /\ NoTabLeaked

(***************************************************************************)
(* What RemoveFirst does to a sequence without repetition.                 *)
(***************************************************************************)
LEMMA RemoveFirstFacts ==
    ASSUME NEW S, NEW s \in Seq(S), NEW n \in DOMAIN s,
           \A i, j \in DOMAIN s : s[i] = s[j] => i = j
    PROVE  /\ RemoveFirst(s, s[n]) \in Seq(S)
           /\ DOMAIN RemoveFirst(s, s[n]) = 1 .. Len(s) - 1
           /\ Len(RemoveFirst(s, s[n])) = Len(s) - 1
           /\ \A i \in 1 .. Len(s) - 1 : RemoveFirst(s, s[n])[i] = IF i < n THEN s[i] ELSE s[i + 1]
<1>1. Len(s) \in Nat /\ DOMAIN s = 1 .. Len(s) /\ n \in 1 .. Len(s)
  OBVIOUS
<1> DEFINE I == {i \in 1 .. Len(s) : s[i] = s[n]}
<1>2. I = {n}
  BY <1>1
<1>3. Min(I) = n
  BY <1>1, <1>2 DEF Min
<1>4. SelectInSeq(s, LAMBDA v : v = s[n]) = n
  BY <1>2, <1>3 DEF SelectInSeq
<1>5. RemoveFirst(s, s[n]) = RemoveAt(s, n)
  BY <1>1, <1>4 DEF RemoveFirst
<1>6. RemoveAt(s, n) = SubSeq(s, 1, n - 1) \o SubSeq(s, n + 1, Len(s))
  BY DEF RemoveAt
<1> DEFINE a == SubSeq(s, 1, n - 1)
           b == SubSeq(s, n + 1, Len(s))
<1>7. /\ a \in Seq(S) /\ Len(a) = n - 1
      /\ \A i \in 1 .. n - 1 : a[i] = s[i]
  BY <1>1, SubSeqProperties
<1>8. /\ b \in Seq(S) /\ Len(b) = Len(s) - n
      /\ \A i \in 1 .. Len(s) - n : b[i] = s[n + i]
  BY <1>1, SubSeqProperties
<1> HIDE DEF a, b
<1>9. /\ a \o b \in Seq(S) /\ Len(a \o b) = Len(a) + Len(b)
      /\ \A i \in 1 .. Len(a) + Len(b) : (a \o b)[i] = IF i <= Len(a) THEN a[i] ELSE b[i - Len(a)]
  <2>1. a \in Seq(S) /\ b \in Seq(S)
    BY <1>7, <1>8
  <2> QED
    BY <2>1, ConcatProperties, Zenon
<1>10. PICK r : r = a \o b
  OBVIOUS
<1>11. /\ r \in Seq(S) /\ Len(r) = Len(s) - 1
       /\ \A i \in 1 .. Len(s) - 1 : r[i] = IF i <= n - 1 THEN a[i] ELSE b[i - (n - 1)]
  <2>1. Len(a) + Len(b) = Len(s) - 1
    BY <1>1, <1>7, <1>8
  <2>2. /\ r \in Seq(S) /\ Len(r) = Len(a) + Len(b)
        /\ \A i \in 1 .. Len(a) + Len(b) : r[i] = IF i <= Len(a) THEN a[i] ELSE b[i - Len(a)]
    BY <1>9, <1>10
  <2> QED
    BY <1>7, <2>1, <2>2
<1>12. \A i \in 1 .. Len(s) - 1 : r[i] = IF i < n THEN s[i] ELSE s[i + 1]
  <2> SUFFICES ASSUME NEW i \in 1 .. Len(s) - 1
               PROVE  r[i] = IF i < n THEN s[i] ELSE s[i + 1]
    OBVIOUS
  <2>1. CASE i < n
    BY <1>1, <1>7, <1>11, <2>1
  <2>2. CASE ~ (i < n)
    <3>1. i - (n - 1) \in 1 .. Len(s) - n /\ n + (i - (n - 1)) = i + 1 /\ ~ (i <= n - 1)
      BY <1>1, <2>2
    <3>2. r[i] = b[i - (n - 1)]
      BY <1>11, <3>1
    <3>3. b[i - (n - 1)] = s[i + 1]
      BY <1>8, <3>1
    <3> QED
      BY <2>2, <3>2, <3>3
  <2> QED
    BY <2>1, <2>2
<1>13. r = RemoveFirst(s, s[n])
  BY <1>5, <1>6, <1>10 DEF a, b
<1>14. DOMAIN r = 1 .. Len(s) - 1
  BY <1>11
<1> QED
  BY <1>11, <1>12, <1>13, <1>14, Zenon

LEMMA RemovedFacts ==
    ASSUME TypeOK, OrderInv, NEW q, NEW s, s = RemoveFirst(pageOrder, q)
    PROVE  /\ s \in Seq(Pages) /\ DOMAIN s = 1 .. Len(s)
           /\ \A i, j \in DOMAIN s : s[i] = s[j] => i = j
           /\ \A p \in Pages : p \in pages \ {q} <=> \E i \in DOMAIN s : s[i] = p
           /\ s = <<>> => pages \ {q} = {}
           /\ s # <<>> => Last(s) \in pages \ {q}
<1>1. pageOrder \in Seq(Pages) /\ DOMAIN pageOrder = 1 .. Len(pageOrder) /\ Len(pageOrder) \in Nat
  BY DEF TypeOK
<1>2. /\ s \in Seq(Pages)
      /\ \A i, j \in DOMAIN s : s[i] = s[j] => i = j
      /\ \A p \in Pages : p \in pages \ {q} <=> \E i \in DOMAIN s : s[i] = p
  <2>1. CASE \E n \in DOMAIN pageOrder : pageOrder[n] = q
    <3>1. PICK n \in DOMAIN pageOrder : pageOrder[n] = q
      BY <2>1
    <3>2. /\ s \in Seq(Pages) /\ DOMAIN s = 1 .. Len(pageOrder) - 1
          /\ \A i \in 1 .. Len(pageOrder) - 1 : s[i] = IF i < n THEN pageOrder[i] ELSE pageOrder[i + 1]
      <4>1. \A i, j \in DOMAIN pageOrder : pageOrder[i] = pageOrder[j] => i = j
        BY DEF OrderInv
      <4>2. s = RemoveFirst(pageOrder, pageOrder[n])
        BY <3>1
      <4> QED
        BY <1>1, <4>1, <4>2, RemoveFirstFacts
    <3>3. ASSUME NEW i \in DOMAIN s, NEW j \in DOMAIN s, s[i] = s[j] PROVE i = j
      <4> DEFINE x == IF i < n THEN i ELSE i + 1
                 y == IF j < n THEN j ELSE j + 1
      <4>1. x \in 1 .. Len(pageOrder) /\ y \in 1 .. Len(pageOrder) /\ (x = y => i = j)
        BY <1>1, <3>1, <3>2
      <4>2. pageOrder[x] = pageOrder[y]
        BY <3>2, <3>3
      <4>3. x = y
        <5> HIDE DEF x, y
        <5> QED
          BY <1>1, <4>1, <4>2 DEF OrderInv
      <4> QED
        BY <4>1, <4>3
    <3>4. ASSUME NEW p \in Pages PROVE p \in pages \ {q} <=> \E i \in DOMAIN s : s[i] = p
      <4>1. ASSUME NEW i \in DOMAIN s, s[i] = p PROVE p \in pages \ {q}
        <5> DEFINE x == IF i < n THEN i ELSE i + 1
        <5>1. x \in 1 .. Len(pageOrder) /\ x # n
          BY <1>1, <3>1, <3>2
        <5>2. pageOrder[x] = p
          BY <3>2, <4>1
        <5> HIDE DEF x
        <5> QED
          BY <1>1, <3>1, <5>1, <5>2 DEF OrderInv
      <4>2. ASSUME p \in pages, p # q PROVE \E i \in DOMAIN s : s[i] = p
        <5>1. PICK k \in 1 .. Len(pageOrder) : pageOrder[k] = p /\ k # n
          BY <1>1, <3>1, <4>2 DEF OrderInv
        <5>2. CASE k < n
          <6>1. k \in DOMAIN s /\ s[k] = p
            BY <1>1, <3>1, <3>2, <5>1, <5>2
          <6> QED
            BY <6>1
        <5>3. CASE k > n
          <6>1. k - 1 \in DOMAIN s /\ s[k - 1] = p
            BY <1>1, <3>1, <3>2, <5>1, <5>3
          <6> QED
            BY <6>1
        <5> QED
          BY <1>1, <3>1, <5>1, <5>2, <5>3
      <4> QED
        BY <4>1, <4>2
    <3> QED
      BY <3>2, <3>3, <3>4
  <2>2. CASE \A n \in DOMAIN pageOrder : pageOrder[n] # q
    <3>1. s = pageOrder
      BY <1>1, <2>2 DEF RemoveFirst
    <3> QED
      BY <1>1, <2>2, <3>1 DEF OrderInv
  <2> QED
    BY <2>1, <2>2
<1>3. DOMAIN s = 1 .. Len(s) /\ Len(s) \in Nat
  BY <1>2
<1>4. s = <<>> => pages \ {q} = {}
  BY <1>2 DEF TypeOK
<1>5. ASSUME s # <<>> PROVE Last(s) \in pages \ {q}
  <2>1. Len(s) \in DOMAIN s /\ s[Len(s)] \in Pages
    BY <1>2, <1>3, <1>5, EmptySeq
  <2> QED
    BY <1>2, <2>1 DEF Last
<1> QED
  BY <1>2, <1>3, <1>4, <1>5

(***************************************************************************)
(* Type correctness.                                                       *)
(***************************************************************************)
LEMMA SucceedsFacts ==
    ASSUME TypeOK, NEW c \in Callers, Succeeds(c)
    PROVE  /\ pc'[c] \in {"idle", "list", "listing", "closing"}
           /\ \A d \in Callers : d # c => pc'[d] = pc[d]
  BY DEF TypeOK, Succeeds

LEMMA TypeInit == Init => TypeOK
<1>1. <<>> \in Seq(Pages)
  BY EmptySeq
<1> QED
  BY <1>1 DEF Init, TypeOK, Steps, Paged, Making, Leaving

LEMMA TypeNext == TypeOK /\ OrderInv /\ [Next]_vars => TypeOK'
<1> SUFFICES ASSUME TypeOK, OrderInv, [Next]_vars PROVE TypeOK'
  OBVIOUS
<1> USE BrowserAssumption
        DEF newVars, flagVars, tabVars, goneVars, workVars, callVars, historyVars,
            TypeOK, Steps, Paged, Making, Leaving
<1>1. CASE Launch
  BY <1>1 DEF Launch
<1>2. CASE WaitReady
  BY <1>2 DEF WaitReady
<1>3. CASE InitFails
  BY <1>3 DEF InitFails
<1>4. CASE InitSucceeds
  BY <1>4 DEF InitSucceeds
<1>5. CASE Cleanup
  BY <1>5 DEF Cleanup
<1>6. CASE ExtensionReady
  BY <1>6 DEF ExtensionReady
<1>7. CASE ExtensionLost
  BY <1>7 DEF ExtensionLost
<1>8. CASE WatchDisconnect
  BY <1>8 DEF WatchDisconnect
<1>9. ASSUME NEW c \in Callers, CallNewPage(c) PROVE TypeOK'
  BY <1>9 DEF CallNewPage, Calls, At
<1>10. ASSUME NEW c \in Callers, CallNavigate(c) PROVE TypeOK'
  BY <1>10 DEF CallNavigate, Calls, At
<1>11. ASSUME NEW c \in Callers, NavigateRefused(c) PROVE TypeOK'
  BY <1>11 DEF NavigateRefused, Calls, At, StateError
<1>12. ASSUME NEW c \in Callers, CallClose(c) PROVE TypeOK'
  BY <1>12 DEF CallClose, Calls, At
<1>13. ASSUME NEW c \in Callers, TabsList(c) PROVE TypeOK'
  BY <1>13 DEF TabsList, Calls, At
<1>14. ASSUME NEW c \in Callers, NEW p \in Pages, CallRun(c, p) PROVE TypeOK'
  BY <1>14 DEF CallRun, Calls, At
<1>15. ASSUME NEW c \in Callers, NEW p \in Pages, CallClosePage(c, p) PROVE TypeOK'
  BY <1>15 DEF CallClosePage, Calls, At
<1>16. ASSUME NEW c \in Callers, NEW p \in Pages, TabsClose(c, p) PROVE TypeOK'
  BY <1>16 DEF TabsClose, Calls, At
<1>17. ASSUME NEW c \in Callers, NEW p \in Pages, TabsSelect(c, p) PROVE TypeOK'
  BY <1>17 DEF TabsSelect, Calls, At
<1>18. ASSUME NEW c \in Callers, StateRefuses(c) PROVE TypeOK'
  BY <1>18 DEF StateRefuses, Tells, StateError
<1>19. ASSUME NEW c \in Callers, NEW p \in Pages, NewPageBegins(c, p) PROVE TypeOK'
  BY <1>19 DEF NewPageBegins, At
<1>20. ASSUME NEW c \in Callers, CreateFails(c) PROVE TypeOK'
  BY <1>20 DEF CreateFails, At
<1>21. ASSUME NEW c \in Callers, CreateSucceeds(c) PROVE TypeOK'
  BY <1>21 DEF CreateSucceeds, At
<1>22. ASSUME NEW c \in Callers, FinishNewPage(c) PROVE TypeOK'
  <2>1. CASE StateError = "ok"
    <3>1. target[c] \in Pages /\ pageOrder' = Append(pageOrder, target[c])
      BY <1>22, <2>1 DEF FinishNewPage, RegisterPage
    <3>2. pageOrder' \in Seq(Pages)
      BY <3>1, AppendProperties
    <3> QED
      BY <1>22, <2>1, <3>1, <3>2 DEF FinishNewPage, RegisterPage, Succeeds
  <2>2. CASE StateError # "ok"
    BY <1>22, <2>2 DEF FinishNewPage
  <2> QED
    BY <2>1, <2>2
<1>23. ASSUME NEW c \in Callers, Refuse(c) PROVE TypeOK'
  BY <1>23 DEF Refuse, Tells, StateError
<1>24. ASSUME NEW c \in Callers, RunChecksPage(c) PROVE TypeOK'
  BY <1>24 DEF RunChecksPage, At, Closed
<1>25. ASSUME NEW c \in Callers, RunBegins(c) PROVE TypeOK'
  BY <1>25 DEF RunBegins, At
<1>26. ASSUME NEW c \in Callers, RunSucceeds(c) PROVE TypeOK'
  BY <1>26 DEF RunSucceeds, Succeeds
<1>27. ASSUME NEW c \in Callers, RunFails(c) PROVE TypeOK'
  BY <1>27 DEF RunFails, At
<1>28. ASSUME NEW c \in Callers, RunReturns(c) PROVE TypeOK'
  BY <1>28 DEF RunReturns, Tells, StateError
<1>29. ASSUME NEW c \in Callers, ListBegins(c) PROVE TypeOK'
  BY <1>29 DEF ListBegins, At
<1>30. ASSUME NEW c \in Callers, ListNext(c) PROVE TypeOK'
  BY <1>30 DEF ListNext, At
<1>31. ASSUME NEW c \in Callers, ListReturns(c) PROVE TypeOK'
  BY <1>31 DEF ListReturns, At
<1>32. ASSUME NEW c \in Callers, ClosePage(c) PROVE TypeOK'
  BY <1>32 DEF ClosePage, Closed, Succeeds
<1>33. ASSUME NEW c \in Callers, CancelPage(c) PROVE TypeOK'
  BY <1>33 DEF CancelPage, At
<1>34. ASSUME NEW c \in Callers, RemovePage(c) PROVE TypeOK'
  <2>1. /\ pageOrder' \in Seq(Pages)
        /\ pageOrder' # <<>> => Last(pageOrder') \in Pages
    BY <1>34, RemovedFacts DEF RemovePage
  <2> QED
    BY <1>34, <2>1 DEF RemovePage, Succeeds
<1>35. ASSUME NEW c \in Callers, CloseDown(c) PROVE TypeOK'
  BY <1>35 DEF CloseDown, At
<1>36. ASSUME NEW c \in Callers, NEW p \in Pages, CloseNext(c, p) PROVE TypeOK'
  BY <1>36 DEF CloseNext, At
<1>37. CASE UNCHANGED vars
  BY <1>37 DEF vars
<1> QED
  BY <1>1, <1>2, <1>3, <1>4, <1>5, <1>6, <1>7, <1>8, <1>9, <1>10, <1>11, <1>12, <1>13,
     <1>14, <1>15, <1>16, <1>17, <1>18, <1>19, <1>20, <1>21, <1>22, <1>23, <1>24,
     <1>25, <1>26, <1>27, <1>28, <1>29, <1>30, <1>31, <1>32, <1>33, <1>34, <1>35,
     <1>36, <1>37
  DEF Next, NewStep, Calling, NewPageStep, RunStep, ListStep, ClosingStep

(***************************************************************************)
(* A session error stays.                                                  *)
(***************************************************************************)
LEMMA ErrorKept ==
    ASSUME TypeOK, ErrorInv, NEW c \in Callers, UNCHANGED <<new, closed, lost, watching, told, late>>,
           pc'[c] \notin {"creating", "created", "running"}, pc'[c] = "refused" => closed \/ lost,
           \A d \in Callers : d # c => pc'[d] = pc[d]
    PROVE  ErrorInv'
  BY DEF TypeOK, ErrorInv, SessionErrorsAreFinal

LEMMA ErrorInit == Init => ErrorInv
  BY DEF Init, ErrorInv, SessionErrorsAreFinal

LEMMA ErrorNext == TypeOK /\ ErrorInv /\ [Next]_vars => ErrorInv'
<1> SUFFICES ASSUME TypeOK /\ ErrorInv, [Next]_vars PROVE ErrorInv'
  OBVIOUS
<1> USE DEF newVars, flagVars, tabVars, goneVars, workVars, callVars, historyVars,
            Making, Leaving, Paged, Steps, TypeOK, ErrorInv, SessionErrorsAreFinal,
            StateError
<1>1. CASE Launch
  BY <1>1 DEF Launch
<1>2. CASE WaitReady
  BY <1>2 DEF WaitReady
<1>3. CASE InitFails
  BY <1>3 DEF InitFails
<1>4. CASE InitSucceeds
  BY <1>4 DEF InitSucceeds
<1>5. CASE Cleanup
  BY <1>5 DEF Cleanup
<1>6. CASE ExtensionReady
  BY <1>6 DEF ExtensionReady
<1>7. CASE ExtensionLost
  BY <1>7 DEF ExtensionLost
<1>8. CASE WatchDisconnect
  BY <1>8 DEF WatchDisconnect
<1>9. ASSUME NEW c \in Callers, CallNewPage(c) PROVE ErrorInv'
  BY <1>9 DEF CallNewPage, Calls, At
<1>10. ASSUME NEW c \in Callers, CallNavigate(c) PROVE ErrorInv'
  BY <1>10 DEF CallNavigate, Calls, At
<1>11. ASSUME NEW c \in Callers, NavigateRefused(c) PROVE ErrorInv'
  BY <1>11 DEF NavigateRefused, Calls, At, StateError
<1>12. ASSUME NEW c \in Callers, CallClose(c) PROVE ErrorInv'
  BY <1>12 DEF CallClose, Calls, At
<1>13. ASSUME NEW c \in Callers, TabsList(c) PROVE ErrorInv'
  BY <1>13 DEF TabsList, Calls, At
<1>14. ASSUME NEW c \in Callers, NEW p \in Pages, CallRun(c, p) PROVE ErrorInv'
  BY <1>14 DEF CallRun, Calls, At
<1>15. ASSUME NEW c \in Callers, NEW p \in Pages, CallClosePage(c, p) PROVE ErrorInv'
  BY <1>15 DEF CallClosePage, Calls, At
<1>16. ASSUME NEW c \in Callers, NEW p \in Pages, TabsClose(c, p) PROVE ErrorInv'
  BY <1>16 DEF TabsClose, Calls, At
<1>17. ASSUME NEW c \in Callers, NEW p \in Pages, TabsSelect(c, p) PROVE ErrorInv'
  BY <1>17 DEF TabsSelect, Calls, At
<1>18. ASSUME NEW c \in Callers, StateRefuses(c) PROVE ErrorInv'
  BY <1>18 DEF StateRefuses, Tells, StateError
<1>19. ASSUME NEW c \in Callers, NEW p \in Pages, NewPageBegins(c, p) PROVE ErrorInv'
  BY <1>19 DEF NewPageBegins, At
<1>20. ASSUME NEW c \in Callers, CreateFails(c) PROVE ErrorInv'
  BY <1>20 DEF CreateFails, At
<1>21. ASSUME NEW c \in Callers, CreateSucceeds(c) PROVE ErrorInv'
  BY <1>21 DEF CreateSucceeds, At
<1>22. ASSUME NEW c \in Callers, FinishNewPage(c) PROVE ErrorInv'
  <2>1. /\ pc'[c] \in {"idle", "list", "listing", "closing"} \/ (pc'[c] = "refused" /\ (closed \/ lost))
        /\ \A d \in Callers : d # c => pc'[d] = pc[d]
    BY <1>22, SucceedsFacts DEF FinishNewPage, RegisterPage
  <2> QED
    BY <1>22, <2>1, ErrorKept DEF FinishNewPage
<1>23. ASSUME NEW c \in Callers, Refuse(c) PROVE ErrorInv'
  BY <1>23 DEF Refuse, Tells, StateError
<1>24. ASSUME NEW c \in Callers, RunChecksPage(c) PROVE ErrorInv'
  BY <1>24 DEF RunChecksPage, At, Closed
<1>25. ASSUME NEW c \in Callers, RunBegins(c) PROVE ErrorInv'
  BY <1>25 DEF RunBegins, At
<1>26. ASSUME NEW c \in Callers, RunSucceeds(c) PROVE ErrorInv'
  BY <1>26, SucceedsFacts, ErrorKept DEF RunSucceeds
<1>27. ASSUME NEW c \in Callers, RunFails(c) PROVE ErrorInv'
  BY <1>27 DEF RunFails, At
<1>28. ASSUME NEW c \in Callers, RunReturns(c) PROVE ErrorInv'
  <2>1. CASE StateError = "ok"
    <3>1. pc'[c] = "idle" /\ (\A d \in Callers : d # c => pc'[d] = pc[d]) /\ told' = told
      BY <1>28, <2>1 DEF RunReturns
    <3> QED
      BY <1>28, <3>1, ErrorKept DEF RunReturns
  <2>2. CASE StateError # "ok"
    <3>1. pc'[c] = "idle" /\ (\A d \in Callers : d # c => pc'[d] = pc[d])
      BY <1>28, <2>2 DEF RunReturns, Tells
    <3>2. (closed \/ lost) /\ \E e \in {"closed", "lost"} : told' = told \cup {e}
      BY <1>28, <2>2 DEF RunReturns, Tells
    <3>3. told' # {} /\ "ok" \notin told'
      BY <3>2
    <3>4. UNCHANGED <<new, closed, lost, watching, late>>
      BY <1>28 DEF RunReturns
    <3>5. \A d \in late : pc'[d] \notin {"creating", "created", "running"}
      BY <3>1
    <3>6. \A d \in Callers : pc'[d] = "refused" => pc[d] = "refused"
      BY <3>1
    <3> HIDE DEF TypeOK
    <3> QED
      BY <3>2, <3>3, <3>4, <3>5, <3>6
  <2> QED
    BY <2>1, <2>2
<1>29. ASSUME NEW c \in Callers, ListBegins(c) PROVE ErrorInv'
  BY <1>29 DEF ListBegins, At
<1>30. ASSUME NEW c \in Callers, ListNext(c) PROVE ErrorInv'
  BY <1>30 DEF ListNext, At
<1>31. ASSUME NEW c \in Callers, ListReturns(c) PROVE ErrorInv'
  BY <1>31 DEF ListReturns, At
<1>32. ASSUME NEW c \in Callers, ClosePage(c) PROVE ErrorInv'
  <2>1. /\ pc'[c] \in {"idle", "list", "listing", "closing", "cancel"}
        /\ \A d \in Callers : d # c => pc'[d] = pc[d]
    BY <1>32, SucceedsFacts DEF ClosePage
  <2> QED
    BY <1>32, <2>1, ErrorKept DEF ClosePage
<1>33. ASSUME NEW c \in Callers, CancelPage(c) PROVE ErrorInv'
  BY <1>33 DEF CancelPage, At
<1>34. ASSUME NEW c \in Callers, RemovePage(c) PROVE ErrorInv'
  BY <1>34, SucceedsFacts, ErrorKept DEF RemovePage
<1>35. ASSUME NEW c \in Callers, CloseDown(c) PROVE ErrorInv'
  BY <1>35 DEF CloseDown, At
<1>36. ASSUME NEW c \in Callers, NEW p \in Pages, CloseNext(c, p) PROVE ErrorInv'
  BY <1>36 DEF CloseNext, At
<1>37. CASE UNCHANGED vars
  BY <1>37 DEF vars
<1> QED
  BY <1>1, <1>2, <1>3, <1>4, <1>5, <1>6, <1>7, <1>8, <1>9, <1>10, <1>11, <1>12, <1>13,
     <1>14, <1>15, <1>16, <1>17, <1>18, <1>19, <1>20, <1>21, <1>22, <1>23, <1>24,
     <1>25, <1>26, <1>27, <1>28, <1>29, <1>30, <1>31, <1>32, <1>33, <1>34, <1>35,
     <1>36, <1>37
  DEF Next, NewStep, Calling, NewPageStep, RunStep, ListStep, ClosingStep

(***************************************************************************)
(* Where a page is.                                                        *)
(***************************************************************************)
LEMMA PageInit == Init => PageInv
  BY DEF Init, PageInv, Making

LEMMA PageNext == TypeOK /\ OrderInv /\ LeaveInv /\ PageInv /\ [Next]_vars => PageInv'
<1> SUFFICES ASSUME TypeOK /\ OrderInv /\ LeaveInv /\ PageInv, [Next]_vars PROVE PageInv'
  OBVIOUS
<1> USE DEF newVars, flagVars, tabVars, goneVars, workVars, callVars, historyVars,
            Making, Leaving, Paged, Steps, TypeOK, PageInv
<1>1. CASE Launch
  BY <1>1 DEF Launch
<1>2. CASE WaitReady
  BY <1>2 DEF WaitReady
<1>3. CASE InitFails
  BY <1>3 DEF InitFails
<1>4. CASE InitSucceeds
  BY <1>4 DEF InitSucceeds
<1>5. CASE Cleanup
  BY <1>5 DEF Cleanup
<1>6. CASE ExtensionReady
  BY <1>6 DEF ExtensionReady
<1>7. CASE ExtensionLost
  BY <1>7 DEF ExtensionLost
<1>8. CASE WatchDisconnect
  BY <1>8 DEF WatchDisconnect
<1>9. ASSUME NEW c \in Callers, CallNewPage(c) PROVE PageInv'
  BY <1>9 DEF CallNewPage, Calls, At
<1>10. ASSUME NEW c \in Callers, CallNavigate(c) PROVE PageInv'
  BY <1>10 DEF CallNavigate, Calls, At
<1>11. ASSUME NEW c \in Callers, NavigateRefused(c) PROVE PageInv'
  BY <1>11 DEF NavigateRefused, Calls, At, StateError
<1>12. ASSUME NEW c \in Callers, CallClose(c) PROVE PageInv'
  BY <1>12 DEF CallClose, Calls, At
<1>13. ASSUME NEW c \in Callers, TabsList(c) PROVE PageInv'
  BY <1>13 DEF TabsList, Calls, At
<1>14. ASSUME NEW c \in Callers, NEW p \in Pages, CallRun(c, p) PROVE PageInv'
  BY <1>14 DEF CallRun, Calls, At
<1>15. ASSUME NEW c \in Callers, NEW p \in Pages, CallClosePage(c, p) PROVE PageInv'
  <2>1. /\ pc'[c] = "close" /\ target'[c] = p /\ p \in handed
        /\ \A d \in Callers : d # c => pc'[d] = pc[d] /\ target'[d] = target[d]
    BY <1>15 DEF CallClosePage, Calls, At
  <2> QED
    BY <1>15, <2>1 DEF CallClosePage
<1>16. ASSUME NEW c \in Callers, NEW p \in Pages, TabsClose(c, p) PROVE PageInv'
  <2>1. p \in handed
    BY <1>16, BrowserAssumption DEF TabsClose, OrderInv, ToSet
  <2>2. /\ pc'[c] = "close" /\ target'[c] = p
        /\ \A d \in Callers : d # c => pc'[d] = pc[d] /\ target'[d] = target[d]
    BY <1>16 DEF TabsClose, Calls, At
  <2> QED
    BY <1>16, <2>1, <2>2 DEF TabsClose
<1>17. ASSUME NEW c \in Callers, NEW p \in Pages, TabsSelect(c, p) PROVE PageInv'
  BY <1>17 DEF TabsSelect, Calls, At
<1>18. ASSUME NEW c \in Callers, StateRefuses(c) PROVE PageInv'
  BY <1>18 DEF StateRefuses, Tells, StateError
<1>19. ASSUME NEW c \in Callers, NEW p \in Pages, NewPageBegins(c, p) PROVE PageInv'
  BY <1>19 DEF NewPageBegins, At
<1>20. ASSUME NEW c \in Callers, CreateFails(c) PROVE PageInv'
  BY <1>20 DEF CreateFails, At
<1>21. ASSUME NEW c \in Callers, CreateSucceeds(c) PROVE PageInv'
  BY <1>21 DEF CreateSucceeds, At
<1>22. ASSUME NEW c \in Callers, FinishNewPage(c) PROVE PageInv'
  <2>1. CASE StateError = "ok"
    <3>1. /\ pc'[c] \in {"idle", "list", "listing", "closing"}
          /\ \A d \in Callers : d # c => pc'[d] = pc[d]
      BY <1>22, <2>1, SucceedsFacts DEF FinishNewPage, RegisterPage
    <3>2. target[c] \in made \ handed
      BY <1>22 DEF FinishNewPage
    <3> QED
      <4>1. /\ pages' = pages \cup {target[c]} /\ handed' = handed \cup {target[c]}
            /\ UNCHANGED <<made, pageClosed, todo, target>>
        BY <1>22, <2>1 DEF FinishNewPage, RegisterPage
      <4>2. \A d \in Callers : pc'[d] \in Making => d # c /\ pc[d] \in Making /\ target[d] # target[c]
        BY <1>22, <3>1 DEF FinishNewPage
      <4>3. \A d \in Callers : pc'[d] = "close" => pc[d] = "close"
        BY <3>1
      <4> HIDE DEF TypeOK
      <4> QED
        BY <3>2, <4>1, <4>2, <4>3
  <2>2. CASE StateError # "ok"
    BY <1>22, <2>2 DEF FinishNewPage
  <2> QED
    BY <2>1, <2>2
<1>23. ASSUME NEW c \in Callers, Refuse(c) PROVE PageInv'
  BY <1>23 DEF Refuse, Tells, StateError
<1>24. ASSUME NEW c \in Callers, RunChecksPage(c) PROVE PageInv'
  BY <1>24 DEF RunChecksPage, At, Closed
<1>25. ASSUME NEW c \in Callers, RunBegins(c) PROVE PageInv'
  BY <1>25 DEF RunBegins, At
<1>26. ASSUME NEW c \in Callers, RunSucceeds(c) PROVE PageInv'
  BY <1>26 DEF RunSucceeds, Succeeds
<1>27. ASSUME NEW c \in Callers, RunFails(c) PROVE PageInv'
  BY <1>27 DEF RunFails, At
<1>28. ASSUME NEW c \in Callers, RunReturns(c) PROVE PageInv'
  BY <1>28 DEF RunReturns, Tells, StateError
<1>29. ASSUME NEW c \in Callers, ListBegins(c) PROVE PageInv'
  BY <1>29 DEF ListBegins, At
<1>30. ASSUME NEW c \in Callers, ListNext(c) PROVE PageInv'
  BY <1>30 DEF ListNext, At
<1>31. ASSUME NEW c \in Callers, ListReturns(c) PROVE PageInv'
  BY <1>31 DEF ListReturns, At
<1>32. ASSUME NEW c \in Callers, ClosePage(c) PROVE PageInv'
  <2>1. /\ pc'[c] \in {"idle", "list", "listing", "closing", "cancel"}
        /\ \A d \in Callers : d # c => pc'[d] = pc[d]
    BY <1>32, SucceedsFacts DEF ClosePage
  <2> QED
    BY <1>32, <2>1 DEF ClosePage
<1>33. ASSUME NEW c \in Callers, CancelPage(c) PROVE PageInv'
  BY <1>33 DEF CancelPage, At
<1>34. ASSUME NEW c \in Callers, RemovePage(c) PROVE PageInv'
  <2>1. target[c] \in pageClosed
    BY <1>34 DEF RemovePage, LeaveInv
  <2> QED
    BY <1>34, <2>1, SucceedsFacts DEF RemovePage
<1>35. ASSUME NEW c \in Callers, CloseDown(c) PROVE PageInv'
  BY <1>35 DEF CloseDown, At
<1>36. ASSUME NEW c \in Callers, NEW p \in Pages, CloseNext(c, p) PROVE PageInv'
  BY <1>36 DEF CloseNext, At
<1>37. CASE UNCHANGED vars
  BY <1>37 DEF vars
<1> QED
  BY <1>1, <1>2, <1>3, <1>4, <1>5, <1>6, <1>7, <1>8, <1>9, <1>10, <1>11, <1>12, <1>13,
     <1>14, <1>15, <1>16, <1>17, <1>18, <1>19, <1>20, <1>21, <1>22, <1>23, <1>24,
     <1>25, <1>26, <1>27, <1>28, <1>29, <1>30, <1>31, <1>32, <1>33, <1>34, <1>35,
     <1>36, <1>37
  DEF Next, NewStep, Calling, NewPageStep, RunStep, ListStep, ClosingStep

(***************************************************************************)
(* The order of the tabs.                                                  *)
(***************************************************************************)
LEMMA OrderInit == Init => OrderInv
  BY DEF Init, OrderInv

LEMMA OrderNext == TypeOK /\ PageInv /\ OrderInv /\ [Next]_vars => OrderInv'
<1> SUFFICES ASSUME TypeOK /\ PageInv /\ OrderInv, [Next]_vars PROVE OrderInv'
  OBVIOUS
<1> USE DEF newVars, flagVars, tabVars, goneVars, workVars, callVars, historyVars,
            Making, Leaving, Paged, Steps, TypeOK, OrderInv
<1>1. CASE Launch
  BY <1>1 DEF Launch
<1>2. CASE WaitReady
  BY <1>2 DEF WaitReady
<1>3. CASE InitFails
  BY <1>3 DEF InitFails
<1>4. CASE InitSucceeds
  BY <1>4 DEF InitSucceeds
<1>5. CASE Cleanup
  BY <1>5 DEF Cleanup
<1>6. CASE ExtensionReady
  BY <1>6 DEF ExtensionReady
<1>7. CASE ExtensionLost
  BY <1>7 DEF ExtensionLost
<1>8. CASE WatchDisconnect
  BY <1>8 DEF WatchDisconnect
<1>9. ASSUME NEW c \in Callers, CallNewPage(c) PROVE OrderInv'
  BY <1>9 DEF CallNewPage, Calls, At
<1>10. ASSUME NEW c \in Callers, CallNavigate(c) PROVE OrderInv'
  BY <1>10 DEF CallNavigate, Calls, At
<1>11. ASSUME NEW c \in Callers, NavigateRefused(c) PROVE OrderInv'
  BY <1>11 DEF NavigateRefused, Calls, At, StateError
<1>12. ASSUME NEW c \in Callers, CallClose(c) PROVE OrderInv'
  BY <1>12 DEF CallClose, Calls, At
<1>13. ASSUME NEW c \in Callers, TabsList(c) PROVE OrderInv'
  BY <1>13 DEF TabsList, Calls, At
<1>14. ASSUME NEW c \in Callers, NEW p \in Pages, CallRun(c, p) PROVE OrderInv'
  BY <1>14 DEF CallRun, Calls, At
<1>15. ASSUME NEW c \in Callers, NEW p \in Pages, CallClosePage(c, p) PROVE OrderInv'
  BY <1>15 DEF CallClosePage, Calls, At
<1>16. ASSUME NEW c \in Callers, NEW p \in Pages, TabsClose(c, p) PROVE OrderInv'
  BY <1>16 DEF TabsClose, Calls, At
<1>17. ASSUME NEW c \in Callers, NEW p \in Pages, TabsSelect(c, p) PROVE OrderInv'
  <2>1. p \in pages
    BY <1>17 DEF TabsSelect, ToSet
  <2> QED
    BY <1>17, <2>1 DEF TabsSelect
<1>18. ASSUME NEW c \in Callers, StateRefuses(c) PROVE OrderInv'
  BY <1>18 DEF StateRefuses, Tells, StateError
<1>19. ASSUME NEW c \in Callers, NEW p \in Pages, NewPageBegins(c, p) PROVE OrderInv'
  BY <1>19 DEF NewPageBegins, At
<1>20. ASSUME NEW c \in Callers, CreateFails(c) PROVE OrderInv'
  BY <1>20 DEF CreateFails, At
<1>21. ASSUME NEW c \in Callers, CreateSucceeds(c) PROVE OrderInv'
  BY <1>21 DEF CreateSucceeds, At
<1>22. ASSUME NEW c \in Callers, FinishNewPage(c) PROVE OrderInv'
  <2>1. CASE StateError = "ok"
    <3> DEFINE q == target[c]
    <3>1. q \in Pages /\ q \notin pages
      BY <1>22 DEF FinishNewPage, PageInv
    <3>2. pages' = pages \cup {q} /\ pageOrder' = Append(pageOrder, q) /\ current' = q
      BY <1>22, <2>1 DEF FinishNewPage, RegisterPage
    <3>3. PICK n \in Nat : n = Len(pageOrder) /\ DOMAIN pageOrder = 1 .. n
      OBVIOUS
    <3>4. /\ DOMAIN pageOrder' = 1 .. n + 1 /\ pageOrder'[n + 1] = q
          /\ \A i \in 1 .. n : pageOrder'[i] = pageOrder[i]
      BY <3>2, <3>3
    <3>5. \A i \in 1 .. n + 1 : i \in 1 .. n \/ i = n + 1
      BY <3>3
    <3>6. \A i \in 1 .. n : pageOrder[i] # q
      BY <3>1, <3>3
    <3>7. \A i, j \in DOMAIN pageOrder' : pageOrder'[i] = pageOrder'[j] => i = j
      BY <3>3, <3>4, <3>5, <3>6
    <3>8. \A x \in Pages : x \in pages' <=> \E i \in DOMAIN pageOrder' : pageOrder'[i] = x
      <4>1. ASSUME NEW x \in Pages, x \in pages' PROVE \E i \in DOMAIN pageOrder' : pageOrder'[i] = x
        <5>1. CASE x = q
          <6>1. n + 1 \in DOMAIN pageOrder' /\ pageOrder'[n + 1] = x
            BY <3>3, <3>4, <5>1
          <6> QED
            BY <6>1
        <5>2. CASE x \in pages
          <6>1. PICK i \in 1 .. n : pageOrder[i] = x
            BY <3>3, <5>2
          <6>2. i \in DOMAIN pageOrder' /\ pageOrder'[i] = x
            BY <3>3, <3>4, <6>1
          <6> QED
            BY <6>2
        <5> QED
          BY <3>2, <4>1, <5>1, <5>2
      <4>2. ASSUME NEW x \in Pages, NEW i \in DOMAIN pageOrder', pageOrder'[i] = x PROVE x \in pages'
        BY <3>2, <3>3, <3>4, <3>5, <4>2
      <4> QED
        BY <4>1, <4>2
    <3> QED
      BY <3>2, <3>7, <3>8
  <2>2. CASE StateError # "ok"
    BY <1>22, <2>2 DEF FinishNewPage
  <2> QED
    BY <2>1, <2>2
<1>23. ASSUME NEW c \in Callers, Refuse(c) PROVE OrderInv'
  BY <1>23 DEF Refuse, Tells, StateError
<1>24. ASSUME NEW c \in Callers, RunChecksPage(c) PROVE OrderInv'
  BY <1>24 DEF RunChecksPage, At, Closed
<1>25. ASSUME NEW c \in Callers, RunBegins(c) PROVE OrderInv'
  BY <1>25 DEF RunBegins, At
<1>26. ASSUME NEW c \in Callers, RunSucceeds(c) PROVE OrderInv'
  BY <1>26 DEF RunSucceeds, Succeeds
<1>27. ASSUME NEW c \in Callers, RunFails(c) PROVE OrderInv'
  BY <1>27 DEF RunFails, At
<1>28. ASSUME NEW c \in Callers, RunReturns(c) PROVE OrderInv'
  BY <1>28 DEF RunReturns, Tells, StateError
<1>29. ASSUME NEW c \in Callers, ListBegins(c) PROVE OrderInv'
  BY <1>29 DEF ListBegins, At
<1>30. ASSUME NEW c \in Callers, ListNext(c) PROVE OrderInv'
  BY <1>30 DEF ListNext, At
<1>31. ASSUME NEW c \in Callers, ListReturns(c) PROVE OrderInv'
  BY <1>31 DEF ListReturns, At
<1>32. ASSUME NEW c \in Callers, ClosePage(c) PROVE OrderInv'
  BY <1>32 DEF ClosePage, Closed, Succeeds
<1>33. ASSUME NEW c \in Callers, CancelPage(c) PROVE OrderInv'
  BY <1>33 DEF CancelPage, At
<1>34. ASSUME NEW c \in Callers, RemovePage(c) PROVE OrderInv'
  <2>1. /\ \A i, j \in DOMAIN pageOrder' : pageOrder'[i] = pageOrder'[j] => i = j
        /\ \A p \in Pages : p \in pages \ {target[c]} <=> \E i \in DOMAIN pageOrder' : pageOrder'[i] = p
        /\ pageOrder' = <<>> => pages \ {target[c]} = {}
        /\ pageOrder' # <<>> => Last(pageOrder') \in pages \ {target[c]}
    BY <1>34, RemovedFacts DEF RemovePage
  <2>2. pages' = pages \ {target[c]}
    BY <1>34 DEF RemovePage
  <2>3. IF pages' = {} THEN current' = NoPage ELSE current' \in pages'
    <3>1. CASE current # target[c]
      BY <1>34, <2>2, <3>1 DEF RemovePage
    <3>2. CASE current = target[c]
      BY <1>34, <2>1, <2>2, <3>2 DEF RemovePage
    <3> QED
      BY <3>1, <3>2
  <2> QED
    BY <2>1, <2>2, <2>3
<1>35. ASSUME NEW c \in Callers, CloseDown(c) PROVE OrderInv'
  BY <1>35 DEF CloseDown, At
<1>36. ASSUME NEW c \in Callers, NEW p \in Pages, CloseNext(c, p) PROVE OrderInv'
  BY <1>36 DEF CloseNext, At
<1>37. CASE UNCHANGED vars
  BY <1>37 DEF vars
<1> QED
  BY <1>1, <1>2, <1>3, <1>4, <1>5, <1>6, <1>7, <1>8, <1>9, <1>10, <1>11, <1>12, <1>13,
     <1>14, <1>15, <1>16, <1>17, <1>18, <1>19, <1>20, <1>21, <1>22, <1>23, <1>24,
     <1>25, <1>26, <1>27, <1>28, <1>29, <1>30, <1>31, <1>32, <1>33, <1>34, <1>35,
     <1>36, <1>37
  DEF Next, NewStep, Calling, NewPageStep, RunStep, ListStep, ClosingStep

(***************************************************************************)
(* Closed pages leave.                                                     *)
(***************************************************************************)
LEMMA LeaveInit == Init => LeaveInv
  BY DEF Init, LeaveInv, Leaving

LEMMA LeaveSame ==
    ASSUME LeaveInv, UNCHANGED <<pages, pageClosed, cancelled, pc, target>>
    PROVE  LeaveInv'
  BY DEF LeaveInv

LEMMA LeaveKept ==
    ASSUME LeaveInv, NEW c \in Callers, pc[c] \notin Leaving, pc'[c] \notin Leaving,
           \A d \in Callers : d # c => pc'[d] = pc[d] /\ target'[d] = target[d],
           UNCHANGED <<pages, pageClosed>>, cancelled \subseteq cancelled'
    PROVE  LeaveInv'
<1>1. \A d \in Callers : pc'[d] \in Leaving => d # c /\ pc[d] \in Leaving /\ target'[d] = target[d]
  OBVIOUS
<1>2. \A d \in Callers : pc[d] \in Leaving => pc'[d] \in Leaving /\ target'[d] = target[d]
  OBVIOUS
<1>3. \A d \in Callers : pc'[d] = "remove" => pc[d] = "remove" /\ target'[d] = target[d]
  BY DEF Leaving
<1> HIDE DEF Leaving
<1> QED
  BY <1>1, <1>2, <1>3 DEF LeaveInv

LEMMA LeaveNext == TypeOK /\ PageInv /\ LeaveInv /\ [Next]_vars => LeaveInv'
<1> SUFFICES ASSUME TypeOK /\ PageInv /\ LeaveInv, [Next]_vars PROVE LeaveInv'
  OBVIOUS
<1> USE DEF newVars, flagVars, tabVars, goneVars, workVars, callVars, historyVars,
            Making, Leaving, Paged, Steps, TypeOK
<1>1. CASE Launch
  BY <1>1, LeaveSame DEF Launch
<1>2. CASE WaitReady
  BY <1>2, LeaveSame DEF WaitReady
<1>3. CASE InitFails
  BY <1>3, LeaveSame DEF InitFails
<1>4. CASE InitSucceeds
  BY <1>4, LeaveSame DEF InitSucceeds
<1>5. CASE Cleanup
  BY <1>5, LeaveSame DEF Cleanup
<1>6. CASE ExtensionReady
  BY <1>6, LeaveSame DEF ExtensionReady
<1>7. CASE ExtensionLost
  BY <1>7, LeaveSame DEF ExtensionLost
<1>8. CASE WatchDisconnect
  BY <1>8, LeaveSame DEF WatchDisconnect
<1>9. ASSUME NEW c \in Callers, CallNewPage(c) PROVE LeaveInv'
  BY <1>9, LeaveKept DEF CallNewPage, Calls, At
<1>10. ASSUME NEW c \in Callers, CallNavigate(c) PROVE LeaveInv'
  BY <1>10, LeaveKept DEF CallNavigate, Calls, At
<1>11. ASSUME NEW c \in Callers, NavigateRefused(c) PROVE LeaveInv'
  BY <1>11, LeaveKept DEF NavigateRefused, Calls, At, StateError
<1>12. ASSUME NEW c \in Callers, CallClose(c) PROVE LeaveInv'
  <2>1. pc[c] \notin Leaving /\ pc'[c] \notin Leaving /\ \A d \in Callers : d # c => pc'[d] = pc[d]
    BY <1>12 DEF CallClose, Calls, At
  <2> QED
    BY <1>12, <2>1, LeaveKept DEF CallClose
<1>13. ASSUME NEW c \in Callers, TabsList(c) PROVE LeaveInv'
  BY <1>13, LeaveKept DEF TabsList, Calls, At
<1>14. ASSUME NEW c \in Callers, NEW p \in Pages, CallRun(c, p) PROVE LeaveInv'
  BY <1>14, LeaveKept DEF CallRun, Calls, At
<1>15. ASSUME NEW c \in Callers, NEW p \in Pages, CallClosePage(c, p) PROVE LeaveInv'
  BY <1>15, LeaveKept DEF CallClosePage, Calls, At
<1>16. ASSUME NEW c \in Callers, NEW p \in Pages, TabsClose(c, p) PROVE LeaveInv'
  BY <1>16, LeaveKept DEF TabsClose, Calls, At
<1>17. ASSUME NEW c \in Callers, NEW p \in Pages, TabsSelect(c, p) PROVE LeaveInv'
  BY <1>17, LeaveKept DEF TabsSelect, Calls, At
<1>18. ASSUME NEW c \in Callers, StateRefuses(c) PROVE LeaveInv'
  BY <1>18, LeaveKept DEF StateRefuses, Tells, StateError
<1>19. ASSUME NEW c \in Callers, NEW p \in Pages, NewPageBegins(c, p) PROVE LeaveInv'
  BY <1>19, LeaveKept DEF NewPageBegins, At
<1>20. ASSUME NEW c \in Callers, CreateFails(c) PROVE LeaveInv'
  BY <1>20, LeaveKept DEF CreateFails, At
<1>21. ASSUME NEW c \in Callers, CreateSucceeds(c) PROVE LeaveInv'
  BY <1>21, LeaveKept DEF CreateSucceeds, At
<1>22. ASSUME NEW c \in Callers, FinishNewPage(c) PROVE LeaveInv'
  <2>1. CASE StateError = "ok"
    <3>1. /\ pc[c] \notin Leaving /\ pc'[c] \notin Leaving
          /\ \A d \in Callers : d # c => pc'[d] = pc[d]
      BY <1>22, <2>1, SucceedsFacts DEF FinishNewPage, RegisterPage
    <3>2. target[c] \notin pageClosed
      BY <1>22 DEF FinishNewPage, PageInv
    <3>3. pages' = pages \cup {target[c]} /\ UNCHANGED <<pageClosed, cancelled, target>>
      BY <1>22, <2>1 DEF FinishNewPage, RegisterPage
    <3>4. \A d \in Callers : (pc'[d] \in Leaving <=> pc[d] \in Leaving) /\ (pc'[d] = "remove" => pc[d] = "remove")
      BY <3>1
    <3> HIDE DEF Leaving, TypeOK
    <3> QED
      BY <3>2, <3>3, <3>4 DEF LeaveInv
  <2>2. CASE StateError # "ok"
    BY <1>22, <2>2, LeaveKept DEF FinishNewPage
  <2> QED
    BY <2>1, <2>2
<1>23. ASSUME NEW c \in Callers, Refuse(c) PROVE LeaveInv'
  BY <1>23, LeaveKept DEF Refuse, Tells, StateError
<1>24. ASSUME NEW c \in Callers, RunChecksPage(c) PROVE LeaveInv'
  BY <1>24, LeaveKept DEF RunChecksPage, At, Closed
<1>25. ASSUME NEW c \in Callers, RunBegins(c) PROVE LeaveInv'
  BY <1>25, LeaveKept DEF RunBegins, At
<1>26. ASSUME NEW c \in Callers, RunSucceeds(c) PROVE LeaveInv'
  BY <1>26, LeaveKept, SucceedsFacts DEF RunSucceeds, Succeeds
<1>27. ASSUME NEW c \in Callers, RunFails(c) PROVE LeaveInv'
  BY <1>27, LeaveKept DEF RunFails, At
<1>28. ASSUME NEW c \in Callers, RunReturns(c) PROVE LeaveInv'
  BY <1>28, LeaveKept DEF RunReturns, Tells, StateError
<1>29. ASSUME NEW c \in Callers, ListBegins(c) PROVE LeaveInv'
  BY <1>29, LeaveKept DEF ListBegins, At
<1>30. ASSUME NEW c \in Callers, ListNext(c) PROVE LeaveInv'
  BY <1>30, LeaveKept DEF ListNext, At
<1>31. ASSUME NEW c \in Callers, ListReturns(c) PROVE LeaveInv'
  BY <1>31, LeaveKept DEF ListReturns, At
<1>32. ASSUME NEW c \in Callers, ClosePage(c) PROVE LeaveInv'
  <2>1. UNCHANGED <<pages, cancelled, target>> /\ pc[c] = "close" /\ target[c] \in handed
    BY <1>32 DEF ClosePage, PageInv
  <2>2. CASE Closed(c)
    <3>1. pc'[c] \notin Leaving /\ \A d \in Callers : d # c => pc'[d] = pc[d]
      BY <1>32, <2>2, SucceedsFacts DEF ClosePage
    <3>2. pageClosed' = pageClosed
      BY <1>32, <2>2 DEF ClosePage, Closed
    <3> QED
      BY <2>1, <3>1, <3>2, LeaveKept
  <2>3. CASE ~ Closed(c)
    <3>1. pc'[c] = "cancel" /\ \A d \in Callers : d # c => pc'[d] = pc[d]
      BY <1>32, <2>3 DEF ClosePage
    <3>2. pageClosed' = pageClosed \cup {target[c]} /\ target[c] \notin pageClosed
      BY <1>32, <2>3 DEF ClosePage, Closed
    <3>3. target[c] \in pages
      BY <2>1, <3>2 DEF PageInv
    <3>4. \A d \in Callers : d # c /\ pc[d] \in Leaving => target[d] # target[c]
      BY <3>2 DEF LeaveInv
    <3>5. pc'[c] \in Leaving
      BY <3>1
    <3>6. \A d \in Callers : d # c => (pc'[d] \in Leaving <=> pc[d] \in Leaving)
      BY <3>1
    <3>7. \A d \in Callers : pc'[d] = "remove" => pc[d] = "remove"
      BY <3>1
    <3> HIDE DEF Leaving, TypeOK
    <3>8. \A x \in pages' : x \in pageClosed' => \E d \in Callers : pc'[d] \in Leaving /\ target'[d] = x
      <4> SUFFICES ASSUME NEW x \in pages, x \in pageClosed \cup {target[c]}
                   PROVE  \E d \in Callers : pc'[d] \in Leaving /\ target[d] = x
        BY <2>1, <3>2
      <4>1. CASE x = target[c]
        BY <3>5, <4>1
      <4>2. CASE x # target[c]
        <5>1. PICK d \in Callers : pc[d] \in Leaving /\ target[d] = x
          BY <4>2 DEF LeaveInv
        <5>2. d # c
          BY <4>2, <5>1
        <5> QED
          BY <3>6, <5>1, <5>2
      <4> QED
        BY <4>1, <4>2
    <3> QED
      BY <2>1, <3>2, <3>3, <3>4, <3>6, <3>7, <3>8 DEF LeaveInv
  <2> QED
    BY <2>2, <2>3
<1>33. ASSUME NEW c \in Callers, CancelPage(c) PROVE LeaveInv'
  <2>1. UNCHANGED <<pages, pageClosed, target>> /\ cancelled' = cancelled \cup {target[c]}
    BY <1>33 DEF CancelPage
  <2>2. pc[c] = "cancel" /\ pc'[c] = "remove" /\ \A d \in Callers : d # c => pc'[d] = pc[d]
    BY <1>33 DEF CancelPage, At
  <2>3. \A d \in Callers : pc'[d] \in Leaving <=> pc[d] \in Leaving
    BY <2>2
  <2>4. \A d \in Callers : pc'[d] = "remove" => d = c \/ pc[d] = "remove"
    BY <2>2
  <2> HIDE DEF Leaving, TypeOK
  <2> QED
    BY <2>1, <2>3, <2>4 DEF LeaveInv
<1>34. ASSUME NEW c \in Callers, RemovePage(c) PROVE LeaveInv'
  <2>1. UNCHANGED <<pageClosed, cancelled, target>> /\ pages' = pages \ {target[c]}
    BY <1>34 DEF RemovePage
  <2>2. /\ pc[c] \in Leaving /\ pc'[c] \notin Leaving
        /\ \A d \in Callers : d # c => pc'[d] = pc[d]
    BY <1>34, SucceedsFacts DEF RemovePage
  <2>3. \A d \in Callers : d # c => (pc'[d] \in Leaving <=> pc[d] \in Leaving)
    BY <2>2
  <2>4. \A d \in Callers : pc'[d] = "remove" => d # c /\ pc[d] = "remove"
    BY <2>2
  <2> HIDE DEF Leaving, TypeOK
  <2>5. \A d \in Callers : pc'[d] \in Leaving => d # c /\ pc[d] \in Leaving /\ target[d] # target[c]
    BY <2>2, <2>3 DEF LeaveInv
  <2>6. \A x \in pages' : x \in pageClosed' => \E d \in Callers : pc'[d] \in Leaving /\ target'[d] = x
    BY <2>1, <2>3 DEF LeaveInv
  <2> QED
    BY <2>1, <2>4, <2>5, <2>6 DEF LeaveInv
<1>35. ASSUME NEW c \in Callers, CloseDown(c) PROVE LeaveInv'
  <2>1. /\ pc[c] \notin Leaving /\ pc'[c] \notin Leaving
        /\ \A d \in Callers : d # c => pc'[d] = pc[d]
    BY <1>35 DEF CloseDown, At
  <2> QED
    BY <1>35, <2>1, LeaveKept DEF CloseDown
<1>36. ASSUME NEW c \in Callers, NEW p \in Pages, CloseNext(c, p) PROVE LeaveInv'
  BY <1>36, LeaveKept DEF CloseNext, At
<1>37. CASE UNCHANGED vars
  BY <1>37, LeaveSame DEF vars
<1> QED
  BY <1>1, <1>2, <1>3, <1>4, <1>5, <1>6, <1>7, <1>8, <1>9, <1>10, <1>11, <1>12, <1>13,
     <1>14, <1>15, <1>16, <1>17, <1>18, <1>19, <1>20, <1>21, <1>22, <1>23, <1>24,
     <1>25, <1>26, <1>27, <1>28, <1>29, <1>30, <1>31, <1>32, <1>33, <1>34, <1>35,
     <1>36, <1>37
  DEF Next, NewStep, Calling, NewPageStep, RunStep, ListStep, ClosingStep

(***************************************************************************)
(* Browser.Close misses no page.                                           *)
(***************************************************************************)
LEMMA MissesInit == Init => CloseMissesNoPage
  BY DEF Init, CloseMissesNoPage

LEMMA MissesNext == TypeOK /\ CloseMissesNoPage /\ [Next]_vars => CloseMissesNoPage'
<1> SUFFICES ASSUME TypeOK /\ CloseMissesNoPage, [Next]_vars PROVE CloseMissesNoPage'
  OBVIOUS
<1> USE DEF newVars, flagVars, tabVars, goneVars, workVars, callVars, historyVars,
            Making, Leaving, Paged, Steps, TypeOK, CloseMissesNoPage
<1>1. CASE Launch
  BY <1>1 DEF Launch
<1>2. CASE WaitReady
  BY <1>2 DEF WaitReady
<1>3. CASE InitFails
  BY <1>3 DEF InitFails
<1>4. CASE InitSucceeds
  BY <1>4 DEF InitSucceeds
<1>5. CASE Cleanup
  BY <1>5 DEF Cleanup
<1>6. CASE ExtensionReady
  BY <1>6 DEF ExtensionReady
<1>7. CASE ExtensionLost
  BY <1>7 DEF ExtensionLost
<1>8. CASE WatchDisconnect
  BY <1>8 DEF WatchDisconnect
<1>9. ASSUME NEW c \in Callers, CallNewPage(c) PROVE CloseMissesNoPage'
  BY <1>9 DEF CallNewPage, Calls, At
<1>10. ASSUME NEW c \in Callers, CallNavigate(c) PROVE CloseMissesNoPage'
  BY <1>10 DEF CallNavigate, Calls, At
<1>11. ASSUME NEW c \in Callers, NavigateRefused(c) PROVE CloseMissesNoPage'
  BY <1>11 DEF NavigateRefused, Calls, At, StateError
<1>12. ASSUME NEW c \in Callers, CallClose(c) PROVE CloseMissesNoPage'
  BY <1>12 DEF CallClose, Calls, At
<1>13. ASSUME NEW c \in Callers, TabsList(c) PROVE CloseMissesNoPage'
  BY <1>13 DEF TabsList, Calls, At
<1>14. ASSUME NEW c \in Callers, NEW p \in Pages, CallRun(c, p) PROVE CloseMissesNoPage'
  BY <1>14 DEF CallRun, Calls, At
<1>15. ASSUME NEW c \in Callers, NEW p \in Pages, CallClosePage(c, p) PROVE CloseMissesNoPage'
  BY <1>15 DEF CallClosePage, Calls, At
<1>16. ASSUME NEW c \in Callers, NEW p \in Pages, TabsClose(c, p) PROVE CloseMissesNoPage'
  BY <1>16 DEF TabsClose, Calls, At
<1>17. ASSUME NEW c \in Callers, NEW p \in Pages, TabsSelect(c, p) PROVE CloseMissesNoPage'
  BY <1>17 DEF TabsSelect, Calls, At
<1>18. ASSUME NEW c \in Callers, StateRefuses(c) PROVE CloseMissesNoPage'
  BY <1>18 DEF StateRefuses, Tells, StateError
<1>19. ASSUME NEW c \in Callers, NEW p \in Pages, NewPageBegins(c, p) PROVE CloseMissesNoPage'
  BY <1>19 DEF NewPageBegins, At
<1>20. ASSUME NEW c \in Callers, CreateFails(c) PROVE CloseMissesNoPage'
  BY <1>20 DEF CreateFails, At
<1>21. ASSUME NEW c \in Callers, CreateSucceeds(c) PROVE CloseMissesNoPage'
  BY <1>21 DEF CreateSucceeds, At
<1>22. ASSUME NEW c \in Callers, FinishNewPage(c) PROVE CloseMissesNoPage'
  BY <1>22 DEF FinishNewPage, RegisterPage, Succeeds, StateError
<1>23. ASSUME NEW c \in Callers, Refuse(c) PROVE CloseMissesNoPage'
  BY <1>23 DEF Refuse, Tells, StateError
<1>24. ASSUME NEW c \in Callers, RunChecksPage(c) PROVE CloseMissesNoPage'
  BY <1>24 DEF RunChecksPage, At, Closed
<1>25. ASSUME NEW c \in Callers, RunBegins(c) PROVE CloseMissesNoPage'
  BY <1>25 DEF RunBegins, At
<1>26. ASSUME NEW c \in Callers, RunSucceeds(c) PROVE CloseMissesNoPage'
  BY <1>26 DEF RunSucceeds, Succeeds
<1>27. ASSUME NEW c \in Callers, RunFails(c) PROVE CloseMissesNoPage'
  BY <1>27 DEF RunFails, At
<1>28. ASSUME NEW c \in Callers, RunReturns(c) PROVE CloseMissesNoPage'
  BY <1>28 DEF RunReturns, Tells, StateError
<1>29. ASSUME NEW c \in Callers, ListBegins(c) PROVE CloseMissesNoPage'
  BY <1>29 DEF ListBegins, At
<1>30. ASSUME NEW c \in Callers, ListNext(c) PROVE CloseMissesNoPage'
  BY <1>30 DEF ListNext, At
<1>31. ASSUME NEW c \in Callers, ListReturns(c) PROVE CloseMissesNoPage'
  BY <1>31 DEF ListReturns, At
<1>32. ASSUME NEW c \in Callers, ClosePage(c) PROVE CloseMissesNoPage'
  BY <1>32 DEF ClosePage, Closed, Succeeds
<1>33. ASSUME NEW c \in Callers, CancelPage(c) PROVE CloseMissesNoPage'
  BY <1>33 DEF CancelPage, At
<1>34. ASSUME NEW c \in Callers, RemovePage(c) PROVE CloseMissesNoPage'
  BY <1>34 DEF RemovePage, Succeeds
<1>35. ASSUME NEW c \in Callers, CloseDown(c) PROVE CloseMissesNoPage'
  BY <1>35 DEF CloseDown, At
<1>36. ASSUME NEW c \in Callers, NEW p \in Pages, CloseNext(c, p) PROVE CloseMissesNoPage'
  BY <1>36 DEF CloseNext, At
<1>37. CASE UNCHANGED vars
  BY <1>37 DEF vars
<1> QED
  BY <1>1, <1>2, <1>3, <1>4, <1>5, <1>6, <1>7, <1>8, <1>9, <1>10, <1>11, <1>12, <1>13,
     <1>14, <1>15, <1>16, <1>17, <1>18, <1>19, <1>20, <1>21, <1>22, <1>23, <1>24,
     <1>25, <1>26, <1>27, <1>28, <1>29, <1>30, <1>31, <1>32, <1>33, <1>34, <1>35,
     <1>36, <1>37
  DEF Next, NewStep, Calling, NewPageStep, RunStep, ListStep, ClosingStep

(***************************************************************************)
(* No tab is left behind.                                                  *)
(***************************************************************************)
LEMMA LeakInit == Init => NoTabLeaked
  BY DEF Init, NoTabLeaked

LEMMA LeakNext == TypeOK /\ LeaveInv /\ NoTabLeaked /\ [Next]_vars => NoTabLeaked'
<1> SUFFICES ASSUME TypeOK /\ LeaveInv /\ NoTabLeaked, [Next]_vars PROVE NoTabLeaked'
  OBVIOUS
<1> USE DEF newVars, flagVars, tabVars, goneVars, workVars, callVars, historyVars,
            Making, Leaving, Paged, Steps, TypeOK, NoTabLeaked
<1>1. CASE Launch
  BY <1>1 DEF Launch
<1>2. CASE WaitReady
  BY <1>2 DEF WaitReady
<1>3. CASE InitFails
  BY <1>3 DEF InitFails
<1>4. CASE InitSucceeds
  BY <1>4 DEF InitSucceeds
<1>5. CASE Cleanup
  BY <1>5 DEF Cleanup
<1>6. CASE ExtensionReady
  BY <1>6 DEF ExtensionReady
<1>7. CASE ExtensionLost
  BY <1>7 DEF ExtensionLost
<1>8. CASE WatchDisconnect
  BY <1>8 DEF WatchDisconnect
<1>9. ASSUME NEW c \in Callers, CallNewPage(c) PROVE NoTabLeaked'
  BY <1>9 DEF CallNewPage, Calls, At
<1>10. ASSUME NEW c \in Callers, CallNavigate(c) PROVE NoTabLeaked'
  BY <1>10 DEF CallNavigate, Calls, At
<1>11. ASSUME NEW c \in Callers, NavigateRefused(c) PROVE NoTabLeaked'
  BY <1>11 DEF NavigateRefused, Calls, At, StateError
<1>12. ASSUME NEW c \in Callers, CallClose(c) PROVE NoTabLeaked'
  BY <1>12 DEF CallClose, Calls, At
<1>13. ASSUME NEW c \in Callers, TabsList(c) PROVE NoTabLeaked'
  BY <1>13 DEF TabsList, Calls, At
<1>14. ASSUME NEW c \in Callers, NEW p \in Pages, CallRun(c, p) PROVE NoTabLeaked'
  BY <1>14 DEF CallRun, Calls, At
<1>15. ASSUME NEW c \in Callers, NEW p \in Pages, CallClosePage(c, p) PROVE NoTabLeaked'
  BY <1>15 DEF CallClosePage, Calls, At
<1>16. ASSUME NEW c \in Callers, NEW p \in Pages, TabsClose(c, p) PROVE NoTabLeaked'
  BY <1>16 DEF TabsClose, Calls, At
<1>17. ASSUME NEW c \in Callers, NEW p \in Pages, TabsSelect(c, p) PROVE NoTabLeaked'
  BY <1>17 DEF TabsSelect, Calls, At
<1>18. ASSUME NEW c \in Callers, StateRefuses(c) PROVE NoTabLeaked'
  BY <1>18 DEF StateRefuses, Tells, StateError
<1>19. ASSUME NEW c \in Callers, NEW p \in Pages, NewPageBegins(c, p) PROVE NoTabLeaked'
  BY <1>19 DEF NewPageBegins, At
<1>20. ASSUME NEW c \in Callers, CreateFails(c) PROVE NoTabLeaked'
  BY <1>20 DEF CreateFails, At
<1>21. ASSUME NEW c \in Callers, CreateSucceeds(c) PROVE NoTabLeaked'
  BY <1>21 DEF CreateSucceeds, At
<1>22. ASSUME NEW c \in Callers, FinishNewPage(c) PROVE NoTabLeaked'
  <2>1. CASE StateError = "ok"
    <3>1. pages' = pages \cup {target[c]} /\ UNCHANGED <<made, cancelled, target>>
      BY <1>22, <2>1 DEF FinishNewPage, RegisterPage
    <3>2. \A d \in Callers : d # c => pc'[d] = pc[d]
      BY <1>22, <2>1, SucceedsFacts DEF FinishNewPage, RegisterPage
    <3> QED
      BY <3>1, <3>2
  <2>2. CASE StateError # "ok"
    <3>1. UNCHANGED <<made, pages, cancelled, target>>
      BY <1>22, <2>2 DEF FinishNewPage
    <3>2. pc'[c] = "refused" /\ \A d \in Callers : d # c => pc'[d] = pc[d]
      BY <1>22, <2>2 DEF FinishNewPage
    <3>3. \A d \in Callers : pc[d] \in Making => pc'[d] \in Making
      BY <1>22, <3>2 DEF FinishNewPage
    <3> HIDE DEF TypeOK
    <3> QED
      BY <3>1, <3>3
  <2> QED
    BY <2>1, <2>2
<1>23. ASSUME NEW c \in Callers, Refuse(c) PROVE NoTabLeaked'
  BY <1>23 DEF Refuse, Tells, StateError
<1>24. ASSUME NEW c \in Callers, RunChecksPage(c) PROVE NoTabLeaked'
  BY <1>24 DEF RunChecksPage, At, Closed
<1>25. ASSUME NEW c \in Callers, RunBegins(c) PROVE NoTabLeaked'
  BY <1>25 DEF RunBegins, At
<1>26. ASSUME NEW c \in Callers, RunSucceeds(c) PROVE NoTabLeaked'
  BY <1>26 DEF RunSucceeds, Succeeds
<1>27. ASSUME NEW c \in Callers, RunFails(c) PROVE NoTabLeaked'
  BY <1>27 DEF RunFails, At
<1>28. ASSUME NEW c \in Callers, RunReturns(c) PROVE NoTabLeaked'
  BY <1>28 DEF RunReturns, Tells, StateError
<1>29. ASSUME NEW c \in Callers, ListBegins(c) PROVE NoTabLeaked'
  BY <1>29 DEF ListBegins, At
<1>30. ASSUME NEW c \in Callers, ListNext(c) PROVE NoTabLeaked'
  BY <1>30 DEF ListNext, At
<1>31. ASSUME NEW c \in Callers, ListReturns(c) PROVE NoTabLeaked'
  BY <1>31 DEF ListReturns, At
<1>32. ASSUME NEW c \in Callers, ClosePage(c) PROVE NoTabLeaked'
  <2>1. UNCHANGED <<made, pages, cancelled, target>> /\ pc[c] = "close"
    BY <1>32 DEF ClosePage
  <2>2. \A d \in Callers : d # c => pc'[d] = pc[d]
    BY <1>32, SucceedsFacts DEF ClosePage
  <2> QED
    BY <2>1, <2>2
<1>33. ASSUME NEW c \in Callers, CancelPage(c) PROVE NoTabLeaked'
  <2>1. UNCHANGED <<made, pages, target>> /\ cancelled' = cancelled \cup {target[c]}
    BY <1>33 DEF CancelPage
  <2>2. pc[c] = "cancel" /\ \A d \in Callers : d # c => pc'[d] = pc[d]
    BY <1>33 DEF CancelPage, At
  <2> QED
    BY <2>1, <2>2
<1>34. ASSUME NEW c \in Callers, RemovePage(c) PROVE NoTabLeaked'
  <2>1. UNCHANGED <<made, cancelled, target>> /\ pages' = pages \ {target[c]} /\ pc[c] = "remove"
    BY <1>34 DEF RemovePage
  <2>2. \A d \in Callers : d # c => pc'[d] = pc[d]
    BY <1>34, SucceedsFacts DEF RemovePage
  <2>3. target[c] \in cancelled
    BY <2>1 DEF LeaveInv
  <2>4. \A d \in Callers : pc[d] \in Making => pc'[d] \in Making
    BY <2>1, <2>2
  <2> HIDE DEF TypeOK
  <2> QED
    BY <2>1, <2>3, <2>4
<1>35. ASSUME NEW c \in Callers, CloseDown(c) PROVE NoTabLeaked'
  <2>1. \A d \in Callers : pc[d] \in Making => pc'[d] \in Making
    BY <1>35 DEF CloseDown, At
  <2> HIDE DEF TypeOK
  <2> QED
    BY <1>35, <2>1 DEF CloseDown
<1>36. ASSUME NEW c \in Callers, NEW p \in Pages, CloseNext(c, p) PROVE NoTabLeaked'
  BY <1>36 DEF CloseNext, At
<1>37. CASE UNCHANGED vars
  BY <1>37 DEF vars
<1> QED
  BY <1>1, <1>2, <1>3, <1>4, <1>5, <1>6, <1>7, <1>8, <1>9, <1>10, <1>11, <1>12, <1>13,
     <1>14, <1>15, <1>16, <1>17, <1>18, <1>19, <1>20, <1>21, <1>22, <1>23, <1>24,
     <1>25, <1>26, <1>27, <1>28, <1>29, <1>30, <1>31, <1>32, <1>33, <1>34, <1>35,
     <1>36, <1>37
  DEF Next, NewStep, Calling, NewPageStep, RunStep, ListStep, ClosingStep

(***************************************************************************)
(* The theorems.                                                           *)
(***************************************************************************)
LEMMA Invariance == Spec => []IInv
<1>1. Init => IInv
  BY TypeInit, ErrorInit, PageInit, OrderInit, LeaveInit, MissesInit, LeakInit DEF IInv
<1>2. IInv /\ [Next]_vars => IInv'
  BY TypeNext, ErrorNext, PageNext, OrderNext, LeaveNext, MissesNext, LeakNext DEF IInv
<1> QED
  BY <1>1, <1>2, PTL DEF Spec

\* A sequence without repetition is as long as the set of its elements is large.
LEMMA TabsCounted == TypeOK /\ OrderInv => TabsAgree
<1> SUFFICES ASSUME TypeOK, OrderInv PROVE TabsAgree
  OBVIOUS
<1>1. pageOrder \in Seq(Pages) /\ Len(pageOrder) \in Nat /\ DOMAIN pageOrder = 1 .. Len(pageOrder)
  BY DEF TypeOK
<1>2. \A i \in 1 .. Len(pageOrder) : pageOrder[i] \in pages
  BY <1>1 DEF OrderInv
<1>3. \A p \in pages : \E i \in 1 .. Len(pageOrder) : pageOrder[i] = p
  BY <1>1 DEF OrderInv, TypeOK
<1>4. ToSet(pageOrder) = pages
  BY <1>1, <1>2, <1>3 DEF ToSet
<1>5. pageOrder \in [1 .. Len(pageOrder) -> pages]
  BY <1>1, <1>2
<1>6. pageOrder \in Bijection(1 .. Len(pageOrder), pages)
  BY <1>1, <1>3, <1>5 DEF OrderInv, Bijection, Injection, Surjection, IsInjective
<1>7. Cardinality(pages) = Len(pageOrder)
  BY <1>1, <1>6, FS_CountingElements DEF ExistsBijection
<1> QED
  BY <1>4, <1>7 DEF TabsAgree, OrderInv

LEMMA OneLeaves == TypeOK /\ LeaveInv => ClosedPagesLeave
<1> SUFFICES ASSUME LeaveInv, NEW p \in pages \cap pageClosed
             PROVE  Cardinality({c \in Callers : pc[c] \in {"cancel", "remove"} /\ target[c] = p}) = 1
  BY DEF ClosedPagesLeave
<1>1. PICK c \in Callers : pc[c] \in Leaving /\ target[c] = p
  BY DEF LeaveInv
<1>2. {d \in Callers : pc[d] \in {"cancel", "remove"} /\ target[d] = p} = {c}
  BY <1>1 DEF LeaveInv, Leaving
<1> QED
  BY <1>2, FS_Singleton

\* The variables have their types, and whoever works on a page has one: no call
\* of api.go or mcp_tools.go works on a nil page.
THEOREM TypeCorrect == Spec => []TypeOK
<1>1. IInv => TypeOK
  BY DEF IInv
<1> QED
  BY <1>1, Invariance, PTL

\* b.pages, b.pageOrder and b.current describe the same tabs, however many pages
\* and callers there are.
THEOREM OneViewOfTabs == Spec => []TabsAgree
<1>1. IInv => TabsAgree
  BY TabsCounted DEF IInv
<1> QED
  BY <1>1, Invariance, PTL

\* A closed page that is still listed has one caller that takes it out.
THEOREM RemovedOnce == Spec => []ClosedPagesLeave
<1>1. IInv => ClosedPagesLeave
  BY OneLeaves DEF IInv
<1> QED
  BY <1>1, Invariance, PTL

\* Browser.Close comes to every page, those that NewPage registers late included.
THEOREM CloseIsThorough == Spec => []CloseMissesNoPage
<1>1. IInv => CloseMissesNoPage
  BY DEF IInv
<1> QED
  BY <1>1, Invariance, PTL

\* Every tab asked of chromedp is listed, on its way, or cancelled.
THEOREM EveryTabKept == Spec => []NoTabLeaked
<1>1. IInv => NoTabLeaked
  BY DEF IInv
<1> QED
  BY <1>1, Invariance, PTL

\* Who is refused is told why, and a session error that has been told is final.
THEOREM ErrorsAreFinal == Spec => []SessionErrorsAreFinal
<1>1. IInv => SessionErrorsAreFinal
  BY DEF IInv, ErrorInv
<1> QED
  BY <1>1, Invariance, PTL

==============================================================================
