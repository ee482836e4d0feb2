--------------------------- MODULE PageStateProofs ----------------------------
(* Proofs of PageState's safety properties, for any tools, dialogs, documents. *)
EXTENDS PageState, SequenceTheorems, TLAPS

(***************************************************************************)
(* The inductive invariant.                                                *)
(***************************************************************************)
Events ==
    ({"opening"} \X Dialogs) \cup ({"closed"} \X {NoDialog}) \cup ({"navigated", "subframe"} \X Nat)

\* The variables have their types.
TypeOK ==
    /\ dialog \in Dialogs \cup {NoDialog}
    /\ navigation \in Nat /\ document \in Nat
    /\ pc \in [Tools -> {"idle", "answer", "answered", "clear", "capture", "captured", "store",
                         "mark", "marked", "act"}]
    /\ DOMAIN got = Tools
    /\ ahead \in [Tools -> Nat]
    /\ shown \in Dialogs \cup {NoDialog}
    /\ events \in Seq(Events)
    /\ opened \subseteq Dialogs

\* The navigations under way follow the one last seen, without a gap, up to that
\* of the document on screen.
Navigation(i) == i \in DOMAIN events /\ events[i][1] = "navigated"

NavigationInv ==
    /\ \A i \in DOMAIN events :
          Navigation(i) /\ (\A j \in 1 .. i - 1 : ~ Navigation(j)) => events[i][2] = navigation + 1
    /\ \A i, k \in DOMAIN events :
          /\ i < k /\ Navigation(i) /\ Navigation(k)
          /\ \A j \in i + 1 .. k - 1 : ~ Navigation(j)
          => events[k][2] = events[i][2] + 1
    /\ \A i \in DOMAIN events :
          Navigation(i) /\ (\A j \in DOMAIN events : j > i => ~ Navigation(j)) => events[i][2] = document
    /\ (\A i \in DOMAIN events : ~ Navigation(i)) => navigation = document

\* A snapshot is of the document last seen, unless a navigation is to be seen
\* before it arrives, or has been seen since it was asked for.
Current(t) == \A k \in DOMAIN got[t] : got[t][k][1] = navigation

RefsInv ==
    /\ \A t \in Tools : pc[t] = "captured" =>
          (\E i \in 1 .. ahead[t] : Navigation(i)) \/ t \in overtaken \/ Current(t)
    /\ \A t \in Tools : pc[t] = "store" => t \in overtaken \/ Current(t)
    /\ RefsFollowNavigation

\* The last dialog event under way is of what is on screen; a dialog that has
\* been answered does not come back.
DialogEvent(i) == i \in DOMAIN events /\ events[i][1] \in {"opening", "closed"}

Followed == dialog = shown \/ (dialog = NoDialog /\ shown \in lostDialogs)

DialogInv ==
    /\ shown \in opened \cup {NoDialog}
    /\ \A t \in Tools : pc[t] \in {"answered", "clear"} => got[t] \in opened /\ got[t] # shown
    /\ \A i \in DOMAIN events :
          DialogEvent(i) /\ (\A j \in DOMAIN events : j > i => ~ DialogEvent(j)) => events[i][2] = shown
    /\ (\A i \in DOMAIN events : ~ DialogEvent(i)) => Followed

(***************************************************************************)
(* What a step does to the events under way.                               *)
(***************************************************************************)
LEMMA SaysFacts ==
    ASSUME TypeOK, NEW e \in Events, events' = Append(events, e)
    PROVE  /\ events' \in Seq(Events)
           /\ Len(events) \in Nat /\ DOMAIN events = 1 .. Len(events)
           /\ DOMAIN events' = 1 .. Len(events) + 1
           /\ \A i \in DOMAIN events : events'[i] = events[i]
           /\ events'[Len(events) + 1] = e
  BY DEF TypeOK

LEMMA ObserveFacts ==
    ASSUME TypeOK, Observe
    PROVE  /\ events' \in Seq(Events)
           /\ Head(events) \in Events /\ 1 \in DOMAIN events /\ events[1] = Head(events)
           /\ Len(events) \in Nat /\ DOMAIN events = 1 .. Len(events)
           /\ DOMAIN events' = 1 .. Len(events) - 1
           /\ \A i \in DOMAIN events' : events'[i] = events[i + 1]
<1>1. events \in Seq(Events) /\ events # <<>> /\ events' = Tail(events)
  BY DEF TypeOK, Observe
<1>2. Len(events) \in Nat /\ Len(events) > 0 /\ DOMAIN events = 1 .. Len(events)
  BY <1>1, EmptySeq
<1>3. Head(events) = events[1] /\ 1 \in DOMAIN events
  BY <1>1, <1>2
<1>4. /\ events' \in Seq(Events) /\ DOMAIN events' = 1 .. Len(events) - 1
      /\ \A i \in 1 .. Len(events) - 1 : events'[i] = events[i + 1]
  BY <1>1, <1>2, HeadTailProperties
<1>5. events[1] \in Events
  BY <1>1, <1>2, <1>3, ElementOfSeq
<1> QED
  BY <1>1, <1>2, <1>3, <1>4, <1>5

(***************************************************************************)
(* Type correctness.                                                       *)
(***************************************************************************)
LEMMA TypeInit == Init => TypeOK
  BY DEF Init, TypeOK

LEMMA TypeNext == TypeOK /\ [Next]_vars => TypeOK'
<1> SUFFICES ASSUME TypeOK, [Next]_vars PROVE TypeOK'
  OBVIOUS
<1> USE PageAssumption DEF stateVars, toolVars, chromeVars, historyVars, TypeOK
<1>1. ASSUME NEW d \in Dialogs, Opens(d) PROVE TypeOK'
  <2>1. <<"opening", d>> \in Events
    BY DEF Events
  <2> QED
    BY <1>1, <2>1, SaysFacts DEF Opens
<1>2. CASE UserAnswers
  <2>1. <<"closed", NoDialog>> \in Events
    BY DEF Events
  <2> QED
    BY <1>2, <2>1, SaysFacts DEF UserAnswers
<1>3. CASE Navigates
  <2>1. <<"navigated", document'>> \in Events
    BY <1>3 DEF Events, Navigates
  <2> QED
    BY <1>3, <2>1, SaysFacts DEF Navigates
<1>4. CASE SubframeNavigates
  <2>1. <<"subframe", document>> \in Events
    BY DEF Events
  <2> QED
    BY <1>4, <2>1, SaysFacts DEF SubframeNavigates
<1>5. CASE Observe
  <2>1. Head(events) \in Events /\ events' \in Seq(Events)
    BY <1>5, ObserveFacts
  <2>2. dialog' \in Dialogs \cup {NoDialog} /\ navigation' \in Nat
    BY <1>5, <2>1
    DEF Observe, Events, FrameNavigated, SubframeNavigated, DialogOpening, DialogClosed
  <2> QED
    BY <1>5, <2>1, <2>2 DEF Observe
<1>6. ASSUME NEW t \in Tools, Fails(t) PROVE TypeOK'
  BY <1>6 DEF Fails
<1>7. ASSUME NEW t \in Tools, Arrives(t) PROVE TypeOK'
  BY <1>7 DEF Arrives, At
<1>8. ASSUME NEW t \in Tools, HandleDialog(t) PROVE TypeOK'
  BY <1>8 DEF HandleDialog, At
<1>9. ASSUME NEW t \in Tools, ExecuteAnswer(t) PROVE TypeOK'
  <2>1. <<"closed", NoDialog>> \in Events
    BY DEF Events
  <2>2. events' \in Seq(Events) /\ Len(events) \in Nat /\ Len(events') \in Nat
    BY <1>9, <2>1, SaysFacts DEF ExecuteAnswer
  <2>3. ahead' \in [Tools -> Nat] /\ DOMAIN got' = Tools
    BY <1>9, <2>2 DEF ExecuteAnswer, Replies, Gets
  <2> QED
    BY <1>9, <2>2, <2>3 DEF ExecuteAnswer, At
<1>10. ASSUME NEW t \in Tools, ClearDialog(t) PROVE TypeOK'
  BY <1>10 DEF ClearDialog, At
<1>11. ASSUME NEW t \in Tools, Snapshot(t) PROVE TypeOK'
  BY <1>11 DEF Snapshot, At
<1>12. ASSUME NEW t \in Tools, ExecuteCapture(t) PROVE TypeOK'
  <2>1. ahead' \in [Tools -> Nat] /\ DOMAIN got' = Tools
    BY <1>12 DEF ExecuteCapture, Replies, Gets
  <2> QED
    BY <1>12, <2>1 DEF ExecuteCapture, At
<1>13. ASSUME NEW t \in Tools, StoreRefs(t) PROVE TypeOK'
  BY <1>13 DEF StoreRefs, At
<1>14. ASSUME NEW t \in Tools, NEW i \in DOMAIN refs, Target(t, i) PROVE TypeOK'
  BY <1>14 DEF Target, At, Gets
<1>15. ASSUME NEW t \in Tools, ExecuteMark(t) PROVE TypeOK'
  BY <1>15 DEF ExecuteMark, At
<1>16. ASSUME NEW t \in Tools, ExecuteAct(t) PROVE TypeOK'
  BY <1>16 DEF ExecuteAct, At
<1>17. CASE UNCHANGED vars
  BY <1>17 DEF vars
<1> QED
  BY <1>1, <1>2, <1>3, <1>4, <1>5, <1>6, <1>7, <1>8, <1>9, <1>10, <1>11, <1>12, <1>13, <1>14, <1>15,
     <1>16, <1>17 DEF Next, Chrome, DialogStep, SnapshotStep, TargetStep

(***************************************************************************)
(* The navigations.                                                        *)
(***************************************************************************)
LEMMA NavigationInit == Init => NavigationInv
  BY DEF Init, NavigationInv, Navigation

\* An event of another kind is put behind those under way.
LEMMA NavigationSays ==
    ASSUME TypeOK, NavigationInv, NEW e \in Events, e[1] # "navigated", events' = Append(events, e),
           UNCHANGED <<navigation, document>>
    PROVE  NavigationInv'
<1>1. /\ Len(events) \in Nat /\ DOMAIN events = 1 .. Len(events)
      /\ DOMAIN events' = 1 .. Len(events) + 1
      /\ \A i \in DOMAIN events : events'[i] = events[i]
      /\ events'[Len(events) + 1] = e
  BY SaysFacts
<1>2. \A i \in DOMAIN events' : Navigation(i)' <=> Navigation(i)
  BY <1>1 DEF Navigation
<1>3. \A i \in DOMAIN events' : Navigation(i)' => i \in DOMAIN events /\ events'[i] = events[i]
  BY <1>1, <1>2 DEF Navigation
<1>4. ASSUME NEW i \in DOMAIN events', Navigation(i)', \A j \in 1 .. i - 1 : ~ Navigation(j)'
      PROVE  events'[i][2] = navigation + 1
  <2>1. i \in DOMAIN events /\ \A j \in 1 .. i - 1 : ~ Navigation(j)
    BY <1>1, <1>2, <1>3, <1>4
  <2> QED
    BY <1>1, <1>2, <1>3, <1>4, <2>1 DEF NavigationInv
<1>5. ASSUME NEW i \in DOMAIN events', NEW k \in DOMAIN events', i < k, Navigation(i)', Navigation(k)',
             \A j \in i + 1 .. k - 1 : ~ Navigation(j)'
      PROVE  events'[k][2] = events'[i][2] + 1
  <2>1. /\ i \in DOMAIN events /\ k \in DOMAIN events /\ Navigation(i) /\ Navigation(k)
        /\ \A j \in i + 1 .. k - 1 : ~ Navigation(j)
    BY <1>1, <1>2, <1>3, <1>5
  <2>2. events[k][2] = events[i][2] + 1
    BY <1>5, <2>1 DEF NavigationInv
  <2> QED
    BY <1>1, <2>1, <2>2
<1>6. ASSUME NEW i \in DOMAIN events', Navigation(i)', \A j \in DOMAIN events' : j > i => ~ Navigation(j)'
      PROVE  events'[i][2] = document
  BY <1>1, <1>2, <1>3, <1>6 DEF NavigationInv
<1>7. (\A i \in DOMAIN events' : ~ Navigation(i)') => navigation = document
  BY <1>1, <1>2 DEF NavigationInv
<1> QED
  BY <1>4, <1>5, <1>6, <1>7 DEF NavigationInv

LEMMA NavigationNext == TypeOK /\ NavigationInv /\ [Next]_vars => NavigationInv'
<1> SUFFICES ASSUME TypeOK, NavigationInv, [Next]_vars PROVE NavigationInv'
  OBVIOUS
<1> USE DEF stateVars, toolVars, chromeVars, historyVars
<1>1. ASSUME NEW d \in Dialogs, Opens(d) PROVE NavigationInv'
  <2>1. <<"opening", d>> \in Events
    BY DEF Events
  <2> QED
    BY <1>1, <2>1, NavigationSays DEF Opens
<1>2. CASE UserAnswers
  <2>1. <<"closed", NoDialog>> \in Events
    BY DEF Events
  <2> QED
    BY <1>2, <2>1, NavigationSays DEF UserAnswers
<1>3. CASE Navigates
  <2>1. <<"navigated", document'>> \in Events
    BY <1>3 DEF Events, Navigates, TypeOK
  <2>2. /\ Len(events) \in Nat /\ DOMAIN events = 1 .. Len(events)
        /\ DOMAIN events' = 1 .. Len(events) + 1
        /\ \A i \in DOMAIN events : events'[i] = events[i]
        /\ events'[Len(events) + 1] = <<"navigated", document + 1>>
        /\ document' = document + 1 /\ UNCHANGED navigation
    BY <1>3, <2>1, SaysFacts DEF Navigates
  <2> DEFINE n == Len(events) + 1
  <2>3. \A i \in DOMAIN events' : i \in Nat /\ (Navigation(i)' <=> i = n \/ Navigation(i))
    BY <2>2 DEF Navigation
  <2>4. ASSUME NEW i \in DOMAIN events', Navigation(i)', \A j \in 1 .. i - 1 : ~ Navigation(j)'
        PROVE  events'[i][2] = navigation + 1
    <3>1. \A j \in 1 .. i - 1 : ~ Navigation(j)
      BY <2>2, <2>3, <2>4
    <3>2. CASE i \in DOMAIN events
      BY <2>2, <2>3, <2>4, <3>1, <3>2 DEF NavigationInv
    <3>3. CASE i = n
      <4>1. \A j \in DOMAIN events : ~ Navigation(j)
        BY <2>2, <3>1, <3>3
      <4> QED
        BY <2>2, <3>3, <4>1 DEF NavigationInv
    <3> QED
      BY <2>2, <3>2, <3>3
  <2>5. ASSUME NEW i \in DOMAIN events', NEW k \in DOMAIN events', i < k, Navigation(i)', Navigation(k)',
               \A j \in i + 1 .. k - 1 : ~ Navigation(j)'
        PROVE  events'[k][2] = events'[i][2] + 1
    <3>1. i \in DOMAIN events /\ Navigation(i)
      BY <2>2, <2>3, <2>5
    <3>2. CASE k \in DOMAIN events
      <4>1. Navigation(k) /\ \A j \in i + 1 .. k - 1 : ~ Navigation(j)
        BY <2>2, <2>3, <2>5, <3>2
      <4> QED
        BY <2>2, <2>5, <3>1, <3>2, <4>1 DEF NavigationInv
    <3>3. CASE k = n
      <4>1. \A j \in DOMAIN events : j > i => ~ Navigation(j)
        BY <2>2, <2>3, <2>5, <3>3
      <4>2. events[i][2] = document
        BY <3>1, <4>1 DEF NavigationInv
      <4> QED
        BY <2>2, <3>1, <3>3, <4>2
    <3> QED
      BY <2>2, <2>5, <3>2, <3>3
  <2>6. ASSUME NEW i \in DOMAIN events', Navigation(i)', \A j \in DOMAIN events' : j > i => ~ Navigation(j)'
        PROVE  events'[i][2] = document'
    <3>1. n \in DOMAIN events' /\ ~ (n > i)
      BY <2>2, <2>3, <2>6
    <3> QED
      BY <2>2, <3>1
  <2> QED
    BY <2>2, <2>3, <2>4, <2>5, <2>6 DEF NavigationInv
<1>4. CASE SubframeNavigates
  <2>1. <<"subframe", document>> \in Events
    BY DEF Events, TypeOK
  <2> QED
    BY <1>4, <2>1, NavigationSays DEF SubframeNavigates
<1>5. CASE Observe
  <2>1. /\ 1 \in DOMAIN events /\ events[1] = Head(events) /\ navigation \in Nat
        /\ Len(events) \in Nat /\ DOMAIN events = 1 .. Len(events)
        /\ DOMAIN events' = 1 .. Len(events) - 1
        /\ \A i \in DOMAIN events' : events'[i] = events[i + 1]
    BY <1>5, ObserveFacts DEF TypeOK
  <2>2. UNCHANGED document
    BY <1>5 DEF Observe
  <2>3. navigation' = IF Navigation(1) THEN navigation + 1 ELSE navigation
    BY <1>5, <2>1
    DEF Observe, FrameNavigated, SubframeNavigated, DialogOpening, DialogClosed, Navigation
  <2>4. \A i \in DOMAIN events' : i + 1 \in DOMAIN events /\ (Navigation(i)' <=> Navigation(i + 1))
    BY <2>1 DEF Navigation
  <2>5. ASSUME NEW i \in DOMAIN events', Navigation(i)', \A j \in 1 .. i - 1 : ~ Navigation(j)'
        PROVE  events'[i][2] = navigation' + 1
    <3>1. Navigation(i + 1) /\ \A j \in 2 .. i : ~ Navigation(j)
      <4>1. ASSUME NEW j \in 2 .. i PROVE ~ Navigation(j)
        <5>1. j - 1 \in 1 .. i - 1 /\ j - 1 \in DOMAIN events'
          BY <2>1
        <5> QED
          BY <2>4, <2>5, <5>1, <2>1
      <4> QED
        BY <2>4, <2>5, <4>1
    <3>2. CASE Navigation(1)
      <4>1. events[1][2] = navigation + 1
        BY <2>1, <3>2 DEF NavigationInv
      <4>2. events[i + 1][2] = events[1][2] + 1
        BY <2>1, <3>1, <3>2 DEF NavigationInv
      <4> QED
        BY <2>1, <2>3, <3>2, <4>1, <4>2
    <3>3. CASE ~ Navigation(1)
      <4>1. \A j \in 1 .. i : ~ Navigation(j)
        BY <2>1, <3>1, <3>3
      <4>2. events[i + 1][2] = navigation + 1
        BY <2>1, <3>1, <4>1 DEF NavigationInv
      <4> QED
        BY <2>1, <2>3, <3>3, <4>2
    <3> QED
      BY <3>2, <3>3
  <2>6. ASSUME NEW i \in DOMAIN events', NEW k \in DOMAIN events', i < k, Navigation(i)', Navigation(k)',
               \A j \in i + 1 .. k - 1 : ~ Navigation(j)'
        PROVE  events'[k][2] = events'[i][2] + 1
    <3>1. ASSUME NEW j \in i + 2 .. k PROVE ~ Navigation(j)
      <4>1. j - 1 \in i + 1 .. k - 1 /\ j - 1 \in DOMAIN events'
        BY <2>1
      <4> QED
        BY <2>1, <2>4, <2>6, <4>1
    <3>2. Navigation(i + 1) /\ Navigation(k + 1) /\ i + 1 < k + 1
      BY <2>1, <2>4, <2>6
    <3>3. \A j \in (i + 1) + 1 .. (k + 1) - 1 : ~ Navigation(j)
      BY <2>1, <3>1
    <3>4. events[k + 1][2] = events[i + 1][2] + 1
      BY <2>4, <3>2, <3>3 DEF NavigationInv
    <3> QED
      BY <2>1, <3>4
  <2>7. ASSUME NEW i \in DOMAIN events', Navigation(i)', \A j \in DOMAIN events' : j > i => ~ Navigation(j)'
        PROVE  events'[i][2] = document
    <3>1. ASSUME NEW j \in DOMAIN events, j > i + 1 PROVE ~ Navigation(j)
      <4>1. j - 1 \in DOMAIN events' /\ j - 1 > i
        BY <2>1, <3>1
      <4> QED
        BY <2>1, <2>4, <2>7, <4>1
    <3> QED
      BY <2>1, <2>4, <2>7, <3>1 DEF NavigationInv
  <2>8. ASSUME \A i \in DOMAIN events' : ~ Navigation(i)' PROVE navigation' = document
    <3>1. ASSUME NEW j \in DOMAIN events, j > 1 PROVE ~ Navigation(j)
      <4>1. j - 1 \in DOMAIN events'
        BY <2>1, <3>1
      <4> QED
        BY <2>1, <2>4, <2>8, <4>1
    <3>2. CASE Navigation(1)
      BY <2>1, <2>3, <3>1, <3>2 DEF NavigationInv
    <3>3. CASE ~ Navigation(1)
      BY <2>1, <2>3, <3>1, <3>3 DEF NavigationInv
    <3> QED
      BY <3>2, <3>3
  <2> QED
    BY <2>2, <2>5, <2>6, <2>7, <2>8 DEF NavigationInv
<1>6. ASSUME NEW t \in Tools, ExecuteAnswer(t) PROVE NavigationInv'
  <2>1. <<"closed", NoDialog>> \in Events
    BY DEF Events
  <2> QED
    BY <1>6, <2>1, NavigationSays DEF ExecuteAnswer
<1>7. CASE \E t \in Tools :
              \/ Fails(t) \/ Arrives(t) \/ HandleDialog(t) \/ ClearDialog(t) \/ SnapshotStep(t)
              \/ TargetStep(t)
  <2>1. UNCHANGED <<navigation, document, events>>
    BY <1>7
    DEF Fails, Arrives, HandleDialog, ClearDialog, SnapshotStep, Snapshot, ExecuteCapture, StoreRefs,
        TargetStep, Target, ExecuteMark, ExecuteAct
  <2> QED
    BY <2>1 DEF NavigationInv, Navigation
<1>8. CASE UNCHANGED vars
  BY <1>8 DEF vars, NavigationInv, Navigation
<1> QED
  BY <1>1, <1>2, <1>3, <1>4, <1>5, <1>6, <1>7, <1>8 DEF Next, Chrome, DialogStep

(***************************************************************************)
(* RefsFollowNavigation.                                                   *)
(***************************************************************************)
LEMMA RefsInit == Init => RefsInv
  BY DEF Init, RefsInv, RefsFollowNavigation

\* A step of another tool, or one that only adds to the events under way.
LEMMA RefsSame ==
    ASSUME TypeOK, RefsInv, UNCHANGED <<navigation, refs, overtaken, lateRefs>>,
           \A i \in DOMAIN events : i \in DOMAIN events' /\ events'[i] = events[i],
           \A t \in Tools : pc'[t] \in {"captured", "store"} =>
               pc'[t] = pc[t] /\ got'[t] = got[t] /\ ahead'[t] = ahead[t]
    PROVE  RefsInv'
<1>1. \A i : Navigation(i) => Navigation(i)'
  BY DEF Navigation
<1>2. \A t \in Tools : pc'[t] \in {"captured", "store"} => (Current(t) => Current(t)')
  BY DEF Current
<1> QED
  BY <1>1, <1>2 DEF RefsInv, RefsFollowNavigation

LEMMA RefsNext == TypeOK /\ NavigationInv /\ RefsInv /\ [Next]_vars => RefsInv'
<1> SUFFICES ASSUME TypeOK, NavigationInv, RefsInv, [Next]_vars PROVE RefsInv'
  OBVIOUS
<1> USE DEF stateVars, toolVars, chromeVars, historyVars
<1>1. CASE Chrome
  <2>1. \A i \in DOMAIN events : i \in DOMAIN events' /\ events'[i] = events[i]
    <3>1. ASSUME NEW d \in Dialogs, Opens(d) PROVE \A i \in DOMAIN events : i \in DOMAIN events' /\ events'[i] = events[i]
      <4>1. <<"opening", d>> \in Events
        BY DEF Events
      <4> QED
        BY <3>1, <4>1, SaysFacts DEF Opens
    <3>2. ASSUME UserAnswers PROVE \A i \in DOMAIN events : i \in DOMAIN events' /\ events'[i] = events[i]
      <4>1. <<"closed", NoDialog>> \in Events
        BY DEF Events
      <4> QED
        BY <3>2, <4>1, SaysFacts DEF UserAnswers
    <3>3. ASSUME Navigates PROVE \A i \in DOMAIN events : i \in DOMAIN events' /\ events'[i] = events[i]
      <4>1. <<"navigated", document'>> \in Events
        BY <3>3 DEF Events, Navigates, TypeOK
      <4> QED
        BY <3>3, <4>1, SaysFacts DEF Navigates
    <3>4. ASSUME SubframeNavigates PROVE \A i \in DOMAIN events : i \in DOMAIN events' /\ events'[i] = events[i]
      <4>1. <<"subframe", document>> \in Events
        BY DEF Events, TypeOK
      <4> QED
        BY <3>4, <4>1, SaysFacts DEF SubframeNavigates
    <3> QED
      BY <1>1, <3>1, <3>2, <3>3, <3>4 DEF Chrome
  <2>2. UNCHANGED <<navigation, refs, overtaken, lateRefs, pc, got, ahead>>
    BY <1>1 DEF Chrome, Opens, UserAnswers, Navigates, SubframeNavigates
  <2> QED
    BY <2>1, <2>2, RefsSame
<1>2. CASE Observe
  <2>1. /\ 1 \in DOMAIN events /\ events[1] = Head(events)
        /\ Len(events) \in Nat /\ DOMAIN events = 1 .. Len(events)
        /\ DOMAIN events' = 1 .. Len(events) - 1
        /\ \A i \in DOMAIN events' : events'[i] = events[i + 1]
    BY <1>2, ObserveFacts
  <2>2. UNCHANGED <<pc, got>> /\ ahead' = [t \in Tools |-> IF ahead[t] = 0 THEN 0 ELSE ahead[t] - 1]
    BY <1>2 DEF Observe
  <2>3. CASE Navigation(1)
    <3>1. FrameNavigated
      BY <1>2, <2>1, <2>3 DEF Observe, Navigation
    <3> QED
      BY <2>2, <3>1 DEF FrameNavigated, RefsInv, RefsFollowNavigation
  <2>4. CASE ~ Navigation(1)
    <3>1. UNCHANGED <<navigation, refs, overtaken, lateRefs>>
      BY <1>2, <2>1, <2>4
      DEF Observe, Navigation, SubframeNavigated, DialogOpening, DialogClosed
    <3>2. \A t \in Tools : Current(t)' <=> Current(t)
      BY <2>2, <3>1 DEF Current
    <3>3. ASSUME NEW t \in Tools, NEW i \in 1 .. ahead[t], Navigation(i)
          PROVE  \E j \in 1 .. ahead'[t] : Navigation(j)'
      <4>1. ahead[t] \in Nat /\ ahead[t] >= i /\ i > 1 /\ i \in Nat
        BY <2>4, <3>3 DEF TypeOK
      <4>2. ahead'[t] = ahead[t] - 1
        BY <2>2, <4>1
      <4>3. i - 1 \in 1 .. ahead'[t]
        BY <4>1, <4>2
      <4>4. Navigation(i - 1)'
        BY <2>1, <3>3, <4>1 DEF Navigation
      <4> QED
        BY <4>3, <4>4
    <3> QED
      BY <2>2, <3>1, <3>2, <3>3 DEF RefsInv, RefsFollowNavigation
  <2> QED
    BY <2>3, <2>4
<1>3. ASSUME NEW t \in Tools, Arrives(t) PROVE RefsInv'
  <2>1. UNCHANGED <<navigation, refs, overtaken, lateRefs, got, ahead, events>> /\ ahead[t] = 0
    BY <1>3 DEF Arrives
  <2>2. \A u \in Tools : pc'[u] = "captured" => pc[u] = "captured"
    BY <1>3 DEF Arrives, At, TypeOK
  <2>3. \A u \in Tools : pc'[u] = "store" => pc[u] = "store" \/ (u = t /\ pc[u] = "captured")
    BY <1>3 DEF Arrives, At, TypeOK
  <2>4. \A u \in Tools : \A i : (Current(u)' <=> Current(u)) /\ (Navigation(i)' <=> Navigation(i))
    BY <2>1 DEF Current, Navigation
  <2>5. pc[t] = "captured" => t \in overtaken \/ Current(t)
    BY <2>1 DEF RefsInv
  <2> QED
    BY <2>1, <2>2, <2>3, <2>4, <2>5 DEF RefsInv, RefsFollowNavigation
<1>4. ASSUME NEW t \in Tools, Snapshot(t) PROVE RefsInv'
  <2>1. UNCHANGED <<navigation, refs, lateRefs, got, ahead, events>> /\ overtaken' = overtaken \ {t}
    BY <1>4 DEF Snapshot
  <2>2. \A u \in Tools : pc'[u] \in {"captured", "store"} => u # t /\ pc[u] = pc'[u]
    BY <1>4 DEF Snapshot, At, TypeOK
  <2>3. \A u \in Tools : \A i : (Current(u)' <=> Current(u)) /\ (Navigation(i)' <=> Navigation(i))
    BY <2>1 DEF Current, Navigation
  <2> QED
    BY <2>1, <2>2, <2>3 DEF RefsInv, RefsFollowNavigation
<1>5. ASSUME NEW t \in Tools, ExecuteCapture(t) PROVE RefsInv'
  <2>1. UNCHANGED <<navigation, refs, overtaken, lateRefs, events>>
    BY <1>5 DEF ExecuteCapture
  <2>2. ahead' = [ahead EXCEPT ![t] = Len(events)]
    BY <1>5 DEF ExecuteCapture, Replies
  <2>3. PICK listing \in Listings : got' = [got EXCEPT ![t] = listing]
    BY <1>5 DEF ExecuteCapture, Gets
  <2>4. \A u \in Tools : pc'[u] \in {"captured", "store"} => u = t \/ pc[u] = pc'[u]
    BY <1>5 DEF ExecuteCapture, At, TypeOK
  <2>5. pc'[t] = "captured"
    BY <1>5 DEF ExecuteCapture, At, TypeOK
  <2>6. \A u \in Tools : \A i : (u # t => (Current(u)' <=> Current(u))) /\ (Navigation(i)' <=> Navigation(i))
    BY <2>1, <2>3 DEF Current, Navigation, TypeOK
  <2>7. \A k \in DOMAIN listing : listing[k][1] = document
    BY <2>3 DEF Listings
  <2>8. (\E i \in 1 .. ahead'[t] : Navigation(i)) \/ Current(t)'
    <3>1. ahead'[t] = Len(events) /\ got'[t] = listing /\ DOMAIN events = 1 .. Len(events)
      BY <2>2, <2>3 DEF TypeOK
    <3> QED
      BY <2>1, <2>7, <3>1 DEF NavigationInv, Navigation, Current
  <2>9. \A u \in Tools : u # t => ahead'[u] = ahead[u]
    BY <2>2 DEF TypeOK
  <2> QED
    BY <2>1, <2>4, <2>5, <2>6, <2>8, <2>9 DEF RefsInv, RefsFollowNavigation
<1>6. ASSUME NEW t \in Tools, StoreRefs(t) PROVE RefsInv'
  <2>1. /\ UNCHANGED <<navigation, overtaken, got, ahead, events>>
        /\ refs' = got[t] /\ lateRefs' = (t \in overtaken) /\ pc[t] = "store"
    BY <1>6 DEF StoreRefs, At
  <2>2. \A u \in Tools : pc'[u] \in {"captured", "store"} => pc[u] = pc'[u]
    BY <1>6 DEF StoreRefs, At, TypeOK
  <2>3. \A u \in Tools : \A i : (Current(u)' <=> Current(u)) /\ (Navigation(i)' <=> Navigation(i))
    BY <2>1 DEF Current, Navigation
  <2>4. RefsFollowNavigation'
    <3>1. t \in overtaken \/ Current(t)
      BY <2>1 DEF RefsInv
    <3> QED
      BY <2>1, <3>1 DEF RefsFollowNavigation, Current
  <2> QED
    BY <2>1, <2>2, <2>3, <2>4 DEF RefsInv
<1>7. ASSUME NEW t \in Tools, ExecuteAnswer(t) PROVE RefsInv'
  <2>1. <<"closed", NoDialog>> \in Events
    BY DEF Events
  <2>2. \A i \in DOMAIN events : i \in DOMAIN events' /\ events'[i] = events[i]
    BY <1>7, <2>1, SaysFacts DEF ExecuteAnswer
  <2>3. \A u \in Tools : pc'[u] \in {"captured", "store"} =>
            pc'[u] = pc[u] /\ got'[u] = got[u] /\ ahead'[u] = ahead[u]
    BY <1>7 DEF ExecuteAnswer, At, Gets, Replies, TypeOK
  <2>4. UNCHANGED <<navigation, refs, overtaken, lateRefs>>
    BY <1>7 DEF ExecuteAnswer
  <2> QED
    BY <2>2, <2>3, <2>4, RefsSame
<1>8. ASSUME NEW t \in Tools,
             Fails(t) \/ HandleDialog(t) \/ ClearDialog(t) \/ TargetStep(t)
      PROVE  RefsInv'
  <2>1. UNCHANGED <<navigation, refs, overtaken, lateRefs, events>>
    BY <1>8 DEF Fails, HandleDialog, ClearDialog, TargetStep, Target, ExecuteMark, ExecuteAct
  <2>2. \A u \in Tools : pc'[u] \in {"captured", "store"} =>
            pc'[u] = pc[u] /\ got'[u] = got[u] /\ ahead'[u] = ahead[u]
    BY <1>8
    DEF Fails, HandleDialog, ClearDialog, TargetStep, Target, ExecuteMark, ExecuteAct, At, Gets, TypeOK
  <2> QED
    BY <2>1, <2>2, RefsSame
<1>9. CASE UNCHANGED vars
  BY <1>9, RefsSame DEF vars
<1> QED
  BY <1>1, <1>2, <1>3, <1>4, <1>5, <1>6, <1>7, <1>8, <1>9 DEF Next, DialogStep, SnapshotStep

\* References outlive a navigation only if a snapshot under way brings them back
\* (FrameNavigated, BrowserSnapshot).
THEOREM RefsFollow == Spec => []RefsFollowNavigation
<1>1. Init => TypeOK /\ NavigationInv /\ RefsInv
  BY TypeInit, NavigationInit, RefsInit
<1>2. TypeOK /\ NavigationInv /\ RefsInv /\ [Next]_vars => (TypeOK /\ NavigationInv /\ RefsInv)'
  BY TypeNext, NavigationNext, RefsNext
<1>3. RefsInv => RefsFollowNavigation
  BY DEF RefsInv
<1> QED
  BY <1>1, <1>2, <1>3, PTL DEF Spec

(***************************************************************************)
(* DialogFollows.                                                          *)
(***************************************************************************)
LEMMA DialogInit == Init => DialogInv
  BY DEF Init, DialogInv, DialogEvent, Followed

\* A dialog event is put behind those under way.
LEMMA DialogSays ==
    ASSUME TypeOK, NEW e \in Events, e[1] \in {"opening", "closed"}, e[2] = shown',
           events' = Append(events, e)
    PROVE  /\ \A i \in DOMAIN events' :
                 DialogEvent(i)' /\ (\A j \in DOMAIN events' : j > i => ~ DialogEvent(j)') =>
                     events'[i][2] = shown'
           /\ ~ \A i \in DOMAIN events' : ~ DialogEvent(i)'
<1> DEFINE n == Len(events) + 1
<1>1. DOMAIN events' = 1 .. n /\ Len(events) \in Nat /\ events'[n] = e
  BY SaysFacts
<1>2. \A i : i = n => DialogEvent(i)'
  BY <1>1 DEF DialogEvent
<1> QED
  BY <1>1, <1>2

\* An event of another kind is.
LEMMA DialogSaysOther ==
    ASSUME TypeOK, DialogInv, NEW e \in Events, e[1] \notin {"opening", "closed"},
           events' = Append(events, e), UNCHANGED <<dialog, shown, pc, got, opened, lostDialogs>>
    PROVE  DialogInv'
<1>1. /\ Len(events) \in Nat /\ DOMAIN events = 1 .. Len(events)
      /\ DOMAIN events' = 1 .. Len(events) + 1
      /\ \A i \in DOMAIN events : events'[i] = events[i]
      /\ events'[Len(events) + 1] = e
  BY SaysFacts
<1>2. \A i \in DOMAIN events' : (DialogEvent(i)' <=> DialogEvent(i)) /\ (DialogEvent(i)' => i \in DOMAIN events)
  BY <1>1 DEF DialogEvent
<1>3. Followed' <=> Followed
  BY DEF Followed
<1>4. ASSUME NEW i \in DOMAIN events', DialogEvent(i)', \A j \in DOMAIN events' : j > i => ~ DialogEvent(j)'
      PROVE  events'[i][2] = shown
  BY <1>1, <1>2, <1>4 DEF DialogInv
<1>5. (\A i \in DOMAIN events' : ~ DialogEvent(i)') => Followed'
  BY <1>1, <1>2, <1>3 DEF DialogInv
<1> QED
  BY <1>4, <1>5 DEF DialogInv

LEMMA DialogNext == TypeOK /\ DialogInv /\ [Next]_vars => DialogInv'
<1> SUFFICES ASSUME TypeOK, DialogInv, [Next]_vars PROVE DialogInv'
  OBVIOUS
<1> USE DEF stateVars, toolVars, chromeVars, historyVars
<1>1. ASSUME NEW d \in Dialogs, Opens(d) PROVE DialogInv'
  <2>1. <<"opening", d>> \in Events
    BY DEF Events
  <2>2. /\ shown' = d /\ events' = Append(events, <<"opening", d>>)
        /\ UNCHANGED <<pc, got>> /\ opened' = opened \cup {d} /\ d \notin opened
    BY <1>1 DEF Opens
  <2> QED
    BY <2>1, <2>2, DialogSays DEF DialogInv
<1>2. CASE UserAnswers
  <2>1. <<"closed", NoDialog>> \in Events
    BY DEF Events
  <2>2. /\ shown' = NoDialog /\ events' = Append(events, <<"closed", NoDialog>>)
        /\ UNCHANGED <<pc, got, opened>>
    BY <1>2 DEF UserAnswers
  <2>3. NoDialog \notin opened
    BY PageAssumption DEF TypeOK
  <2> QED
    BY <2>1, <2>2, <2>3, DialogSays DEF DialogInv
<1>3. CASE Navigates
  <2>1. <<"navigated", document'>> \in Events
    BY <1>3 DEF Events, Navigates, TypeOK
  <2> QED
    BY <1>3, <2>1, DialogSaysOther DEF Navigates
<1>4. CASE SubframeNavigates
  <2>1. <<"subframe", document>> \in Events
    BY DEF Events, TypeOK
  <2> QED
    BY <1>4, <2>1, DialogSaysOther DEF SubframeNavigates
<1>5. CASE Observe
  <2>1. /\ 1 \in DOMAIN events /\ events[1] = Head(events) /\ Head(events) \in Events
        /\ Len(events) \in Nat /\ DOMAIN events = 1 .. Len(events)
        /\ DOMAIN events' = 1 .. Len(events) - 1
        /\ \A i \in DOMAIN events' : events'[i] = events[i + 1]
    BY <1>5, ObserveFacts
  <2>2. UNCHANGED <<shown, pc, got, opened, lostDialogs>>
    BY <1>5
    DEF Observe, FrameNavigated, SubframeNavigated, DialogOpening, DialogClosed
  <2>3. dialog' = IF DialogEvent(1) THEN Head(events)[2] ELSE dialog
    BY <1>5, <2>1
    DEF Observe, FrameNavigated, SubframeNavigated, DialogOpening, DialogClosed, DialogEvent, Events
  <2>4. \A i \in DOMAIN events' : i + 1 \in DOMAIN events /\ (DialogEvent(i)' <=> DialogEvent(i + 1))
    BY <2>1 DEF DialogEvent
  <2>5. ASSUME NEW i \in DOMAIN events', DialogEvent(i)', \A j \in DOMAIN events' : j > i => ~ DialogEvent(j)'
        PROVE  events'[i][2] = shown
    <3>1. ASSUME NEW j \in DOMAIN events, j > i + 1 PROVE ~ DialogEvent(j)
      <4>1. j - 1 \in DOMAIN events' /\ j - 1 > i
        BY <2>1, <3>1
      <4> QED
        BY <2>1, <2>4, <2>5, <4>1
    <3> QED
      BY <2>1, <2>4, <2>5, <3>1 DEF DialogInv
  <2>6. ASSUME \A i \in DOMAIN events' : ~ DialogEvent(i)' PROVE Followed'
    <3>1. ASSUME NEW j \in DOMAIN events, j > 1 PROVE ~ DialogEvent(j)
      <4>1. j - 1 \in DOMAIN events'
        BY <2>1, <3>1
      <4> QED
        BY <2>1, <2>4, <2>6, <4>1
    <3>2. CASE DialogEvent(1)
      BY <2>1, <2>2, <2>3, <3>1, <3>2 DEF DialogInv, Followed
    <3>3. CASE ~ DialogEvent(1)
      BY <2>1, <2>2, <2>3, <3>1, <3>3 DEF DialogInv, Followed
    <3> QED
      BY <3>2, <3>3
  <2> QED
    BY <2>2, <2>5, <2>6 DEF DialogInv
<1>6. ASSUME NEW t \in Tools, ExecuteAnswer(t) PROVE DialogInv'
  <2>1. <<"closed", NoDialog>> \in Events
    BY DEF Events
  <2>2. /\ shown' = NoDialog /\ events' = Append(events, <<"closed", NoDialog>>)
        /\ UNCHANGED opened /\ shown # NoDialog
    BY <1>6 DEF ExecuteAnswer
  <2>3. got' = [got EXCEPT ![t] = shown] /\ pc' = [pc EXCEPT ![t] = "answered"]
    BY <1>6 DEF ExecuteAnswer, Gets, At
  <2>4. NoDialog \notin opened
    BY PageAssumption DEF TypeOK
  <2>5. \A u \in Tools : pc'[u] \in {"answered", "clear"} => got'[u] \in opened
    BY <2>2, <2>3 DEF DialogInv, TypeOK
  <2> QED
    BY <2>1, <2>2, <2>4, <2>5, DialogSays DEF DialogInv
<1>7. ASSUME NEW t \in Tools, ClearDialog(t) PROVE DialogInv'
  <2>1. /\ UNCHANGED <<shown, got, opened, events>> /\ pc[t] = "clear" /\ dialog' = NoDialog
        /\ lostDialogs' = IF dialog \in {NoDialog, got[t]} THEN lostDialogs ELSE lostDialogs \cup {dialog}
    BY <1>7 DEF ClearDialog, At
  <2>2. \A u \in Tools : pc'[u] \in {"answered", "clear"} => pc[u] = pc'[u]
    BY <1>7 DEF ClearDialog, At, TypeOK
  <2>3. Followed => Followed'
    BY <2>1 DEF Followed, DialogInv
  <2>4. \A i : DialogEvent(i)' <=> DialogEvent(i)
    BY <2>1 DEF DialogEvent
  <2> QED
    BY <2>1, <2>2, <2>3, <2>4 DEF DialogInv
<1>8. ASSUME NEW t \in Tools,
             \/ Fails(t) \/ Arrives(t) \/ HandleDialog(t) \/ SnapshotStep(t) \/ TargetStep(t)
      PROVE  DialogInv'
  <2>1. UNCHANGED <<dialog, shown, opened, lostDialogs, events>>
    BY <1>8
    DEF Fails, Arrives, HandleDialog, SnapshotStep, Snapshot, ExecuteCapture, StoreRefs,
        TargetStep, Target, ExecuteMark, ExecuteAct
  <2>2. \A u \in Tools : pc'[u] \in {"answered", "clear"} => pc[u] \in {"answered", "clear"} /\ got'[u] = got[u]
    BY <1>8
    DEF Fails, Arrives, HandleDialog, SnapshotStep, Snapshot, ExecuteCapture, StoreRefs,
        TargetStep, Target, ExecuteMark, ExecuteAct, At, Gets, TypeOK
  <2>3. \A i : DialogEvent(i)' <=> DialogEvent(i)
    BY <2>1 DEF DialogEvent
  <2> QED
    BY <2>1, <2>2, <2>3 DEF DialogInv, Followed
<1>9. CASE UNCHANGED vars
  BY <1>9 DEF vars, DialogInv, DialogEvent, Followed
<1> QED
  BY <1>1, <1>2, <1>3, <1>4, <1>5, <1>6, <1>7, <1>8, <1>9 DEF Next, Chrome, DialogStep

\* When no event is under way, p.state has the dialog on screen or lacks it for an
\* answer given to an earlier one (the listener, BrowserHandleDialog).
THEOREM DialogKnown == Spec => []DialogFollows
<1>1. Init => TypeOK /\ DialogInv
  BY TypeInit, DialogInit
<1>2. TypeOK /\ DialogInv /\ [Next]_vars => (TypeOK /\ DialogInv)'
  BY TypeNext, DialogNext
<1>3. DialogInv => DialogFollows
  BY DEF DialogInv, DialogFollows, DialogEvent, Followed
<1> QED
  BY <1>1, <1>2, <1>3, PTL DEF Spec

==============================================================================
