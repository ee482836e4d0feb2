------------------------------ MODULE ToolProofs ------------------------------
(* Proofs of WindowsAreExact (FindWindows), for snapshots of any length, and  *)
(* of WaitKeepsItsTimes (WaitFor), for any limits, pages and deadlines.       *)
EXTENDS FindWindows, WaitFor, SequenceTheorems, WellFoundedInduction, TLAPS

(***************************************************************************)
(* BrowserFind: the windows around the matches.                            *)
(***************************************************************************)
\* The variables have their types; the loop comes to the matches in order.
OrderInv ==
    /\ lines \in Nat
    /\ matched \subseteq 0 .. lines - 1
    /\ todo \subseteq matched
    /\ \A i \in matched \ todo, j \in todo : i < j
    /\ windows \in Seq(Nat \X Nat)

\* The last window ends with the surroundings of a match that has been gathered,
\* and begins no later than they do.
LastInv ==
    windows # <<>> =>
        \E i \in matched \ todo :
            /\ windows[Len(windows)][2] = Last(i)
            /\ windows[Len(windows)][1] <= First(i)

FindInv == OrderInv /\ LastInv /\ WindowsAreExact

\* A set of numbers that is not empty has its least one.
LEMMA LeastIsLeast ==
    ASSUME NEW S \in SUBSET Nat, S # {}
    PROVE  Least(S) \in S /\ \A j \in S : Least(S) <= j
<1> DEFINE R == {p \in Nat \X Nat : p[1] < p[2]}
<1>1. IsWellFoundedOn(R, Nat)
  BY NatLessThanWellFounded DEF OpToRel
<1>2. \E x \in S : \A y \in S : ~ (<<y, x>> \in R)
  <2>1. S \subseteq Nat
    OBVIOUS
  <2> HIDE DEF R
  <2> QED
    BY <1>1, <2>1, WFMin
<1>3. PICK x \in S : \A y \in S : ~ (<<y, x>> \in R)
  BY <1>2
<1>4. ASSUME NEW y \in S PROVE x <= y
  <2>1. ~ (y < x)
    BY <1>3, <1>4
  <2> QED
    BY <2>1
<1> QED
  BY <1>4 DEF Least

LEMMA FindInvInit == FindInit => FindInv
  BY FindAssumption DEF FindInit, FindInv, OrderInv, LastInv, WindowsAreExact, Shown, Wanted

LEMMA FindInvNext == FindInv /\ [FindNext]_findVars => FindInv'
<1> SUFFICES ASSUME FindInv, [FindNext]_findVars PROVE FindInv'
  OBVIOUS
<1>1. CASE UNCHANGED findVars
  BY <1>1
  DEF findVars, FindInv, OrderInv, LastInv, WindowsAreExact, Shown, Wanted, First, Last
<1>2. CASE Gather
  <2>1. lines \in Nat /\ todo # {} /\ todo \in SUBSET Nat /\ UNCHANGED <<lines, matched>>
    BY <1>2 DEF Gather, FindInv, OrderInv
  <2>2. PICK i \in todo : i = Least(todo) /\ \A j \in todo : i <= j
    BY <2>1, LeastIsLeast
  <2>3. /\ todo' = todo \ {i}
        /\ windows' = IF Joins(i) THEN Extend(i) ELSE Append(windows, <<First(i), Last(i)>>)
    BY <1>2, <2>2 DEF Gather
  <2>4. i \in Nat /\ i < lines /\ i \in matched /\ matched \subseteq 0 .. lines - 1
    BY <2>1, <2>2 DEF FindInv, OrderInv
  <2>5. /\ First(i) \in Nat /\ Last(i) \in Nat /\ First(i) <= i /\ i <= Last(i) /\ Last(i) < lines
        /\ \A l \in 0 .. lines - 1 : First(i) <= l /\ l <= Last(i) <=> i - Around <= l /\ l <= i + Around
    BY <2>1, <2>4 DEF First, Last, AtLeast, AtMost, Around
  <2>6. matched \ todo' = (matched \ todo) \cup {i}
    BY <2>2, <2>3, <2>4
  <2>7. \A d \in matched \ todo' : \A j \in todo' : d < j
    BY <2>1, <2>2, <2>3, <2>6 DEF FindInv, OrderInv
  <2>8. Wanted' = Wanted \cup {l \in 0 .. lines - 1 : First(i) <= l /\ l <= Last(i)}
    BY <2>1, <2>5, <2>6 DEF Wanted
  <2>9. PICK n \in Nat : n = Len(windows) /\ windows \in Seq(Nat \X Nat) /\ DOMAIN windows = 1 .. n
    BY DEF FindInv, OrderInv
  <2>13. /\ \A k \in 1 .. n : windows[k] \in Nat \X Nat
         /\ \A k \in 1 .. n : windows[k][1] \in Nat /\ windows[k][2] \in Nat
         /\ \A k \in 1 .. n : windows[k][1] <= windows[k][2] /\ windows[k][2] < lines
         /\ \A j, k \in 1 .. n : j < k => windows[j][2] + 1 < windows[k][1]
    <3>1. \A k \in 1 .. n : windows[k] \in Nat \X Nat
      BY <2>9
    <3> QED
      BY <2>9, <3>1 DEF FindInv, WindowsAreExact
  <2>10. \A d \in matched \ todo : /\ First(d) \in Int /\ Last(d) \in Int
                                   /\ First(d) <= First(i) /\ Last(d) <= Last(i)
    BY <2>1, <2>2, <2>4 DEF FindInv, OrderInv, First, Last, AtLeast, AtMost, Around
  <2>11. CASE Joins(i)
    <3>1. n > 0 /\ n \in 1 .. n /\ First(i) <= windows[n][2] + 1
      BY <2>9, <2>11, EmptySeq DEF Joins
    <3>2. PICK d \in matched \ todo : windows[n][2] = Last(d) /\ windows[n][1] <= First(d)
      BY <2>9, <3>1 DEF FindInv, LastInv
    <3>3. windows[n][2] <= Last(i) /\ windows[n][1] <= First(i)
      <4>1. First(d) <= First(i) /\ Last(d) <= Last(i) /\ First(d) \in Int /\ Last(d) \in Int
        BY <2>10
      <4>2. windows[n][1] \in Nat /\ windows[n][2] \in Nat
        BY <2>13, <3>1
      <4> QED
        BY <2>5, <3>2, <4>1, <4>2
    <3>4. windows' = [windows EXCEPT ![n] = <<windows[n][1], Last(i)>>]
      <4>1. AtLeast(windows[n][2], Last(i)) = Last(i)
        BY <2>5, <2>13, <3>1, <3>3 DEF AtLeast
      <4> QED
        BY <2>3, <2>9, <2>11, <4>1 DEF Extend
    <3>5. <<windows[n][1], Last(i)>> \in Nat \X Nat
      BY <2>5, <2>13, <3>1
    <3>6. /\ windows' \in Seq(Nat \X Nat) /\ DOMAIN windows' = 1 .. n /\ Len(windows') = n
          /\ windows'[n] = <<windows[n][1], Last(i)>>
          /\ \A k \in 1 .. n : k # n => windows'[k] = windows[k]
      BY <2>9, <3>1, <3>4, <3>5
    <3>7. windows'[n][1] = windows[n][1] /\ windows'[n][2] = Last(i)
      BY <3>6
    <3>8. ASSUME NEW l \in 0 .. lines - 1
          PROVE  l \in Shown' <=> l \in Shown \/ (First(i) <= l /\ l <= Last(i))
      <4>1. l \in Shown' <=> \E k \in 1 .. n : windows'[k][1] <= l /\ l <= windows'[k][2]
        BY <2>1, <3>6 DEF Shown
      <4>2. windows[n][1] <= l /\ l <= Last(i) <=>
              (windows[n][1] <= l /\ l <= windows[n][2]) \/ (First(i) <= l /\ l <= Last(i))
        BY <2>5, <2>13, <3>1, <3>3
      <4>3. l \in Shown <=> \E k \in 1 .. n : windows[k][1] <= l /\ l <= windows[k][2]
        BY <2>9 DEF Shown
      <4>4. \A k \in 1 .. n : k # n =>
              (windows'[k][1] <= l /\ l <= windows'[k][2] <=> windows[k][1] <= l /\ l <= windows[k][2])
        BY <3>6
      <4>5. windows'[n][1] <= l /\ l <= windows'[n][2] <=>
              (windows[n][1] <= l /\ l <= windows[n][2]) \/ (First(i) <= l /\ l <= Last(i))
        BY <3>7, <4>2
      <4> QED
        BY <3>1, <4>1, <4>3, <4>4, <4>5
    <3>9. \A k \in DOMAIN windows' :
             0 <= windows'[k][1] /\ windows'[k][1] <= windows'[k][2] /\ windows'[k][2] < lines
      <4> SUFFICES ASSUME NEW k \in 1 .. n
                   PROVE  0 <= windows'[k][1] /\ windows'[k][1] <= windows'[k][2] /\ windows'[k][2] < lines
        BY <3>6
      <4>1. windows[k][1] \in Nat /\ windows[k][2] \in Nat
            /\ windows[k][1] <= windows[k][2] /\ windows[k][2] < lines
        BY <2>13
      <4>2. CASE k # n
        BY <3>6, <4>1, <4>2
      <4>3. CASE k = n
        <5>1. windows'[k][1] = windows[k][1] /\ windows'[k][2] = Last(i)
          BY <3>7, <4>3
        <5>2. windows[k][2] <= Last(i)
          BY <3>3, <4>3
        <5> QED
          BY <2>1, <2>5, <4>1, <5>1, <5>2
      <4> QED
        BY <4>2, <4>3
    <3>10. \A j, k \in DOMAIN windows' : j < k => windows'[j][2] + 1 < windows'[k][1]
      <4>1. \A k \in 1 .. n : windows'[k][1] = windows[k][1]
        BY <3>6, <3>7
      <4>2. \A j, k \in 1 .. n : j < k => j # n
        OBVIOUS
      <4> QED
        BY <2>13, <3>6, <4>1, <4>2
    <3>11. OrderInv'
      BY <2>1, <2>3, <2>4, <2>7, <3>6 DEF FindInv, OrderInv
    <3>12. LastInv'
      <4>1. Last(i)' = Last(i) /\ First(i)' = First(i)
        BY <2>1 DEF First, Last
      <4>2. windows'[Len(windows')][2] = Last(i)' /\ windows'[Len(windows')][1] <= First(i)'
        BY <3>3, <3>6, <3>7, <4>1
      <4>3. i \in (matched \ todo)'
        BY <2>1, <2>6
      <4> QED
        BY <4>2, <4>3 DEF LastInv
    <3> QED
      BY <2>1, <2>8, <3>8, <3>9, <3>10, <3>11, <3>12 DEF FindInv, WindowsAreExact, Shown, Wanted
  <2>12. CASE ~ Joins(i)
    <3>1. n > 0 => windows[n][2] + 1 < First(i)
      <4>1. n > 0 => windows # <<>> /\ windows[n][2] \in Nat
        BY <2>9, <2>13, EmptySeq
      <4> QED
        BY <2>5, <2>9, <2>12, <4>1 DEF Joins
    <3>2. <<First(i), Last(i)>> \in Nat \X Nat
      BY <2>5
    <3>3. /\ windows' \in Seq(Nat \X Nat) /\ DOMAIN windows' = 1 .. n + 1 /\ Len(windows') = n + 1
          /\ windows'[n + 1] = <<First(i), Last(i)>>
          /\ \A k \in 1 .. n : windows'[k] = windows[k]
      BY <2>3, <2>9, <2>12, <3>2
    <3>4. windows'[n + 1][1] = First(i) /\ windows'[n + 1][2] = Last(i)
      BY <3>3
    <3>5. ASSUME NEW l \in 0 .. lines - 1
          PROVE  l \in Shown' <=> l \in Shown \/ (First(i) <= l /\ l <= Last(i))
      <4>1. l \in Shown' <=> \E k \in 1 .. n + 1 : windows'[k][1] <= l /\ l <= windows'[k][2]
        BY <2>1, <3>3 DEF Shown
      <4>2. l \in Shown <=> \E k \in 1 .. n : windows[k][1] <= l /\ l <= windows[k][2]
        BY <2>9 DEF Shown
      <4>3. \A k \in 1 .. n :
              windows'[k][1] <= l /\ l <= windows'[k][2] <=> windows[k][1] <= l /\ l <= windows[k][2]
        BY <3>3
      <4>4. windows'[n + 1][1] <= l /\ l <= windows'[n + 1][2] <=> First(i) <= l /\ l <= Last(i)
        BY <3>4
      <4>5. \A k : k \in 1 .. n + 1 <=> k \in 1 .. n \/ k = n + 1
        OBVIOUS
      <4> QED
        BY <4>1, <4>2, <4>3, <4>4, <4>5
    <3>6. \A k \in DOMAIN windows' :
             0 <= windows'[k][1] /\ windows'[k][1] <= windows'[k][2] /\ windows'[k][2] < lines
      <4> SUFFICES ASSUME NEW k \in 1 .. n + 1
                   PROVE  0 <= windows'[k][1] /\ windows'[k][1] <= windows'[k][2] /\ windows'[k][2] < lines
        BY <3>3
      <4>1. CASE k \in 1 .. n
        <5>1. windows'[k] = windows[k]
          BY <3>3, <4>1
        <5>2. windows[k][1] \in Nat /\ windows[k][1] <= windows[k][2] /\ windows[k][2] < lines
          BY <2>13, <4>1
        <5> QED
          BY <5>1, <5>2
      <4>2. CASE k = n + 1
        <5>1. windows'[k][1] = First(i) /\ windows'[k][2] = Last(i)
          BY <3>4, <4>2
        <5> QED
          BY <2>1, <2>4, <2>5, <5>1
      <4> QED
        BY <4>1, <4>2
    <3>7. \A j \in 1 .. n : windows[j][2] + 1 < First(i)
      BY <2>5, <2>13, <3>1
    <3>8. \A j, k \in DOMAIN windows' : j < k => windows'[j][2] + 1 < windows'[k][1]
      <4> SUFFICES ASSUME NEW j \in 1 .. n + 1, NEW k \in 1 .. n + 1, j < k
                   PROVE  windows'[j][2] + 1 < windows'[k][1]
        BY <3>3
      <4>1. CASE k = n + 1
        <5>1. j \in 1 .. n
          BY <4>1
        <5>2. windows'[j] = windows[j] /\ windows[j][2] + 1 < First(i)
          BY <3>3, <3>7, <5>1
        <5>3. windows'[k][1] = First(i)
          BY <3>4, <4>1
        <5> QED
          BY <5>2, <5>3
      <4>2. CASE k \in 1 .. n
        <5>1. j \in 1 .. n
          BY <4>2
        <5>2. windows'[j] = windows[j] /\ windows'[k] = windows[k]
          BY <3>3, <4>2, <5>1
        <5>3. windows[j][2] + 1 < windows[k][1]
          BY <2>13, <4>2, <5>1
        <5> QED
          BY <5>2, <5>3
      <4> QED
        BY <4>1, <4>2
    <3>9. OrderInv'
      BY <2>1, <2>3, <2>4, <2>7, <3>3 DEF FindInv, OrderInv
    <3>10. LastInv'
      <4>1. Last(i)' = Last(i) /\ First(i)' = First(i) /\ First(i) <= First(i)
        BY <2>1, <2>5 DEF First, Last
      <4>2. windows'[Len(windows')][2] = Last(i)' /\ windows'[Len(windows')][1] <= First(i)'
        BY <3>3, <3>4, <4>1
      <4>3. i \in (matched \ todo)'
        BY <2>1, <2>6
      <4> QED
        BY <4>2, <4>3 DEF LastInv
    <3> QED
      BY <2>1, <2>8, <3>5, <3>6, <3>8, <3>9, <3>10 DEF FindInv, WindowsAreExact, Shown, Wanted
  <2> QED
    BY <2>11, <2>12
<1> QED
  BY <1>1, <1>2 DEF FindNext

\* The windows of BrowserFind show the lines around the matches, each once, and
\* are a gap apart, however long the snapshot is and wherever the matches are.
THEOREM Exact == FindSpec => []WindowsAreExact
<1>1. FindInv => WindowsAreExact
  BY DEF FindInv
<1> QED
  BY <1>1, FindInvInit, FindInvNext, PTL DEF FindSpec

(***************************************************************************)
(* BrowserWaitFor: the times of the polls.                                 *)
(***************************************************************************)
\* The time that a poll of each condition may take, and what all of them may.
OneText == Limit + CommandTimeout
Budget(c) == IF c = Conditions THEN OneText + OneText ELSE IF c = {} THEN 0 ELSE OneText
Slept == Shorter(sleep, MaxTime)

\* The variables have their types; the deadline of the context is not passed.
WaitTypeOK ==
    /\ {now, sleep, deadline, timer, polled} \subseteq Nat
    /\ ends \in Nat \cup {Never}
    /\ ends # Never => now <= ends
    /\ wants \subseteq Conditions /\ left \subseteq wants
    /\ at \in {"start", "sleep", "next", "poll", "polled", "decide", "delay", "returned"}
    /\ at # "returned" => outcome = "none"
    /\ at \in {"poll", "polled", "decide", "delay"} => left # {}

\* What has been seen to hold is what is no longer left, and what the poll has found.
MetInv ==
    /\ at \in {"start", "sleep", "next", "poll", "delay"} => met = wants \ left
    /\ at \in {"polled", "decide"} =>
          met = (wants \ left) \cup (IF found THEN {Waiting} ELSE {})

\* The sleep is over before the first text is waited for; each text takes no more of
\* the time than its own, the last poll included; a poll is evaluated on its way.
PaceInv ==
    /\ at = "start" => now = 0 /\ left = wants
    /\ at = "sleep" => now <= timer /\ timer = Slept /\ left = wants
    /\ at \notin {"start", "sleep", "returned"} => now >= Slept
    /\ at = "next" => now + Budget(left) <= Slept + Budget(wants)
    /\ at \in {"poll", "polled", "decide", "delay"} =>
          deadline + Budget(left) <= Slept + Budget(wants) + Limit
    /\ at \in {"poll", "polled"} => timer <= now /\ now <= timer + CommandTimeout
    /\ at \in {"poll", "polled", "delay"} => timer <= deadline
    /\ at = "delay" => now <= timer
    /\ at = "polled" => timer <= polled
    /\ at = "decide" => now <= polled + CommandTimeout /\ now <= deadline + CommandTimeout

\* What the call has kept to when it has returned.
InTime == now <= Slept + Budget(wants)

ReturnInv ==
    at = "returned" =>
        /\ InTime
        /\ outcome = "ok" => now >= Slept /\ met = wants
        /\ outcome = "timeout" => now >= deadline /\ polled + CommandTimeout >= deadline

WaitInv == WaitTypeOK /\ MetInv /\ PaceInv /\ ReturnInv

LEMMA BudgetFacts ==
    ASSUME NEW c, c \subseteq Conditions
    PROVE  /\ OneText \in Nat /\ Budget(c) \in Nat
           /\ \A d \in c : Budget(c) = Budget(c \ {d}) + OneText
<1>1. OneText \in Nat
  BY WaitAssumption DEF OneText
<1>2. c \in {{}, {"textGone"}, {"text"}, Conditions}
  BY DEF Conditions
<1>3. ASSUME NEW d \in c PROVE Budget(c) = Budget(c \ {d}) + OneText
  <2>1. CASE c = Conditions
    BY <1>1, <1>3, <2>1 DEF Budget, Conditions
  <2>2. CASE c # Conditions
    <3>1. c \ {d} = {} /\ c # {}
      BY <1>2, <1>3, <2>2
    <3>2. Budget(c) = OneText
      BY <2>2, <3>1 DEF Budget
    <3>3. Budget(c \ {d}) = 0
      BY <3>1 DEF Budget, Conditions
    <3> QED
      BY <1>1, <3>2, <3>3
  <2> QED
    BY <2>1, <2>2
<1> QED
  BY <1>1, <1>3 DEF Budget

\* WaitKeepsItsTimes, with its product written as a sum.
LEMMA TimesAreSums ==
    ASSUME WaitTypeOK
    PROVE  WaitKeepsItsTimes <=>
             /\ InTime
             /\ outcome = "ok" => now >= Slept /\ met = wants
             /\ outcome = "timeout" => now >= deadline /\ polled + CommandTimeout >= deadline
<1> DEFINE texts == IF wants = Conditions THEN 2 ELSE IF wants = {} THEN 0 ELSE 1
<1>1. OneText \in Nat /\ OneText = Limit + CommandTimeout
  BY WaitAssumption DEF OneText
<1>2. texts * OneText = Budget(wants)
  BY <1>1 DEF Budget
<1>3. ends # Never => now <= ends
  BY DEF WaitTypeOK
<1> QED
  BY <1>1, <1>2, <1>3 DEF WaitKeepsItsTimes, InTime, Slept

\* Until it returns, the call is within its time.
LEMMA WithinTime ==
    ASSUME WaitTypeOK, PaceInv, at # "returned"
    PROVE  InTime
<1>1. /\ Budget(wants) \in Nat /\ Budget(left) \in Nat /\ OneText \in Nat
      /\ left # {} => Budget(left) >= OneText
  <2>1. wants \subseteq Conditions /\ left \subseteq Conditions
    BY DEF WaitTypeOK
  <2>2. \A d \in left : Budget(left \ {d}) \in Nat
    BY <2>1, BudgetFacts
  <2>3. \A d \in left : Budget(left) = Budget(left \ {d}) + OneText
    BY <2>1, BudgetFacts
  <2>4. Budget(wants) \in Nat /\ Budget(left) \in Nat /\ OneText \in Nat
    BY <2>1, BudgetFacts
  <2>5. ASSUME left # {} PROVE Budget(left) >= OneText
    <3>1. PICK d \in left : TRUE
      BY <2>5
    <3> DEFINE rest == Budget(left \ {d})
    <3>2. rest \in Nat /\ Budget(left) = rest + OneText
      BY <2>2, <2>3, <3>1
    <3> HIDE DEF rest
    <3> QED
      BY <2>4, <3>2
  <2> QED
    BY <2>4, <2>5
<1>2. Slept \in Nat
  BY WaitAssumption DEF Slept, Shorter, WaitTypeOK
<1>3. CASE at \in {"start", "sleep", "next"}
  BY <1>1, <1>2, <1>3 DEF PaceInv, InTime, WaitTypeOK
<1>4. CASE at \in {"poll", "polled", "decide", "delay"}
  <2>1. left # {} /\ deadline + Budget(left) <= Slept + Budget(wants) + Limit
    BY <1>4 DEF WaitTypeOK, PaceInv
  <2>2. now <= deadline + CommandTimeout
    BY <1>4, WaitAssumption DEF WaitTypeOK, PaceInv
  <2> QED
    BY <1>1, <1>2, <2>1, <2>2, WaitAssumption DEF InTime, OneText, WaitTypeOK
<1> QED
  BY <1>3, <1>4 DEF WaitTypeOK

LEMMA WaitInvInit == WaitInit => WaitInv
<1> SUFFICES ASSUME WaitInit PROVE WaitInv
  OBVIOUS
<1>1. WaitTypeOK
  BY WaitAssumption DEF WaitInit, WaitTypeOK
<1>2. MetInv /\ PaceInv
  BY DEF WaitInit, MetInv, PaceInv
<1> QED
  BY <1>1, <1>2 DEF WaitInv, WaitInit, ReturnInv

LEMMA WaitInvNext == WaitInv /\ [WaitNext]_waitVars => WaitInv'
<1> SUFFICES ASSUME WaitInv, [WaitNext]_waitVars PROVE WaitInv'
  OBVIOUS
<1> USE DEF waitVars, callVars, inputVars
<1>1. WaitTypeOK /\ MetInv /\ PaceInv /\ ReturnInv
  BY DEF WaitInv
<1>2. Slept \in Nat /\ Budget(wants) \in Nat /\ Budget(left) \in Nat /\ OneText \in Nat
  BY <1>1, BudgetFacts, WaitAssumption DEF WaitTypeOK, Slept, Shorter
<1>3. ASSUME UNCHANGED <<sleep, wants>> PROVE Slept' = Slept /\ Budget(wants)' = Budget(wants)
  BY <1>3 DEF Slept
\* It is enough to look at the steps after which the call goes on, and at its return.
<1>4. ASSUME WaitTypeOK', MetInv', PaceInv', at' # "returned" PROVE WaitInv'
  BY <1>4 DEF WaitInv, ReturnInv
<1>5. ASSUME NEW how, at # "returned", Returns(how), UNCHANGED <<now, sleep, wants, ends, polled, met>>,
             how = "ok" => now >= Slept /\ met = wants,
             how = "timeout" => now >= deadline /\ polled + CommandTimeout >= deadline
      PROVE  WaitInv'
  <2>1. at' = "returned" /\ outcome' = how /\ UNCHANGED <<left, deadline, timer>>
    BY <1>5 DEF Returns
  <2>2. WaitTypeOK'
    BY <1>1, <1>5, <2>1 DEF WaitTypeOK
  <2>3. MetInv' /\ PaceInv'
    BY <2>1 DEF MetInv, PaceInv
  <2>4. InTime'
    <3>1. InTime
      BY <1>1, <1>5, WithinTime
    <3> QED
      BY <1>3, <1>5, <3>1 DEF InTime
  <2>5. Slept' = Slept
    BY <1>3, <1>5
  <2> QED
    BY <1>5, <2>1, <2>2, <2>3, <2>4, <2>5 DEF WaitInv, ReturnInv
<1>6. CASE PageChanges \/ UNCHANGED waitVars
  <2>1. UNCHANGED <<now, sleep, wants, ends, at, left, deadline, timer, outcome, found, polled, met>>
    BY <1>6 DEF PageChanges
  <2> QED
    BY <1>1, <2>1 DEF WaitInv, WaitTypeOK, MetInv, PaceInv, Slept, ReturnInv, InTime, Waiting
<1>7. CASE Tick
  <2>1. ~Due /\ now' = now + 1 /\ UNCHANGED <<sleep, wants, ends, at, left, deadline, timer, outcome, found, polled, met>>
    BY <1>7 DEF Tick
  <2>2. /\ at \in {"sleep", "delay", "poll", "polled"} /\ now # ends
        /\ at \in {"sleep", "delay"} => now # timer
        /\ at \in {"poll", "polled"} => now # timer + CommandTimeout
    BY <1>1, <2>1 DEF Due, WaitTypeOK
  <2>3. WaitTypeOK'
    BY <1>1, <2>1, <2>2 DEF WaitTypeOK
  <2>4. MetInv'
    BY <1>1, <2>1 DEF MetInv, Waiting
  <2>5. PaceInv'
    BY <1>1, <1>2, <2>1, <2>2, WaitAssumption DEF PaceInv, WaitTypeOK, Slept
  <2> QED
    BY <1>4, <2>1, <2>2, <2>3, <2>4, <2>5
<1>8. CASE Start
  <2>1. at = "start" /\ UNCHANGED <<now, sleep, wants, ends, polled, met>>
    BY <1>8 DEF Start
  <2>2. CASE Returns("error")
    BY <1>5, <2>1, <2>2
  <2>3. CASE sleep > 0 /\ at' = "sleep" /\ timer' = Shorter(sleep, MaxTime) /\ UNCHANGED <<left, deadline, outcome>>
    <3>1. WaitTypeOK'
      BY <1>1, <2>1, <2>3, WaitAssumption DEF WaitTypeOK, Shorter
    <3>2. MetInv'
      BY <1>1, <2>1, <2>3 DEF MetInv
    <3>3. PaceInv'
      BY <1>1, <1>2, <2>1, <2>3 DEF PaceInv, Slept
    <3> QED
      BY <1>4, <2>3, <3>1, <3>2, <3>3
  <2>4. CASE sleep = 0 /\ at' = "next" /\ UNCHANGED <<left, deadline, timer, outcome>>
    <3>1. WaitTypeOK'
      BY <1>1, <2>1, <2>4 DEF WaitTypeOK
    <3>2. MetInv'
      BY <1>1, <2>1, <2>4 DEF MetInv
    <3>3. Slept = 0
      BY <2>4, WaitAssumption DEF Slept, Shorter
    <3>4. PaceInv'
      BY <1>1, <1>2, <2>1, <2>4, <3>3 DEF PaceInv, Slept
    <3> QED
      BY <1>4, <2>4, <3>1, <3>2, <3>4
  <2> QED
    BY <1>8, <2>2, <2>3, <2>4 DEF Start
<1>9. CASE SleepEnds
  <2>1. /\ at = "sleep" /\ at' = "next" /\ now = timer
        /\ UNCHANGED <<now, sleep, wants, ends, left, deadline, timer, outcome, polled, met>>
    BY <1>9 DEF SleepEnds, Goes
  <2>2. WaitTypeOK' /\ MetInv'
    BY <1>1, <2>1 DEF WaitTypeOK, MetInv
  <2>3. PaceInv'
    BY <1>1, <1>2, <2>1 DEF PaceInv, Slept
  <2> QED
    BY <1>4, <2>1, <2>2, <2>3
<1>10. CASE WaitForPageText
  <2>1. at = "next" /\ UNCHANGED <<now, sleep, wants, ends, polled, met>>
    BY <1>10 DEF WaitForPageText
  <2>2. CASE left = {} /\ Returns("ok")
    <3>1. met = wants /\ now >= Slept
      BY <1>1, <2>1, <2>2 DEF MetInv, PaceInv
    <3> QED
      BY <1>5, <2>1, <2>2, <3>1
  <2>3. CASE /\ left # {} /\ at' = "poll" /\ timer' = now /\ deadline' = DeadlineFromNow
             /\ UNCHANGED <<left, outcome>>
    <3>1. deadline' \in Nat /\ now <= deadline' /\ deadline' <= now + Limit
      BY <1>1, <2>3, WaitAssumption DEF DeadlineFromNow, Shorter, WaitTypeOK
    <3>2. WaitTypeOK'
      BY <1>1, <2>1, <2>3, <3>1 DEF WaitTypeOK
    <3>3. MetInv'
      BY <1>1, <2>1, <2>3 DEF MetInv
    <3>4. PaceInv'
      <4>1. now >= Slept /\ now + Budget(left) <= Slept + Budget(wants) /\ now \in Nat
        BY <1>1, <2>1 DEF PaceInv, WaitTypeOK
      <4>2. deadline' + Budget(left) <= Slept + Budget(wants) + Limit
        BY <1>2, <3>1, <4>1, WaitAssumption
      <4> QED
        BY <1>3, <2>1, <2>3, <3>1, <4>1, <4>2, WaitAssumption DEF PaceInv
    <3> QED
      BY <1>4, <2>3, <3>2, <3>3, <3>4
  <2> QED
    BY <1>10, <2>2, <2>3 DEF WaitForPageText
<1>11. CASE Evaluate
  <2>1. /\ at = "poll" /\ at' = "polled" /\ polled' = now
        /\ UNCHANGED <<now, sleep, wants, ends, left, deadline, timer, outcome>>
    BY <1>11 DEF Evaluate, Goes
  <2>2. WaitTypeOK'
    BY <1>1, <2>1 DEF WaitTypeOK
  <2>3. MetInv'
    <3>1. Waiting' = Waiting /\ met = wants \ left
      BY <1>1, <2>1 DEF Waiting, MetInv
    <3>2. met' = met \cup (IF found' THEN {Waiting'} ELSE {})
      BY <1>11, <3>1 DEF Evaluate
    <3> QED
      BY <2>1, <3>1, <3>2 DEF MetInv
  <2>4. PaceInv'
    BY <1>1, <1>2, <1>3, <2>1 DEF PaceInv, WaitTypeOK
  <2> QED
    BY <1>4, <2>1, <2>2, <2>3, <2>4
<1>12. CASE Answer
  <2>1. /\ at = "polled" /\ at' = "decide"
        /\ UNCHANGED <<now, sleep, wants, ends, left, deadline, timer, outcome, found, polled, met>>
    BY <1>12 DEF Answer, Goes
  <2>2. WaitTypeOK'
    BY <1>1, <2>1 DEF WaitTypeOK
  <2>3. MetInv'
    BY <1>1, <2>1 DEF MetInv, Waiting
  <2>4. PaceInv'
    BY <1>1, <1>2, <1>3, <2>1, WaitAssumption DEF PaceInv, WaitTypeOK
  <2> QED
    BY <1>4, <2>1, <2>2, <2>3, <2>4
<1>13. CASE Decide
  <2>1. at = "decide" /\ UNCHANGED <<now, sleep, wants, ends, found, polled, met>>
    BY <1>13 DEF Decide
  <2>2. left # {} /\ left \subseteq wants /\ wants \subseteq Conditions
    BY <1>1, <2>1 DEF WaitTypeOK
  <2>3. Waiting \in left
    BY <2>2 DEF Waiting, Conditions
  <2>4. CASE Met
    <3>1. found /\ at' = "next" /\ left' = left \ {Waiting} /\ UNCHANGED <<deadline, timer, outcome>>
      BY <2>4 DEF Met
    <3>2. WaitTypeOK'
      BY <1>1, <2>1, <3>1 DEF WaitTypeOK
    <3>3. MetInv'
      <4>1. met = (wants \ left) \cup {Waiting}
        BY <1>1, <2>1, <3>1 DEF MetInv
      <4> QED
        BY <2>1, <2>2, <2>3, <3>1, <4>1 DEF MetInv
    <3>4. PaceInv'
      <4>1. Budget(left)' \in Nat /\ Budget(left) = Budget(left)' + OneText
        <5>1. left \ {Waiting} \subseteq Conditions /\ left \subseteq Conditions
          BY <2>2
        <5> QED
          BY <2>3, <3>1, <5>1, BudgetFacts
      <4>2. now <= deadline + CommandTimeout /\ deadline + Budget(left) <= Slept + Budget(wants) + Limit /\ now >= Slept
        BY <1>1, <2>1 DEF PaceInv
      <4>3. now + Budget(left)' <= Slept + Budget(wants)
        BY <1>1, <1>2, <4>1, <4>2, WaitAssumption DEF OneText, WaitTypeOK
      <4> QED
        BY <1>3, <2>1, <3>1, <4>2, <4>3 DEF PaceInv
    <3> QED
      BY <1>4, <3>1, <3>2, <3>3, <3>4
  <2>5. CASE TimesOut
    <3>1. now >= deadline /\ Returns("timeout")
      BY <2>5 DEF TimesOut
    <3>2. polled + CommandTimeout >= deadline
      BY <1>1, <2>1, <3>1, WaitAssumption DEF PaceInv, WaitTypeOK
    <3> QED
      BY <1>5, <2>1, <3>1, <3>2
  <2>6. CASE Delay
    <3>1. /\ ~found /\ now < deadline /\ at' = "delay" /\ timer' = Shorter(now + Interval, deadline)
          /\ UNCHANGED <<left, deadline, outcome>>
      BY <2>6 DEF Delay
    <3>2. timer' \in Nat /\ timer' <= deadline /\ now <= timer'
      BY <1>1, <3>1, WaitAssumption DEF Shorter, WaitTypeOK
    <3>3. WaitTypeOK'
      BY <1>1, <2>1, <2>2, <3>1, <3>2 DEF WaitTypeOK
    <3>4. MetInv'
      BY <1>1, <2>1, <3>1 DEF MetInv
    <3>5. PaceInv'
      BY <1>1, <1>3, <2>1, <3>1, <3>2 DEF PaceInv
    <3> QED
      BY <1>4, <3>1, <3>3, <3>4, <3>5
  <2> QED
    BY <1>13, <2>4, <2>5, <2>6 DEF Decide
<1>14. CASE DelayEnds
  <2>1. /\ at = "delay" /\ now = timer /\ at' = "poll"
        /\ UNCHANGED <<now, sleep, wants, ends, left, deadline, timer, outcome, polled, met>>
    BY <1>14 DEF DelayEnds
  <2>2. WaitTypeOK' /\ MetInv'
    BY <1>1, <2>1 DEF WaitTypeOK, MetInv
  <2>3. PaceInv'
    BY <1>1, <1>2, <1>3, <2>1, WaitAssumption DEF PaceInv, WaitTypeOK
  <2> QED
    BY <1>4, <2>1, <2>2, <2>3
<1>15. CASE Cancelled
  <2>1. Returns("cancelled") /\ UNCHANGED <<now, sleep, wants, ends, polled, met>> /\ at # "returned"
    BY <1>15 DEF Cancelled
  <2> QED
    BY <1>5, <2>1
<1>16. CASE PollFails
  <2>1. Returns("error") /\ UNCHANGED <<now, sleep, wants, ends, polled, met>> /\ at # "returned"
    BY <1>16 DEF PollFails
  <2> QED
    BY <1>5, <2>1
<1> QED
  BY <1>6, <1>7, <1>8, <1>9, <1>10, <1>11, <1>12, <1>13, <1>14, <1>15, <1>16 DEF WaitNext

\* BrowserWaitFor keeps to the times that its parameters and the code's constants give
\* it, whatever these are.
THEOREM WaitInTime == WaitSpec => []WaitKeepsItsTimes
<1>1. WaitInv => WaitKeepsItsTimes
  <2> SUFFICES ASSUME WaitInv PROVE WaitKeepsItsTimes
    OBVIOUS
  <2>1. WaitTypeOK /\ PaceInv /\ ReturnInv
    BY DEF WaitInv
  <2>2. CASE at = "returned"
    BY <2>1, <2>2, TimesAreSums DEF ReturnInv
  <2>3. CASE at # "returned"
    BY <2>1, <2>3, WithinTime, TimesAreSums DEF WaitTypeOK
  <2> QED
    BY <2>2, <2>3
<1> QED
  BY <1>1, WaitInvInit, WaitInvNext, PTL DEF WaitSpec

==============================================================================
