---------------------------- MODULE ListenerProofs ----------------------------
(* Proofs of ChooserFollows (FileChooser), for any uploads and choosers, and  *)
(* of LogTellsTruth (NetworkLog), for any requests, hops and messages.        *)
EXTENDS FileChooser, NetworkLog, SequenceTheorems, WellFoundedInduction, TLAPS

(***************************************************************************)
(* The file chooser.                                                       *)
(***************************************************************************)
\* The variables have their types.
ChooserTypeOK ==
    /\ step \in [Uploads -> {"idle", "set", "answered"}]
    /\ chosen \in [Uploads -> Choosers \cup {NoChooser}]
    /\ chooser \in Choosers \cup {NoChooser}
    /\ latest \in Choosers \cup {NoChooser}
    /\ asked \subseteq Choosers
    /\ notices \in Seq(Choosers)

\* A chooser is announced once, before it can be chosen and served.
OnceInv ==
    /\ {chooser, latest} \subseteq asked \cup {NoChooser}
    /\ \A u \in Uploads : chosen[u] \in asked \/ (step[u] = "idle" /\ chosen[u] = NoChooser)
    /\ served \subseteq asked
    /\ \A i \in DOMAIN notices :
          /\ notices[i] \in asked \ served
          /\ notices[i] # chooser
          /\ \A u \in Uploads : notices[i] # chosen[u]
    /\ \A i, j \in DOMAIN notices : notices[i] = notices[j] => i = j

\* The last chooser is the last one announced.
LatestInv ==
    /\ \A i \in DOMAIN notices : i = Len(notices) => notices[i] = latest
    /\ \A u \in Uploads : step[u] = "answered" => chosen[u] \in served
    /\ notices = <<>> =>
          chooser = latest \/ (chooser = NoChooser /\ latest \in served \cup forgotten)
    /\ chooser \in served \ unsure =>
          \E u \in Uploads : step[u] = "answered" /\ chosen[u] = chooser

ChooserInv == ChooserTypeOK /\ OnceInv /\ LatestInv

LEMMA ChooserInvInit == ChooserInit => ChooserInv
  BY ChooserAssumption DEF ChooserInit, ChooserInv, ChooserTypeOK, OnceInv, LatestInv

LEMMA ChooserInvNext == ChooserInv /\ [ChooserNext]_chooserVars => ChooserInv'
<1> SUFFICES ASSUME ChooserInv, [ChooserNext]_chooserVars PROVE ChooserInv'
  OBVIOUS
<1> USE ChooserAssumption DEF ChooserInv, ChooserTypeOK, OnceInv, LatestInv
<1>1. ASSUME NEW f \in Choosers, Chooses(f) PROVE ChooserInv'
  <2>1. /\ Len(notices) \in Nat /\ notices' \in Seq(Choosers) /\ DOMAIN notices = 1 .. Len(notices)
        /\ DOMAIN notices' = 1 .. Len(notices) + 1 /\ Len(notices') = Len(notices) + 1
        /\ \A i \in DOMAIN notices : notices'[i] = notices[i]
        /\ notices'[Len(notices) + 1] = f /\ notices' # <<>>
    BY <1>1 DEF Chooses
  <2>2. /\ UNCHANGED <<chooser, step, chosen, gone, served, unsure, forgotten>>
        /\ asked' = asked \cup {f} /\ latest' = f /\ f \notin asked /\ f # NoChooser
    BY <1>1 DEF Chooses
  <2>3. /\ \A i \in DOMAIN notices : notices[i] # f
        /\ f # chooser /\ f \notin served /\ \A u \in Uploads : f # chosen[u]
    BY <2>2
  <2>4. ChooserTypeOK' /\ LatestInv'
    BY <2>1, <2>2
  <2>5. \A i, j \in DOMAIN notices' : notices'[i] = notices'[j] => i = j
    BY <2>1, <2>3
  <2>6. \A i \in DOMAIN notices' :
          /\ notices'[i] \in asked' \ served
          /\ notices'[i] # chooser
          /\ \A u \in Uploads : notices'[i] # chosen[u]
    BY <2>1, <2>2, <2>3
  <2>7. OnceInv'
    BY <2>2, <2>5, <2>6
  <2> QED
    BY <2>4, <2>7
<1>2. CASE Leaves
  BY <1>2 DEF Leaves
<1>3. CASE FileChooserOpened
  <2>1. notices # <<>> /\ notices' = Tail(notices) /\ Len(notices) \in Nat /\ Len(notices) > 0
    BY <1>3, EmptySeq DEF FileChooserOpened
  <2>2. /\ notices' \in Seq(Choosers) /\ DOMAIN notices = 1 .. Len(notices)
        /\ DOMAIN notices' = 1 .. Len(notices) - 1 /\ Len(notices') = Len(notices) - 1
        /\ \A i \in DOMAIN notices' : i + 1 \in DOMAIN notices /\ notices'[i] = notices[i + 1]
    BY <2>1, HeadTailProperties
  <2>3. chooser' = notices[1] /\ 1 \in DOMAIN notices
    BY <1>3, <2>1, <2>2 DEF FileChooserOpened
  <2>4. UNCHANGED <<step, chosen, latest, asked, gone, served, unsure, forgotten>>
    BY <1>3 DEF FileChooserOpened
  <2>5. chooser' \in asked \ served /\ \A i \in DOMAIN notices' : notices'[i] # chooser'
    BY <2>2, <2>3
  <2>6. notices' = <<>> => chooser' = latest
    BY <2>1, <2>2, <2>3
  <2>7. ChooserTypeOK'
    BY <2>2, <2>4, <2>5
  <2>8. OnceInv'
    BY <2>2, <2>4, <2>5
  <2>9. LatestInv'
    BY <2>2, <2>4, <2>5, <2>6
  <2> QED
    BY <2>7, <2>8, <2>9
<1>4. ASSUME NEW u \in Uploads, FileUpload(u) PROVE ChooserInv'
  BY <1>4 DEF FileUpload, Moves
<1>5. ASSUME NEW u \in Uploads, ExecuteSet(u) PROVE ChooserInv'
  BY <1>5 DEF ExecuteSet, Moves
<1>6. ASSUME NEW u \in Uploads, UploadFails(u) PROVE ChooserInv'
  BY <1>6 DEF UploadFails, Moves
<1>7. ASSUME NEW u \in Uploads, ForgetChooser(u) PROVE ChooserInv'
  BY <1>7 DEF ForgetChooser, Moves
<1>8. CASE UNCHANGED chooserVars
  BY <1>8 DEF chooserVars
<1> QED
  BY <1>1, <1>2, <1>3, <1>4, <1>5, <1>6, <1>7, <1>8 DEF ChooserNext

\* With no event under way, BrowserFileUpload has the last chooser, or none if it
\* has been served or forgotten; one that has been served is offered no longer.
THEOREM ChooserKnown == ChooserSpec => []ChooserFollows
<1>1. ChooserInv => ChooserFollows
  BY DEF ChooserInv, LatestInv, ChooserFollows
<1> QED
  BY <1>1, ChooserInvInit, ChooserInvNext, PTL DEF ChooserSpec

(***************************************************************************)
(* The log of the network and of the console.                              *)
(***************************************************************************)
\* Where the things numbered n + 1 to m are announced in a queue of events: one place
\* each, in order, and no other event of that kind.
Places(s, kind, n, m) ==
    {w \in [(n + 1) .. m -> DOMAIN s] :
        /\ \A i, j \in (n + 1) .. m : i < j => w[i] < w[j]
        /\ \A k \in DOMAIN s : s[k].kind = kind => \E i \in (n + 1) .. m : w[i] = k
        /\ \A i \in (n + 1) .. m : s[w[i]].kind = kind}

Responses == {"none", "redirect", "final"}
Outcomes == {"none", "finished", "failed"}
Entries == [id : RequestIDs, response : Responses, outcome : Outcomes]

LogEvents ==
    [kind : {"willBeSent"}, id : RequestIDs, redirect : BOOLEAN]
    \cup [kind : {"responseReceived", "finished", "failed"}, id : RequestIDs, redirect : {FALSE}]
    \cup [kind : {"console", "navigated"}, id : {"none"}, redirect : {FALSE}]

\* The variables have their types.
LogTypeOK ==
    /\ requests \in Seq(Entries) /\ hops \in Seq(Entries)
    /\ requestByID \in [RequestIDs -> Nat]
    /\ console \in Seq(Nat) /\ said \in Seq(Nat)
    /\ counted \in Nat /\ loaded \in Nat
    /\ phase \in [RequestIDs -> {"new", "pending", "answered", "over"}]
    /\ sent \in Seq(LogEvents)
    /\ Len(requests) <= Len(hops) /\ Len(console) <= Len(said) /\ counted <= loaded

\* Each hop that is not logged is announced, in order, and as a redirect if it is one.
AnnouncedInv ==
    \E w \in Places(sent, "willBeSent", Len(requests), Len(hops)) :
        \A i \in (Len(requests) + 1) .. Len(hops) :
            /\ sent[w[i]].id = hops[i].id
            /\ ~ sent[w[i]].redirect => \A j \in 1 .. (i - 1) : hops[j].id # hops[i].id

\* The last hop of a request has come as far as the request; the others are redirects.
LastOfAll(h, i) == \A j \in (i + 1) .. Len(h) : h[j].id # h[i].id
Reached(p, e) ==
    \/ p = "pending" /\ e.response = "none" /\ e.outcome = "none"
    \/ p = "answered" /\ e.response = "final" /\ e.outcome = "none"
    \/ p = "over" /\ e.response \in {"none", "final"} /\ e.outcome \in {"finished", "failed"}

HopsInv ==
    \A i \in DOMAIN hops :
        IF LastOfAll(hops, i) THEN Reached(phase[hops[i].id], hops[i])
        ELSE hops[i].response = "redirect" /\ hops[i].outcome = "finished"

\* What becomes of a request is sent behind all of its hops, and is true of the last.
IsOutcome(e) == e.kind \in {"responseReceived", "finished", "failed"}

OutcomeInv ==
    \A k \in DOMAIN sent : IsOutcome(sent[k]) =>
        /\ phase[sent[k].id] \in {"answered", "over"}
        /\ \A l \in DOMAIN sent :
              sent[l].kind = "willBeSent" /\ sent[l].id = sent[k].id => l < k
        /\ \A i \in DOMAIN hops : hops[i].id = sent[k].id /\ LastOfAll(hops, i) =>
              IF sent[k].kind = "responseReceived" THEN hops[i].response = "final"
              ELSE hops[i].outcome = sent[k].kind

\* An id is found at its last entry.
FoundInv ==
    \A id \in RequestIDs :
        /\ requestByID[id] # 0 => requestByID[id] \in DOMAIN requests /\ requests[requestByID[id]].id = id
        /\ \A j \in DOMAIN requests : requests[j].id = id => j <= requestByID[id]

\* An entry says nothing of its hop that is not so, all of it if it is not the last of
\* its id, and lacks of the last hop only what is under way.
Told(s, id, kind) == \E k \in DOMAIN s : s[k].kind = kind /\ s[k].id = id

EntriesInv ==
    /\ \A i \in DOMAIN requests :
          /\ requests[i].id = hops[i].id
          /\ requests[i].response \in {"none", hops[i].response}
          /\ requests[i].outcome \in {"none", hops[i].outcome}
          /\ i # requestByID[hops[i].id] =>
                requests[i].response = "redirect" /\ requests[i].outcome = "finished"
    /\ \A i \in DOMAIN hops : LastOfAll(hops, i) =>
          /\ \/ i \in DOMAIN requests /\ requests[i].response = hops[i].response
             \/ hops[i].response = "none"
             \/ Told(sent, hops[i].id, "responseReceived")
          /\ \/ i \in DOMAIN requests /\ requests[i].outcome = hops[i].outcome
             \/ hops[i].outcome = "none"
             \/ Told(sent, hops[i].id, hops[i].outcome)

\* Console messages and navigations reach the listener in the order they were sent.
ConsoleInv ==
    /\ \A i \in DOMAIN console : console[i] = said[i]
    /\ \A i \in (Len(console) + 1) .. Len(said) : counted <= said[i]
    /\ \A i \in DOMAIN said : said[i] <= loaded
    /\ \E v \in Places(sent, "console", Len(console), Len(said)),
          n \in Places(sent, "navigated", counted, loaded) :
          \A i \in (Len(console) + 1) .. Len(said), m \in (counted + 1) .. loaded :
              n[m] < v[i] <=> m <= said[i]

NetInv == AnnouncedInv /\ HopsInv /\ OutcomeInv /\ FoundInv /\ EntriesInv

LogInv == LogTypeOK /\ NetInv /\ ConsoleInv

(***************************************************************************)
(* The places of announcements, when the queue grows and shrinks.          *)
(***************************************************************************)
\* The i-th is where it was, now that an event has been added.
Stays(s, e, w, x, i) == x[i] = w[i] /\ w[i] \in DOMAIN s /\ w[i] \in Nat /\ Append(s, e)[x[i]] = s[w[i]]

LEMMA PlacesKept ==
    ASSUME NEW s \in Seq(LogEvents), NEW e \in LogEvents, NEW kind, e.kind # kind,
           NEW n \in Nat, NEW m \in Nat, NEW w \in Places(s, kind, n, m)
    PROVE  /\ w \in Places(Append(s, e), kind, n, m)
           /\ \A i \in (n + 1) .. m : Stays(s, e, w, w, i)
<1> DEFINE t == Append(s, e)
<1>1. /\ DOMAIN t = 1 .. (Len(s) + 1) /\ DOMAIN s = 1 .. Len(s) /\ Len(s) \in Nat
      /\ \A k \in DOMAIN s : t[k] = s[k]
      /\ t[Len(s) + 1] = e
  OBVIOUS
<1> HIDE DEF t
<1>2. /\ w \in [(n + 1) .. m -> DOMAIN s]
      /\ \A i, j \in (n + 1) .. m : i < j => w[i] < w[j]
      /\ \A k \in DOMAIN s : s[k].kind = kind => \E i \in (n + 1) .. m : w[i] = k
      /\ \A i \in (n + 1) .. m : s[w[i]].kind = kind
  BY DEF Places
<1>3. DOMAIN s \subseteq DOMAIN t
  BY <1>1
<1>4. w \in [(n + 1) .. m -> DOMAIN t]
  BY <1>2, <1>3
<1>5. \A k \in DOMAIN t : t[k].kind = kind => k \in DOMAIN s
  BY <1>1
<1>6. \A i \in (n + 1) .. m : w[i] \in DOMAIN s /\ t[w[i]] = s[w[i]]
  BY <1>1, <1>2
<1>7. \A k \in DOMAIN t : t[k].kind = kind => \E i \in (n + 1) .. m : w[i] = k
  BY <1>1, <1>2, <1>5
<1>8. w \in Places(t, kind, n, m)
  BY <1>2, <1>4, <1>6, <1>7 DEF Places
<1>9. \A i \in (n + 1) .. m : w[i] \in Nat
  BY <1>1, <1>6
<1>10. \A i \in (n + 1) .. m : Stays(s, e, w, w, i)
  BY <1>6, <1>9 DEF Stays, t
<1> QED
  BY <1>8, <1>10 DEF t

LEMMA PlacesAdded ==
    ASSUME NEW s \in Seq(LogEvents), NEW e \in LogEvents,
           NEW n \in Nat, NEW m \in Nat, n <= m, NEW w \in Places(s, e.kind, n, m)
    PROVE  \E x \in Places(Append(s, e), e.kind, n, m + 1) :
             /\ x[m + 1] = Len(s) + 1 /\ Append(s, e)[x[m + 1]] = e
             /\ \A i \in (n + 1) .. m : Stays(s, e, w, x, i)
<1> DEFINE t == Append(s, e)
           kind == e.kind
           x == [i \in (n + 1) .. (m + 1) |-> IF i = m + 1 THEN Len(s) + 1 ELSE w[i]]
<1>1. /\ DOMAIN t = 1 .. (Len(s) + 1) /\ DOMAIN s = 1 .. Len(s) /\ Len(s) \in Nat
      /\ \A k \in DOMAIN s : t[k] = s[k]
      /\ t[Len(s) + 1] = e
  OBVIOUS
<1> HIDE DEF t
<1>2. /\ w \in [(n + 1) .. m -> DOMAIN s]
      /\ \A i, j \in (n + 1) .. m : i < j => w[i] < w[j]
      /\ \A k \in DOMAIN s : s[k].kind = kind => \E i \in (n + 1) .. m : w[i] = k
      /\ \A i \in (n + 1) .. m : s[w[i]].kind = kind
  BY DEF Places
<1>3. /\ x[m + 1] = Len(s) + 1
      /\ \A i \in (n + 1) .. m : x[i] = w[i] /\ w[i] \in DOMAIN s
      /\ m + 1 \in (n + 1) .. (m + 1)
      /\ \A i \in (n + 1) .. (m + 1) : i \in (n + 1) .. m \/ i = m + 1
      /\ \A i \in (n + 1) .. m : i \in (n + 1) .. (m + 1) /\ i < m + 1
  BY <1>2
<1>4. x \in [(n + 1) .. (m + 1) -> DOMAIN t]
  BY <1>1, <1>2
<1> HIDE DEF x
<1>5. \A i, j \in (n + 1) .. (m + 1) : i < j => x[i] < x[j]
  <2> SUFFICES ASSUME NEW i \in (n + 1) .. (m + 1), NEW j \in (n + 1) .. (m + 1), i < j
               PROVE  x[i] < x[j]
    OBVIOUS
  <2>1. i \in (n + 1) .. m
    OBVIOUS
  <2>2. CASE j = m + 1
    BY <1>1, <1>3, <2>1, <2>2
  <2>3. CASE j \in (n + 1) .. m
    BY <1>2, <1>3, <2>1, <2>3
  <2> QED
    BY <2>2, <2>3
<1>6. \A i \in (n + 1) .. (m + 1) : t[x[i]].kind = kind
  BY <1>1, <1>2, <1>3
<1>7. \A k \in DOMAIN t : t[k].kind = kind => \E i \in (n + 1) .. (m + 1) : x[i] = k
  <2> TAKE k \in DOMAIN t
  <2>1. CASE k = Len(s) + 1
    BY <1>3, <2>1
  <2>2. CASE k \in DOMAIN s
    BY <1>1, <1>2, <1>3, <2>2
  <2> QED
    BY <1>1, <2>1, <2>2
<1>8. x \in Places(t, kind, n, m + 1)
  BY <1>4, <1>5, <1>6, <1>7 DEF Places
<1>9. t[x[m + 1]] = e /\ \A i \in (n + 1) .. m : t[x[i]] = s[w[i]]
  BY <1>1, <1>3
<1>10. \A i \in (n + 1) .. m : w[i] \in Nat
  BY <1>1, <1>3
<1>11. \A i \in (n + 1) .. m : Stays(s, e, w, x, i)
  BY <1>3, <1>9, <1>10 DEF Stays, t
<1> HIDE DEF kind
<1> QED
  BY <1>3, <1>8, <1>9, <1>11 DEF t, kind

\* The i-th is a place further on, now that the first event has been taken.
Moved(s, w, x, i) ==
    w[i] \in DOMAIN s /\ w[i] \in Nat /\ w[i] > 1 /\ x[i] = w[i] - 1 /\ Tail(s)[x[i]] = s[w[i]]

LEMMA PlacesTaken ==
    ASSUME NEW s \in Seq(LogEvents), s # <<>>, NEW kind,
           NEW n \in Nat, NEW m \in Nat, NEW l \in Nat, l = (IF Head(s).kind = kind THEN n + 1 ELSE n),
           NEW w \in Places(s, kind, n, m)
    PROVE  /\ Head(s).kind = kind => n + 1 <= m /\ w[n + 1] = 1
           /\ \E x \in Places(Tail(s), kind, l, m) :
                \A i \in (l + 1) .. m : Moved(s, w, x, i)
<1> DEFINE t == Tail(s)
           x == [i \in (l + 1) .. m |-> w[i] - 1]
<1>1. /\ DOMAIN t = 1 .. (Len(s) - 1) /\ DOMAIN s = 1 .. Len(s) /\ Len(s) \in Nat /\ Len(s) > 0
      /\ \A k \in DOMAIN t : t[k] = s[k + 1]
      /\ Head(s) = s[1] /\ 1 \in DOMAIN s
  BY HeadTailProperties, EmptySeq
<1> HIDE DEF t
<1>2. /\ w \in [(n + 1) .. m -> DOMAIN s]
      /\ \A i, j \in (n + 1) .. m : i < j => w[i] < w[j]
      /\ \A k \in DOMAIN s : s[k].kind = kind => \E i \in (n + 1) .. m : w[i] = k
      /\ \A i \in (n + 1) .. m : s[w[i]].kind = kind
  BY DEF Places
<1>3. \A i \in (n + 1) .. m : w[i] \in DOMAIN s /\ w[i] \in Nat /\ w[i] >= 1 /\ w[i] <= Len(s)
  BY <1>1, <1>2
<1>4. Head(s).kind = kind => n + 1 <= m /\ w[n + 1] = 1
  <2> SUFFICES ASSUME Head(s).kind = kind PROVE n + 1 <= m /\ w[n + 1] = 1
    OBVIOUS
  <2>1. PICK i \in (n + 1) .. m : w[i] = 1
    BY <1>1, <1>2
  <2>2. n + 1 \in (n + 1) .. m
    BY <2>1
  <2>3. i = n + 1
    <3>1. n + 1 < i => w[n + 1] < w[i]
      BY <1>2, <2>2
    <3> QED
      BY <1>3, <2>1, <2>2, <3>1
  <2> QED
    BY <2>1, <2>2, <2>3
<1>5. \A i \in (l + 1) .. m : i \in (n + 1) .. m /\ w[i] # 1
  <2> TAKE i \in (l + 1) .. m
  <2>1. i \in (n + 1) .. m
    OBVIOUS
  <2>2. CASE Head(s).kind = kind
    <3>1. n + 1 \in (n + 1) .. m /\ n + 1 < i
      BY <1>4, <2>2
    <3>2. w[n + 1] < w[i] /\ w[n + 1] = 1
      BY <1>2, <1>4, <2>1, <2>2, <3>1
    <3> QED
      BY <1>3, <2>1, <3>2
  <2>3. CASE Head(s).kind # kind
    BY <1>1, <1>2, <2>1, <2>3
  <2> QED
    BY <2>1, <2>2, <2>3
<1>6. \A i \in (l + 1) .. m : x[i] = w[i] - 1 /\ x[i] \in DOMAIN t /\ t[x[i]] = s[w[i]]
  <2> TAKE i \in (l + 1) .. m
  <2>1. w[i] \in Nat /\ w[i] >= 1 /\ w[i] <= Len(s) /\ w[i] # 1
    BY <1>3, <1>5
  <2>2. w[i] - 1 \in DOMAIN t /\ (w[i] - 1) + 1 = w[i]
    BY <1>1, <2>1
  <2> QED
    BY <1>1, <2>2
<1>7. x \in [(l + 1) .. m -> DOMAIN t]
  BY <1>6
<1> HIDE DEF x
<1>8. \A i, j \in (l + 1) .. m : i < j => x[i] < x[j]
  <2> SUFFICES ASSUME NEW i \in (l + 1) .. m, NEW j \in (l + 1) .. m, i < j PROVE x[i] < x[j]
    OBVIOUS
  <2>1. w[i] < w[j] /\ w[i] \in Nat /\ w[j] \in Nat
    BY <1>2, <1>3, <1>5
  <2> QED
    BY <1>6, <2>1
<1>9. \A i \in (l + 1) .. m : t[x[i]].kind = kind
  BY <1>2, <1>5, <1>6
<1>10. \A k \in DOMAIN t : t[k].kind = kind => \E i \in (l + 1) .. m : x[i] = k
  <2> SUFFICES ASSUME NEW k \in DOMAIN t, t[k].kind = kind PROVE \E i \in (l + 1) .. m : x[i] = k
    OBVIOUS
  <2>1. k \in Nat /\ k >= 1 /\ k + 1 \in DOMAIN s /\ s[k + 1].kind = kind
    BY <1>1
  <2>2. PICK i \in (n + 1) .. m : w[i] = k + 1
    BY <1>2, <2>1
  <2>3. i \in (l + 1) .. m
    <3>1. Head(s).kind = kind => i # n + 1
      BY <1>4, <2>1, <2>2
    <3> QED
      BY <3>1
  <2> QED
    BY <1>6, <2>1, <2>2, <2>3
<1>11. x \in Places(t, kind, l, m)
  BY <1>7, <1>8, <1>9, <1>10 DEF Places
<1>12. \A i \in (l + 1) .. m : w[i] \in DOMAIN s /\ w[i] \in Nat /\ w[i] > 1
  BY <1>3, <1>5
<1>13. \A i \in (l + 1) .. m : Moved(s, w, x, i)
  BY <1>6, <1>12 DEF Moved, t
<1>14. \E y \in Places(t, kind, l, m) : \A i \in (l + 1) .. m : Moved(s, w, y, i)
  BY <1>11, <1>13
<1> QED
  BY <1>4, <1>14 DEF t

\* The first event is of another kind.
LEMMA PlacesMoved ==
    ASSUME NEW s \in Seq(LogEvents), s # <<>>, NEW kind, Head(s).kind # kind,
           NEW n \in Nat, NEW m \in Nat, NEW w \in Places(s, kind, n, m)
    PROVE  \E x \in Places(Tail(s), kind, n, m) : \A i \in (n + 1) .. m : Moved(s, w, x, i)
<1>1. n = (IF Head(s).kind = kind THEN n + 1 ELSE n)
  OBVIOUS
<1> QED
  BY <1>1, PlacesTaken

\* The first event is the first of its kind.
LEMMA PlacesFirst ==
    ASSUME NEW s \in Seq(LogEvents), s # <<>>,
           NEW n \in Nat, NEW m \in Nat, NEW w \in Places(s, Head(s).kind, n, m)
    PROVE  /\ n + 1 <= m /\ w[n + 1] = 1
           /\ \E x \in Places(Tail(s), Head(s).kind, n + 1, m) :
                \A i \in (n + 2) .. m : Moved(s, w, x, i)
<1> DEFINE l == n + 1
           kind == Head(s).kind
<1>1. l = (IF Head(s).kind = kind THEN n + 1 ELSE n) /\ l \in Nat /\ l + 1 = n + 2
  OBVIOUS
<1> HIDE DEF l, kind
<1>2. kind = Head(s).kind
  BY DEF kind
<1>3. w \in Places(s, kind, n, m)
  BY <1>2
<1>4. n + 1 <= m /\ w[n + 1] = 1
  BY <1>1, <1>2, <1>3, PlacesTaken
<1>5. \E x \in Places(Tail(s), kind, l, m) : \A i \in (l + 1) .. m : Moved(s, w, x, i)
  BY <1>1, <1>2, <1>3, PlacesTaken
<1> QED
  BY <1>1, <1>4, <1>5 DEF l, kind

(***************************************************************************)
(* Entries, and the last one of an id.                                     *)
(***************************************************************************)
LEMMA GreatestExists ==
    ASSUME NEW n \in Nat, NEW S \in SUBSET (1 .. n), S # {}
    PROVE  \E i \in S : \A j \in S : j <= i
<1> DEFINE R == {p \in Nat \X Nat : p[1] < p[2]}
           T == {n - i : i \in S}
<1>1. IsWellFoundedOn(R, Nat)
  BY NatLessThanWellFounded DEF OpToRel
<1>2. T \subseteq Nat /\ T # {}
  <2>1. \A i \in S : n - i \in Nat
    OBVIOUS
  <2> QED
    BY <2>1
<1>3. \E x \in T : \A y \in T : ~ (<<y, x>> \in R)
  <2> HIDE DEF R, T
  <2> QED
    BY <1>1, <1>2, WFMin
<1>4. PICK x \in T : \A y \in T : ~ (<<y, x>> \in R)
  BY <1>3
<1>5. \A y \in T : ~ (y < x)
  BY <1>2, <1>4
<1>6. PICK i \in S : x = n - i
  OBVIOUS
<1>7. \A j \in S : ~ (n - j < n - i)
  BY <1>5, <1>6
<1>8. ASSUME NEW j \in S PROVE j <= i
  <2>1. ~ (n - j < n - i) /\ i \in 1 .. n /\ j \in 1 .. n
    BY <1>7
  <2> QED
    BY <2>1
<1> QED
  BY <1>8

LEMMA EntryFacts ==
    ASSUME NEW list \in Seq(Entries), NEW i \in DOMAIN list
    PROVE  /\ \A r \in Responses :
                /\ Answered(list, i, r) \in Seq(Entries) /\ Len(Answered(list, i, r)) = Len(list)
                /\ \A j \in DOMAIN list :
                     /\ Answered(list, i, r)[j].id = list[j].id
                     /\ Answered(list, i, r)[j].response = IF j = i THEN r ELSE list[j].response
                     /\ Answered(list, i, r)[j].outcome = list[j].outcome
           /\ \A o \in Outcomes :
                /\ Ended(list, i, o) \in Seq(Entries) /\ Len(Ended(list, i, o)) = Len(list)
                /\ \A j \in DOMAIN list :
                     /\ Ended(list, i, o)[j].id = list[j].id
                     /\ Ended(list, i, o)[j].response = list[j].response
                     /\ Ended(list, i, o)[j].outcome = IF j = i THEN o ELSE list[j].outcome
<1>1. \A j \in DOMAIN list : list[j] \in Entries
  OBVIOUS
<1>2. ASSUME NEW r \in Responses
      PROVE  /\ Answered(list, i, r) \in Seq(Entries) /\ Len(Answered(list, i, r)) = Len(list)
             /\ \A j \in DOMAIN list :
                  /\ Answered(list, i, r)[j].id = list[j].id
                  /\ Answered(list, i, r)[j].response = IF j = i THEN r ELSE list[j].response
                  /\ Answered(list, i, r)[j].outcome = list[j].outcome
  <2>1. Answered(list, i, r) = [list EXCEPT ![i] = [list[i] EXCEPT !.response = r]]
    BY DEF Answered
  <2>2. [list[i] EXCEPT !.response = r] \in Entries
    BY <1>1 DEF Entries
  <2>3. Answered(list, i, r) \in Seq(Entries) /\ Len(Answered(list, i, r)) = Len(list)
    BY <2>1, <2>2
  <2> QED
    BY <1>1, <2>1, <2>3 DEF Entries
<1>3. ASSUME NEW o \in Outcomes
      PROVE  /\ Ended(list, i, o) \in Seq(Entries) /\ Len(Ended(list, i, o)) = Len(list)
             /\ \A j \in DOMAIN list :
                  /\ Ended(list, i, o)[j].id = list[j].id
                  /\ Ended(list, i, o)[j].response = list[j].response
                  /\ Ended(list, i, o)[j].outcome = IF j = i THEN o ELSE list[j].outcome
  <2>1. Ended(list, i, o) = [list EXCEPT ![i] = [list[i] EXCEPT !.outcome = o]]
    BY DEF Ended
  <2>2. [list[i] EXCEPT !.outcome = o] \in Entries
    BY <1>1 DEF Entries
  <2>3. Ended(list, i, o) \in Seq(Entries) /\ Len(Ended(list, i, o)) = Len(list)
    BY <2>1, <2>2
  <2> QED
    BY <1>1, <2>1, <2>3 DEF Entries
<1> QED
  BY <1>2, <1>3

LEMMA AddedFacts ==
    ASSUME NEW list \in Seq(Entries), NEW id \in RequestIDs
    PROVE  LET added == Append(list, Entry(id, "none", "none"))
           IN  /\ added \in Seq(Entries) /\ Len(added) = Len(list) + 1
               /\ \A j \in DOMAIN list : added[j] = list[j]
               /\ added[Len(list) + 1].id = id
               /\ added[Len(list) + 1].response = "none" /\ added[Len(list) + 1].outcome = "none"
<1>1. Entry(id, "none", "none") \in Entries
  BY DEF Entry, Entries, Responses, Outcomes
<1> QED
  BY <1>1, AppendProperties DEF Entry

\* The last hop of a request that has one.
LEMMA LastHopFacts ==
    ASSUME LogTypeOK, NEW id \in RequestIDs, HopsOf(id) # {}
    PROVE  /\ LastHop(id) \in DOMAIN hops /\ hops[LastHop(id)].id = id
           /\ LastOfAll(hops, LastHop(id))
           /\ \A j \in DOMAIN hops : hops[j].id = id => j <= LastHop(id)
           /\ \A j \in DOMAIN hops : hops[j].id = id /\ LastOfAll(hops, j) => j = LastHop(id)
<1>1. hops \in Seq(Entries) /\ Len(hops) \in Nat /\ DOMAIN hops = 1 .. Len(hops)
  BY DEF LogTypeOK
<1>2. HopsOf(id) \in SUBSET (1 .. Len(hops))
  BY <1>1 DEF HopsOf
<1>3. \E i \in HopsOf(id) : \A j \in HopsOf(id) : j <= i
  BY <1>1, <1>2, GreatestExists
<1>4. LastHop(id) \in HopsOf(id) /\ \A j \in HopsOf(id) : j <= LastHop(id)
  BY <1>3 DEF LastHop
<1>5. LastHop(id) \in DOMAIN hops /\ hops[LastHop(id)].id = id
  BY <1>4 DEF HopsOf
<1>6. \A j \in DOMAIN hops : hops[j].id = id => j <= LastHop(id)
  BY <1>4 DEF HopsOf
<1>7. LastOfAll(hops, LastHop(id))
  BY <1>1, <1>5, <1>6 DEF LastOfAll
<1>8. \A j \in DOMAIN hops : hops[j].id = id /\ LastOfAll(hops, j) => j = LastHop(id)
  BY <1>1, <1>5, <1>6 DEF LastOfAll
<1> QED
  BY <1>5, <1>6, <1>7, <1>8

(***************************************************************************)
(* The variables' types.                                                   *)
(***************************************************************************)
LEMMA EventTypes ==
    /\ \A id \in RequestIDs : \A b \in BOOLEAN : NetworkEvent("willBeSent", id, b) \in LogEvents
    /\ \A id \in RequestIDs : \A kind \in {"responseReceived", "finished", "failed"} :
          NetworkEvent(kind, id, FALSE) \in LogEvents
    /\ \A kind \in {"console", "navigated"} : NetworkEvent(kind, "none", FALSE) \in LogEvents
  BY DEF NetworkEvent, LogEvents

LEMMA EventFacts ==
    ASSUME NEW e \in LogEvents
    PROVE  e.kind \in {"willBeSent", "responseReceived", "finished", "failed"} => e.id \in RequestIDs
  BY DEF LogEvents

\* A message sent is the last one, behind all there are.
LEMMA SendsFacts ==
    ASSUME LogTypeOK, NEW e \in LogEvents, Sends(e)
    PROVE  /\ sent' = Append(sent, e) /\ sent' \in Seq(LogEvents) /\ sent \in Seq(LogEvents)
           /\ Len(sent) \in Nat /\ Len(sent') = Len(sent) + 1
           /\ DOMAIN sent = 1 .. Len(sent) /\ DOMAIN sent' = 1 .. (Len(sent) + 1)
           /\ \A k \in DOMAIN sent : sent'[k] = sent[k]
           /\ sent'[Len(sent) + 1] = e
<1>1. sent' = Append(sent, e) /\ sent \in Seq(LogEvents)
  BY DEF Sends, LogTypeOK
<1> QED
  BY <1>1

\* The listener takes the first event, the others move up by one.
LEMMA HandlesFacts ==
    ASSUME LogTypeOK, NEW kind, Handles(kind)
    PROVE  /\ sent \in Seq(LogEvents) /\ sent # <<>> /\ sent' = Tail(sent) /\ sent' \in Seq(LogEvents)
           /\ Len(sent) \in Nat /\ DOMAIN sent = 1 .. Len(sent) /\ DOMAIN sent' = 1 .. (Len(sent) - 1)
           /\ 1 \in DOMAIN sent /\ sent[1] = Head(sent) /\ Head(sent).kind = kind /\ Head(sent) \in LogEvents
           /\ \A k \in DOMAIN sent' : k \in Nat /\ k + 1 \in DOMAIN sent /\ k + 1 # 1 /\ sent'[k] = sent[k + 1]
           /\ kind \in {"willBeSent", "responseReceived", "finished", "failed"} => Head(sent).id \in RequestIDs
<1>1. sent \in Seq(LogEvents) /\ sent # <<>> /\ sent' = Tail(sent) /\ Head(sent).kind = kind
  BY DEF Handles, LogTypeOK
<1>2. Len(sent) \in Nat /\ Len(sent) > 0 /\ DOMAIN sent = 1 .. Len(sent) /\ Head(sent) = sent[1]
  BY <1>1, EmptySeq
<1>3. /\ sent' \in Seq(LogEvents) /\ DOMAIN sent' = 1 .. (Len(sent) - 1)
      /\ \A k \in DOMAIN sent' : sent'[k] = sent[k + 1]
  BY <1>1, <1>2, HeadTailProperties
<1>4. Head(sent) \in LogEvents
  BY <1>1, <1>2
<1> QED
  BY <1>1, <1>2, <1>3, <1>4, EventFacts

(***************************************************************************)
(* The console.                                                            *)
(***************************************************************************)
LEMMA ConsoleSends ==
    ASSUME LogTypeOK, ConsoleInv, NEW e \in LogEvents, Sends(e), e.kind \notin {"console", "navigated"},
           UNCHANGED <<console, counted, said, loaded>>
    PROVE  ConsoleInv'
<1>1. PICK v \in Places(sent, "console", Len(console), Len(said)),
           n \in Places(sent, "navigated", counted, loaded) :
           \A i \in (Len(console) + 1) .. Len(said), m \in (counted + 1) .. loaded :
              n[m] < v[i] <=> m <= said[i]
  BY DEF ConsoleInv
<1>2. sent' = Append(sent, e) /\ sent \in Seq(LogEvents)
  BY SendsFacts
<1>3. Len(console) \in Nat /\ Len(said) \in Nat /\ counted \in Nat /\ loaded \in Nat
  BY DEF LogTypeOK
<1>4. v \in Places(sent', "console", Len(console), Len(said))
  BY <1>2, <1>3, PlacesKept
<1>5. n \in Places(sent', "navigated", counted, loaded)
  BY <1>2, <1>3, PlacesKept
<1> QED
  BY <1>1, <1>4, <1>5 DEF ConsoleInv

LEMMA ConsoleHandles ==
    ASSUME LogTypeOK, ConsoleInv, NEW kind, Handles(kind), kind \notin {"console", "navigated"},
           UNCHANGED <<console, counted, said, loaded>>
    PROVE  ConsoleInv'
<1>1. PICK v \in Places(sent, "console", Len(console), Len(said)),
           n \in Places(sent, "navigated", counted, loaded) :
           \A i \in (Len(console) + 1) .. Len(said), m \in (counted + 1) .. loaded :
              n[m] < v[i] <=> m <= said[i]
  BY DEF ConsoleInv
<1>2. sent' = Tail(sent) /\ sent \in Seq(LogEvents) /\ sent # <<>> /\ Head(sent).kind = kind
  BY HandlesFacts
<1>3. Len(console) \in Nat /\ Len(said) \in Nat /\ counted \in Nat /\ loaded \in Nat
  BY DEF LogTypeOK
<1>4. PICK x \in Places(Tail(sent), "console", Len(console), Len(said)) :
         \A i \in (Len(console) + 1) .. Len(said) : Moved(sent, v, x, i)
  BY <1>2, <1>3, PlacesMoved
<1>5. PICK y \in Places(Tail(sent), "navigated", counted, loaded) :
         \A m \in (counted + 1) .. loaded : Moved(sent, n, y, m)
  BY <1>2, <1>3, PlacesMoved
<1>7. \A i \in (Len(console) + 1) .. Len(said), m \in (counted + 1) .. loaded :
              y[m] < x[i] <=> m <= said[i]
  <2> TAKE i \in (Len(console) + 1) .. Len(said), m \in (counted + 1) .. loaded
  <2>1. n[m] < v[i] <=> m <= said[i]
    BY <1>1
  <2>2. y[m] = n[m] - 1 /\ x[i] = v[i] - 1 /\ n[m] \in Nat /\ v[i] \in Nat
    BY <1>4, <1>5 DEF Moved
  <2>3. y[m] < x[i] <=> n[m] < v[i]
    BY <2>2
  <2> QED
    BY <2>1, <2>3
<1> QED
  BY <1>2, <1>4, <1>5, <1>7 DEF ConsoleInv

\* A message is written under the navigations that have been sent by then.
LEMMA ConsoleSays == ASSUME LogTypeOK, ConsoleInv, Says PROVE ConsoleInv'
<1> DEFINE e == NetworkEvent("console", "none", FALSE)
<1>1. PICK v \in Places(sent, "console", Len(console), Len(said)),
           n \in Places(sent, "navigated", counted, loaded) :
           \A i \in (Len(console) + 1) .. Len(said), m \in (counted + 1) .. loaded :
              n[m] < v[i] <=> m <= said[i]
  BY DEF ConsoleInv
<1>2. Sends(e) /\ said' = Append(said, loaded) /\ UNCHANGED <<console, counted, loaded>>
  BY DEF Says
<1>3. e \in LogEvents /\ e.kind = "console"
  BY EventTypes DEF NetworkEvent
<1> HIDE DEF e
<1>4. /\ sent' = Append(sent, e) /\ sent \in Seq(LogEvents) /\ Len(sent) \in Nat
      /\ DOMAIN sent = 1 .. Len(sent)
  BY <1>2, <1>3, SendsFacts
<1>5. /\ Len(console) \in Nat /\ Len(said) \in Nat /\ counted \in Nat /\ loaded \in Nat
      /\ Len(console) <= Len(said) /\ counted <= loaded
      /\ said \in Seq(Nat) /\ Len(said') = Len(said) + 1
      /\ \A i \in 1 .. Len(said) : said'[i] = said[i] /\ said[i] \in Nat
      /\ said'[Len(said) + 1] = loaded
      /\ DOMAIN console = 1 .. Len(console) /\ DOMAIN said' = 1 .. (Len(said) + 1)
  BY <1>2 DEF LogTypeOK
<1>6. PICK x \in Places(sent', "console", Len(console), Len(said) + 1) :
         /\ x[Len(said) + 1] = Len(sent) + 1
         /\ \A i \in (Len(console) + 1) .. Len(said) : x[i] = v[i]
  <2>1. v \in Places(sent, e.kind, Len(console), Len(said))
    BY <1>3
  <2>2. PICK x \in Places(Append(sent, e), e.kind, Len(console), Len(said) + 1) :
           /\ x[Len(said) + 1] = Len(sent) + 1 /\ Append(sent, e)[x[Len(said) + 1]] = e
           /\ \A i \in (Len(console) + 1) .. Len(said) : Stays(sent, e, v, x, i)
    BY <1>3, <1>4, <1>5, <2>1, PlacesAdded
  <2> QED
    BY <1>3, <1>4, <2>2 DEF Stays
<1>7. /\ n \in Places(sent', "navigated", counted, loaded)
      /\ \A m \in (counted + 1) .. loaded : n[m] \in DOMAIN sent
  BY <1>3, <1>4, <1>5, PlacesKept DEF Stays
<1>8. \A i \in (Len(console) + 1) .. (Len(said) + 1), m \in (counted + 1) .. loaded :
              n[m] < x[i] <=> m <= said'[i]
  <2> TAKE i \in (Len(console) + 1) .. (Len(said) + 1), m \in (counted + 1) .. loaded
  <2>1. CASE i = Len(said) + 1
    BY <1>4, <1>5, <1>6, <1>7, <2>1
  <2>2. CASE i \in (Len(console) + 1) .. Len(said)
    <3>1. said'[i] = said[i]
      BY <1>5, <2>2
    <3> QED
      BY <1>1, <1>6, <2>2, <3>1
  <2> QED
    BY <1>5, <2>1, <2>2
<1>9. \A i \in DOMAIN console' : console'[i] = said'[i]
  BY <1>2, <1>5 DEF ConsoleInv
<1>10. \A i \in (Len(console) + 1) .. (Len(said) + 1) : counted <= said'[i]
  <2> TAKE i \in (Len(console) + 1) .. (Len(said) + 1)
  <2>1. CASE i = Len(said) + 1
    BY <1>5, <2>1
  <2>2. CASE i \in (Len(console) + 1) .. Len(said)
    BY <1>5, <2>2 DEF ConsoleInv
  <2> QED
    BY <1>5, <2>1, <2>2
<1>11. \A i \in DOMAIN said' : said'[i] <= loaded
  BY <1>5 DEF ConsoleInv
<1>12. Len(said') = Len(said) + 1 /\ console' = console /\ counted' = counted /\ loaded' = loaded
  BY <1>2, <1>5
<1>13. x \in Places(sent', "console", Len(console'), Len(said'))
  BY <1>6, <1>12
<1>14. n \in Places(sent', "navigated", counted', loaded')
  BY <1>7, <1>12
<1>15. \A i \in (Len(console') + 1) .. Len(said'), m \in (counted' + 1) .. loaded' :
              n[m] < x[i] <=> m <= said'[i]
  BY <1>8, <1>12
<1>16. /\ \A i \in (Len(console') + 1) .. Len(said') : counted' <= said'[i]
       /\ \A i \in DOMAIN said' : said'[i] <= loaded'
  BY <1>10, <1>11, <1>12
<1> QED
  BY <1>9, <1>13, <1>14, <1>15, <1>16 DEF ConsoleInv

LEMMA ConsoleLoads == ASSUME LogTypeOK, ConsoleInv, Loads PROVE ConsoleInv'
<1> DEFINE e == NetworkEvent("navigated", "none", FALSE)
<1>1. PICK v \in Places(sent, "console", Len(console), Len(said)),
           n \in Places(sent, "navigated", counted, loaded) :
           \A i \in (Len(console) + 1) .. Len(said), m \in (counted + 1) .. loaded :
              n[m] < v[i] <=> m <= said[i]
  BY DEF ConsoleInv
<1>2. Sends(e) /\ loaded' = loaded + 1 /\ UNCHANGED <<console, counted, said>>
  BY DEF Loads
<1>3. e \in LogEvents /\ e.kind = "navigated"
  BY EventTypes DEF NetworkEvent
<1> HIDE DEF e
<1>4. /\ sent' = Append(sent, e) /\ sent \in Seq(LogEvents) /\ Len(sent) \in Nat
      /\ DOMAIN sent = 1 .. Len(sent)
  BY <1>2, <1>3, SendsFacts
<1>5. /\ Len(console) \in Nat /\ Len(said) \in Nat /\ counted \in Nat /\ loaded \in Nat
      /\ counted <= loaded
      /\ \A i \in DOMAIN said : said[i] \in Nat
      /\ DOMAIN said = 1 .. Len(said)
      /\ \A i \in DOMAIN said : said[i] <= loaded
  BY DEF LogTypeOK, ConsoleInv
<1>6. PICK x \in Places(sent', "navigated", counted, loaded + 1) :
         /\ x[loaded + 1] = Len(sent) + 1
         /\ \A m \in (counted + 1) .. loaded : x[m] = n[m]
  <2>1. n \in Places(sent, e.kind, counted, loaded)
    BY <1>3
  <2>2. PICK x \in Places(Append(sent, e), e.kind, counted, loaded + 1) :
           /\ x[loaded + 1] = Len(sent) + 1 /\ Append(sent, e)[x[loaded + 1]] = e
           /\ \A m \in (counted + 1) .. loaded : Stays(sent, e, n, x, m)
    BY <1>3, <1>4, <1>5, <2>1, PlacesAdded
  <2> QED
    BY <1>3, <1>4, <2>2 DEF Stays
<1>7. /\ v \in Places(sent', "console", Len(console), Len(said))
      /\ \A i \in (Len(console) + 1) .. Len(said) : v[i] \in DOMAIN sent
  BY <1>3, <1>4, <1>5, PlacesKept DEF Stays
<1>8. \A i \in (Len(console) + 1) .. Len(said), m \in (counted + 1) .. (loaded + 1) :
              x[m] < v[i] <=> m <= said[i]
  <2> TAKE i \in (Len(console) + 1) .. Len(said), m \in (counted + 1) .. (loaded + 1)
  <2>1. i \in DOMAIN said
    BY <1>5
  <2>2. CASE m = loaded + 1
    BY <1>4, <1>5, <1>6, <1>7, <2>1, <2>2
  <2>3. CASE m \in (counted + 1) .. loaded
    BY <1>1, <1>6, <2>3
  <2> QED
    BY <1>5, <2>2, <2>3
<1>9. \A i \in DOMAIN said : said[i] <= loaded'
  BY <1>2, <1>5
<1>10. Len(said)' = Len(said) /\ Len(console)' = Len(console)
  BY <1>2
<1> QED
  BY <1>2, <1>6, <1>7, <1>8, <1>9, <1>10 DEF ConsoleInv

\* The message is filed under the navigations that came before it.
LEMMA ConsoleFiled == ASSUME LogTypeOK, ConsoleInv, OnConsole PROVE ConsoleInv'
<1>1. PICK v \in Places(sent, "console", Len(console), Len(said)),
           n \in Places(sent, "navigated", counted, loaded) :
           \A i \in (Len(console) + 1) .. Len(said), m \in (counted + 1) .. loaded :
              n[m] < v[i] <=> m <= said[i]
  BY DEF ConsoleInv
<1>2. Handles("console") /\ console' = Append(console, counted) /\ UNCHANGED <<said, counted, loaded>>
  BY DEF OnConsole
<1>3. sent' = Tail(sent) /\ sent \in Seq(LogEvents) /\ sent # <<>> /\ Head(sent).kind = "console"
  BY <1>2, HandlesFacts
<1>4. /\ Len(console) \in Nat /\ Len(said) \in Nat /\ counted \in Nat /\ loaded \in Nat
      /\ counted <= loaded
      /\ \A i \in DOMAIN said : said[i] \in Nat /\ said[i] <= loaded
      /\ DOMAIN said = 1 .. Len(said)
      /\ Len(console') = Len(console) + 1 /\ DOMAIN console' = 1 .. (Len(console) + 1)
      /\ \A i \in DOMAIN console : console'[i] = console[i]
      /\ DOMAIN console = 1 .. Len(console)
      /\ console'[Len(console) + 1] = counted
  BY <1>2 DEF LogTypeOK, ConsoleInv
<1>5. /\ Len(console) + 1 <= Len(said) /\ v[Len(console) + 1] = 1
      /\ \E x \in Places(Tail(sent), "console", Len(console) + 1, Len(said)) :
            \A i \in (Len(console) + 2) .. Len(said) : Moved(sent, v, x, i)
  <2>1. v \in Places(sent, Head(sent).kind, Len(console), Len(said))
    BY <1>3
  <2>2. /\ Len(console) + 1 <= Len(said) /\ v[Len(console) + 1] = 1
        /\ \E x \in Places(Tail(sent), Head(sent).kind, Len(console) + 1, Len(said)) :
              \A i \in (Len(console) + 2) .. Len(said) : Moved(sent, v, x, i)
    BY <1>3, <1>4, <2>1, PlacesFirst
  <2> QED
    BY <1>3, <2>2
<1>6. PICK x \in Places(Tail(sent), "console", Len(console) + 1, Len(said)) :
         \A i \in (Len(console) + 2) .. Len(said) : Moved(sent, v, x, i)
  BY <1>5
<1>7. PICK y \in Places(Tail(sent), "navigated", counted, loaded) :
         \A m \in (counted + 1) .. loaded : Moved(sent, n, y, m)
  BY <1>3, <1>4, PlacesMoved
<1>8. \A m \in (counted + 1) .. loaded : n[m] \in Nat /\ n[m] > 1
  BY <1>7 DEF Moved
<1>9. \A i \in (Len(console) + 2) .. Len(said), m \in (counted + 1) .. loaded :
              y[m] < x[i] <=> m <= said[i]
  <2> TAKE i \in (Len(console) + 2) .. Len(said), m \in (counted + 1) .. loaded
  <2>1. i \in (Len(console) + 1) .. Len(said)
    BY <1>4
  <2>2. n[m] < v[i] <=> m <= said[i]
    BY <1>1, <2>1
  <2>3. y[m] = n[m] - 1 /\ x[i] = v[i] - 1 /\ n[m] \in Nat /\ v[i] \in Nat
    BY <1>6, <1>7, <2>1 DEF Moved
  <2>4. y[m] < x[i] <=> n[m] < v[i]
    BY <2>3
  <2> QED
    BY <2>2, <2>4
<1>10. said[Len(console) + 1] = counted
  <2> DEFINE i == Len(console) + 1
  <2>1. i \in (Len(console) + 1) .. Len(said) /\ i \in DOMAIN said
    BY <1>4, <1>5
  <2>2. counted <= said[i] /\ said[i] \in Nat /\ said[i] <= loaded
    BY <1>4, <2>1 DEF ConsoleInv
  <2> HIDE DEF i
  <2>3. ASSUME counted < said[i] PROVE FALSE
    <3>1. counted + 1 \in (counted + 1) .. loaded /\ counted + 1 <= said[i]
      BY <1>4, <2>2, <2>3
    <3>2. n[counted + 1] < v[i]
      BY <1>1, <2>1, <3>1
    <3> QED
      BY <1>5, <1>8, <3>1, <3>2 DEF i
  <2>4. said[i] = counted
    BY <1>4, <2>2, <2>3
  <2> QED
    BY <2>4 DEF i
<1>11. \A i \in DOMAIN console' : console'[i] = said'[i]
  BY <1>2, <1>4, <1>10 DEF ConsoleInv
<1>12. \A i \in (Len(console') + 1) .. Len(said) : counted <= said[i]
  BY <1>4 DEF ConsoleInv
<1>13. Places(sent', "console", Len(console'), Len(said)) = Places(sent', "console", Len(console) + 1, Len(said))
  BY <1>4
<1>14. \A i \in (Len(console') + 1) .. Len(said) : i \in (Len(console) + 2) .. Len(said)
  BY <1>4
<1> QED
  BY <1>2, <1>3, <1>4, <1>6, <1>7, <1>9, <1>11, <1>12, <1>13, <1>14 DEF ConsoleInv

LEMMA ConsoleNavigated == ASSUME LogTypeOK, ConsoleInv, OnNavigated PROVE ConsoleInv'
<1>1. PICK v \in Places(sent, "console", Len(console), Len(said)),
           n \in Places(sent, "navigated", counted, loaded) :
           \A i \in (Len(console) + 1) .. Len(said), m \in (counted + 1) .. loaded :
              n[m] < v[i] <=> m <= said[i]
  BY DEF ConsoleInv
<1>2. Handles("navigated") /\ counted' = counted + 1 /\ UNCHANGED <<said, console, loaded>>
  BY DEF OnNavigated
<1>3. /\ sent' = Tail(sent) /\ sent \in Seq(LogEvents) /\ sent # <<>> /\ Head(sent).kind = "navigated"
      /\ sent[1] = Head(sent)
  BY <1>2, HandlesFacts
<1>4. /\ Len(console) \in Nat /\ Len(said) \in Nat /\ counted \in Nat /\ loaded \in Nat
      /\ counted <= loaded
      /\ \A i \in DOMAIN said : said[i] \in Nat /\ said[i] <= loaded
      /\ DOMAIN said = 1 .. Len(said)
  BY <1>2 DEF LogTypeOK, ConsoleInv
<1>5. /\ counted + 1 <= loaded /\ n[counted + 1] = 1
      /\ \E y \in Places(Tail(sent), "navigated", counted + 1, loaded) :
            \A m \in (counted + 2) .. loaded : Moved(sent, n, y, m)
  <2>1. n \in Places(sent, Head(sent).kind, counted, loaded)
    BY <1>3
  <2>2. /\ counted + 1 <= loaded /\ n[counted + 1] = 1
        /\ \E y \in Places(Tail(sent), Head(sent).kind, counted + 1, loaded) :
              \A m \in (counted + 2) .. loaded : Moved(sent, n, y, m)
    BY <1>3, <1>4, <2>1, PlacesFirst
  <2> QED
    BY <1>3, <2>2
<1>6. PICK x \in Places(Tail(sent), "console", Len(console), Len(said)) :
         \A i \in (Len(console) + 1) .. Len(said) : Moved(sent, v, x, i)
  BY <1>3, <1>4, PlacesMoved
<1>7. PICK y \in Places(Tail(sent), "navigated", counted + 1, loaded) :
         \A m \in (counted + 2) .. loaded : Moved(sent, n, y, m)
  BY <1>5
<1>8. \A i \in (Len(console) + 1) .. Len(said) : v[i] \in Nat /\ v[i] > 1
  BY <1>6 DEF Moved
<1>9. \A i \in (Len(console) + 1) .. Len(said), m \in (counted + 2) .. loaded :
              y[m] < x[i] <=> m <= said[i]
  <2> TAKE i \in (Len(console) + 1) .. Len(said), m \in (counted + 2) .. loaded
  <2>1. m \in (counted + 1) .. loaded
    BY <1>4
  <2>2. n[m] < v[i] <=> m <= said[i]
    BY <1>1, <2>1
  <2>3. y[m] = n[m] - 1 /\ x[i] = v[i] - 1 /\ n[m] \in Nat /\ v[i] \in Nat
    BY <1>6, <1>7, <2>1 DEF Moved
  <2>4. y[m] < x[i] <=> n[m] < v[i]
    BY <2>3
  <2> QED
    BY <2>2, <2>4
<1>10. \A i \in (Len(console) + 1) .. Len(said) : counted + 1 <= said[i]
  <2> TAKE i \in (Len(console) + 1) .. Len(said)
  <2>1. counted + 1 \in (counted + 1) .. loaded
    BY <1>4, <1>5
  <2>2. n[counted + 1] < v[i]
    BY <1>5, <1>8
  <2> QED
    BY <1>1, <2>1, <2>2
<1>11. \A m \in (counted' + 1) .. loaded : m \in (counted + 2) .. loaded
  BY <1>2, <1>4
<1> QED
  BY <1>2, <1>3, <1>6, <1>7, <1>9, <1>10, <1>11 DEF ConsoleInv

(***************************************************************************)
(* The network: what Chrome does.                                          *)
(***************************************************************************)

\* The lists, as sequences.
LEMMA ListFacts ==
    ASSUME LogTypeOK
    PROVE  /\ Len(requests) \in Nat /\ DOMAIN requests = 1 .. Len(requests) /\ requests \in Seq(Entries)
           /\ Len(hops) \in Nat /\ DOMAIN hops = 1 .. Len(hops) /\ hops \in Seq(Entries)
           /\ Len(requests) <= Len(hops) /\ \A i \in DOMAIN requests : i \in DOMAIN hops
           /\ \A i \in DOMAIN hops : hops[i].id \in RequestIDs
           /\ \A i \in DOMAIN requests : requests[i].id \in RequestIDs
<1>1. /\ Len(requests) \in Nat /\ DOMAIN requests = 1 .. Len(requests) /\ requests \in Seq(Entries)
      /\ Len(hops) \in Nat /\ DOMAIN hops = 1 .. Len(hops) /\ hops \in Seq(Entries)
      /\ Len(requests) <= Len(hops)
  BY DEF LogTypeOK
<1>2. \A i \in DOMAIN requests : i \in DOMAIN hops
  BY <1>1
<1>3. (\A i \in DOMAIN hops : hops[i] \in Entries) /\ \A i \in DOMAIN requests : requests[i] \in Entries
  BY <1>1
<1>4. \A e \in Entries : e.id \in RequestIDs
  BY DEF Entries
<1> QED
  BY <1>1, <1>2, <1>3, <1>4

\* An event is sent that has nothing to do with a request.
LEMMA NetSends ==
    ASSUME LogTypeOK, NetInv, NEW e \in LogEvents, Sends(e), e.kind \in {"console", "navigated"},
           UNCHANGED <<requests, requestByID, hops, phase>>
    PROVE  NetInv'
<1>1. /\ sent' = Append(sent, e) /\ sent \in Seq(LogEvents) /\ Len(sent) \in Nat
      /\ DOMAIN sent = 1 .. Len(sent) /\ DOMAIN sent' = 1 .. (Len(sent) + 1)
      /\ \A k \in DOMAIN sent : sent'[k] = sent[k]
      /\ sent'[Len(sent) + 1] = e
  BY SendsFacts
<1>2. \A k \in DOMAIN sent' : sent'[k].kind \notin {"console", "navigated"} => k \in DOMAIN sent
  BY <1>1
<1>3. AnnouncedInv'
  <2>1. PICK w \in Places(sent, "willBeSent", Len(requests), Len(hops)) :
           \A i \in (Len(requests) + 1) .. Len(hops) :
              /\ sent[w[i]].id = hops[i].id
              /\ ~ sent[w[i]].redirect => \A j \in 1 .. (i - 1) : hops[j].id # hops[i].id
    BY DEF NetInv, AnnouncedInv
  <2>2. /\ w \in Places(Append(sent, e), "willBeSent", Len(requests), Len(hops))
        /\ \A i \in (Len(requests) + 1) .. Len(hops) : Stays(sent, e, w, w, i)
    BY <1>1, ListFacts, PlacesKept
  <2>3. \A i \in (Len(requests) + 1) .. Len(hops) : sent'[w[i]] = sent[w[i]]
    BY <1>1, <2>2 DEF Stays
  <2>4. w \in Places(sent', "willBeSent", Len(requests'), Len(hops'))
    BY <1>1, <2>2
  <2>5. \A i \in (Len(requests') + 1) .. Len(hops') :
           /\ sent'[w[i]].id = hops'[i].id
           /\ ~ sent'[w[i]].redirect => \A j \in 1 .. (i - 1) : hops'[j].id # hops'[i].id
    BY <2>1, <2>3
  <2> QED
    BY <2>4, <2>5 DEF AnnouncedInv
<1>4. HopsInv' /\ FoundInv'
  BY DEF NetInv, HopsInv, FoundInv
<1>5. OutcomeInv'
  BY <1>1, <1>2 DEF NetInv, OutcomeInv, IsOutcome
<1>6. \A id, kind : Told(sent, id, kind) => Told(sent', id, kind)
  BY <1>1 DEF Told
<1>7. EntriesInv'
  BY <1>6 DEF NetInv, EntriesInv
<1> QED
  BY <1>3, <1>4, <1>5, <1>7 DEF NetInv

\* The listener takes an event that has nothing to do with a request.
LEMMA NetTakes ==
    ASSUME LogTypeOK, NetInv, NEW kind \in {"console", "navigated"}, Handles(kind),
           UNCHANGED <<requests, requestByID, hops, phase>>
    PROVE  NetInv'
<1>1. /\ sent' = Tail(sent) /\ sent \in Seq(LogEvents) /\ sent # <<>> /\ Len(sent) \in Nat
      /\ DOMAIN sent = 1 .. Len(sent) /\ DOMAIN sent' = 1 .. (Len(sent) - 1)
      /\ \A k \in DOMAIN sent' : k \in Nat /\ k + 1 \in DOMAIN sent /\ k + 1 # 1 /\ sent'[k] = sent[k + 1]
      /\ sent[1].kind = kind /\ Head(sent).kind = kind
  BY HandlesFacts
<1>2. AnnouncedInv'
  <2>1. PICK w \in Places(sent, "willBeSent", Len(requests), Len(hops)) :
           \A i \in (Len(requests) + 1) .. Len(hops) :
              /\ sent[w[i]].id = hops[i].id
              /\ ~ sent[w[i]].redirect => \A j \in 1 .. (i - 1) : hops[j].id # hops[i].id
    BY DEF NetInv, AnnouncedInv
  <2>2. PICK x \in Places(Tail(sent), "willBeSent", Len(requests), Len(hops)) :
           \A i \in (Len(requests) + 1) .. Len(hops) : Moved(sent, w, x, i)
    BY <1>1, ListFacts, PlacesMoved
  <2>3. \A i \in (Len(requests) + 1) .. Len(hops) : sent'[x[i]] = sent[w[i]]
    BY <1>1, <2>2 DEF Moved
  <2>4. x \in Places(sent', "willBeSent", Len(requests'), Len(hops'))
    BY <1>1, <2>2
  <2>5. \A i \in (Len(requests') + 1) .. Len(hops') :
           /\ sent'[x[i]].id = hops'[i].id
           /\ ~ sent'[x[i]].redirect => \A j \in 1 .. (i - 1) : hops'[j].id # hops'[i].id
    BY <2>1, <2>3
  <2> QED
    BY <2>4, <2>5 DEF AnnouncedInv
<1>3. HopsInv' /\ FoundInv'
  BY DEF NetInv, HopsInv, FoundInv
<1>4. OutcomeInv'
  <2> SUFFICES ASSUME NEW k \in DOMAIN sent', IsOutcome(sent'[k])
               PROVE  /\ phase[sent'[k].id] \in {"answered", "over"}
                      /\ \A l \in DOMAIN sent' :
                            sent'[l].kind = "willBeSent" /\ sent'[l].id = sent'[k].id => l < k
                      /\ \A i \in DOMAIN hops : hops[i].id = sent'[k].id /\ LastOfAll(hops, i) =>
                            IF sent'[k].kind = "responseReceived" THEN hops[i].response = "final"
                            ELSE hops[i].outcome = sent'[k].kind
    BY DEF OutcomeInv
  <2>1. k + 1 \in DOMAIN sent /\ IsOutcome(sent[k + 1]) /\ sent'[k] = sent[k + 1]
    BY <1>1
  <2>2. \A l \in DOMAIN sent' : sent'[l].kind = "willBeSent" /\ sent'[l].id = sent'[k].id => l + 1 < k + 1
    BY <1>1, <2>1 DEF NetInv, OutcomeInv
  <2>3. \A l \in DOMAIN sent' : l \in Nat /\ k \in Nat
    BY <1>1
  <2> QED
    BY <2>1, <2>2, <2>3 DEF NetInv, OutcomeInv
<1>5. ASSUME NEW id, NEW what, what \notin {"console", "navigated"}, Told(sent, id, what)
      PROVE  Told(sent', id, what)
  <2>1. PICK k \in DOMAIN sent : sent[k].kind = what /\ sent[k].id = id
    BY <1>5 DEF Told
  <2>2. k - 1 \in DOMAIN sent' /\ (k - 1) + 1 = k
    BY <1>1, <1>5, <2>1
  <2> QED
    BY <1>1, <2>1, <2>2 DEF Told
<1>6. \A i \in DOMAIN hops : hops[i].outcome \notin {"console", "navigated"}
  <2>1. \A i \in DOMAIN hops : hops[i] \in Entries
    BY ListFacts
  <2> QED
    BY <2>1 DEF Entries, Outcomes
<1>7. EntriesInv'
  BY <1>5, <1>6 DEF NetInv, EntriesInv
<1> QED
  BY <1>2, <1>3, <1>4, <1>7 DEF NetInv

\* A request that has not begun has no hops.
LEMMA NewHasNoHops ==
    ASSUME LogTypeOK, NetInv, NEW id \in RequestIDs, phase[id] = "new"
    PROVE  \A i \in DOMAIN hops : hops[i].id # id
<1> SUFFICES ASSUME HopsOf(id) # {} PROVE FALSE
  BY DEF HopsOf
<1>1. LastHop(id) \in DOMAIN hops /\ hops[LastHop(id)].id = id /\ LastOfAll(hops, LastHop(id))
  BY LastHopFacts
<1> QED
  BY <1>1 DEF NetInv, HopsInv, Reached

\* A request begins, or is redirected.
LEMMA NetHop ==
    ASSUME LogTypeOK, NetInv, NEW id \in RequestIDs, NEW b \in BOOLEAN,
           Sends(NetworkEvent("willBeSent", id, b)),
           phase[id] \in {"new", "pending"}, phase' = [phase EXCEPT ![id] = "pending"],
           ~b => \A i \in DOMAIN hops : hops[i].id # id,
           hops' \in Seq(Entries), Len(hops') = Len(hops) + 1,
           \A i \in DOMAIN hops :
              /\ hops'[i].id = hops[i].id
              /\ IF hops[i].id = id /\ LastOfAll(hops, i)
                 THEN hops'[i].response = "redirect" /\ hops'[i].outcome = "finished"
                 ELSE hops'[i].response = hops[i].response /\ hops'[i].outcome = hops[i].outcome,
           hops'[Len(hops) + 1].id = id,
           hops'[Len(hops) + 1].response = "none" /\ hops'[Len(hops) + 1].outcome = "none",
           UNCHANGED <<requests, requestByID>>
    PROVE  NetInv'
<1> DEFINE e == NetworkEvent("willBeSent", id, b)
<1>1. e \in LogEvents /\ e.kind = "willBeSent" /\ e.id = id /\ e.redirect = b
  BY EventTypes DEF NetworkEvent
<1> HIDE DEF e
<1>2. /\ sent' = Append(sent, e) /\ sent \in Seq(LogEvents) /\ Len(sent) \in Nat
      /\ DOMAIN sent = 1 .. Len(sent) /\ DOMAIN sent' = 1 .. (Len(sent) + 1)
      /\ \A k \in DOMAIN sent : sent'[k] = sent[k]
      /\ sent'[Len(sent) + 1] = e
  <2>1. Sends(e)
    BY DEF e
  <2> QED
    BY <1>1, <2>1, SendsFacts
<1>3. /\ Len(hops) \in Nat /\ DOMAIN hops = 1 .. Len(hops) /\ DOMAIN hops' = 1 .. (Len(hops) + 1)
      /\ Len(requests) \in Nat /\ DOMAIN requests = 1 .. Len(requests) /\ Len(requests) <= Len(hops)
      /\ \A i \in DOMAIN hops : hops[i].id \in RequestIDs
      /\ \A i \in DOMAIN requests : i \in DOMAIN hops
  BY ListFacts
<1>4. /\ \A i \in DOMAIN hops : LastOfAll(hops', i) <=> LastOfAll(hops, i) /\ hops[i].id # id
      /\ LastOfAll(hops', Len(hops) + 1)
  <2>1. ASSUME NEW i \in DOMAIN hops PROVE LastOfAll(hops', i) <=> LastOfAll(hops, i) /\ hops[i].id # id
    <3>1. \A j \in (i + 1) .. (Len(hops) + 1) : j \in (i + 1) .. Len(hops) \/ j = Len(hops) + 1
      BY <1>3
    <3>2. Len(hops) + 1 \in (i + 1) .. (Len(hops) + 1)
      BY <1>3
    <3>3. \A j \in (i + 1) .. Len(hops) : j \in DOMAIN hops /\ j \in (i + 1) .. (Len(hops) + 1)
      BY <1>3
    <3> QED
      BY <3>1, <3>2, <3>3 DEF LastOfAll
  <2> QED
    BY <1>3, <2>1 DEF LastOfAll
<1>5. \A q \in RequestIDs : phase'[q] = IF q = id THEN "pending" ELSE phase[q]
  BY DEF LogTypeOK
<1>6. AnnouncedInv'
  <2>1. PICK w \in Places(sent, "willBeSent", Len(requests), Len(hops)) :
           \A i \in (Len(requests) + 1) .. Len(hops) :
              /\ sent[w[i]].id = hops[i].id
              /\ ~ sent[w[i]].redirect => \A j \in 1 .. (i - 1) : hops[j].id # hops[i].id
    BY DEF NetInv, AnnouncedInv
  <2>2. w \in Places(sent, e.kind, Len(requests), Len(hops))
    BY <1>1
  <2>3. PICK x \in Places(Append(sent, e), e.kind, Len(requests), Len(hops) + 1) :
           /\ x[Len(hops) + 1] = Len(sent) + 1 /\ Append(sent, e)[x[Len(hops) + 1]] = e
           /\ \A i \in (Len(requests) + 1) .. Len(hops) : Stays(sent, e, w, x, i)
    BY <1>1, <1>2, <1>3, <2>2, PlacesAdded
  <2>4. x \in Places(sent', "willBeSent", Len(requests'), Len(hops'))
    BY <1>1, <1>2, <2>3
  <2>5. \A i \in (Len(requests) + 1) .. (Len(hops) + 1) :
           /\ sent'[x[i]].id = hops'[i].id
           /\ ~ sent'[x[i]].redirect => \A j \in 1 .. (i - 1) : hops'[j].id # hops'[i].id
    <3> TAKE i \in (Len(requests) + 1) .. (Len(hops) + 1)
    <3>1. CASE i = Len(hops) + 1
      <4>1. sent'[x[i]] = e /\ \A j \in 1 .. (i - 1) : j \in DOMAIN hops
        BY <1>2, <1>3, <2>3, <3>1
      <4> QED
        BY <1>1, <3>1, <4>1
    <3>2. CASE i \in (Len(requests) + 1) .. Len(hops)
      <4>1. sent'[x[i]] = sent[w[i]] /\ i \in DOMAIN hops /\ \A j \in 1 .. (i - 1) : j \in DOMAIN hops
        BY <1>2, <1>3, <2>3, <3>2 DEF Stays
      <4> QED
        BY <2>1, <3>2, <4>1
    <3> QED
      BY <1>3, <3>1, <3>2
  <2> QED
    BY <2>4, <2>5 DEF AnnouncedInv
<1>7. HopsInv'
  <2> SUFFICES ASSUME NEW i \in DOMAIN hops'
               PROVE  IF LastOfAll(hops', i) THEN Reached(phase'[hops'[i].id], hops'[i])
                      ELSE hops'[i].response = "redirect" /\ hops'[i].outcome = "finished"
    BY DEF HopsInv
  <2>1. CASE i = Len(hops) + 1
    BY <1>4, <1>5, <2>1 DEF Reached
  <2>2. CASE i \in DOMAIN hops
    <3>1. IF LastOfAll(hops, i) THEN Reached(phase[hops[i].id], hops[i])
          ELSE hops[i].response = "redirect" /\ hops[i].outcome = "finished"
      BY <2>2 DEF NetInv, HopsInv
    <3> QED
      BY <1>3, <1>4, <1>5, <2>2, <3>1 DEF Reached
  <2> QED
    BY <1>3, <2>1, <2>2
<1>8. FoundInv'
  BY DEF NetInv, FoundInv
<1>9. \A k \in DOMAIN sent' : IsOutcome(sent'[k]) =>
         k \in DOMAIN sent /\ sent'[k] = sent[k] /\ sent[k].id # id /\ sent[k].id \in RequestIDs
  <2>1. \A k \in DOMAIN sent : sent[k] \in LogEvents
    BY <1>2
  <2> QED
    BY <1>1, <1>2, <2>1, EventFacts DEF NetInv, OutcomeInv, IsOutcome
<1>10. OutcomeInv'
  <2> SUFFICES ASSUME NEW k \in DOMAIN sent', IsOutcome(sent'[k])
               PROVE  /\ phase'[sent'[k].id] \in {"answered", "over"}
                      /\ \A l \in DOMAIN sent' :
                            sent'[l].kind = "willBeSent" /\ sent'[l].id = sent'[k].id => l < k
                      /\ \A i \in DOMAIN hops' : hops'[i].id = sent'[k].id /\ LastOfAll(hops', i) =>
                            IF sent'[k].kind = "responseReceived" THEN hops'[i].response = "final"
                            ELSE hops'[i].outcome = sent'[k].kind
    BY DEF OutcomeInv
  <2>1. k \in DOMAIN sent /\ sent'[k] = sent[k] /\ sent[k].id # id /\ sent[k].id \in RequestIDs /\ IsOutcome(sent[k])
    BY <1>9
  <2>2. phase'[sent'[k].id] \in {"answered", "over"}
    BY <1>5, <2>1 DEF NetInv, OutcomeInv
  <2>3. \A l \in DOMAIN sent' : sent'[l].id = sent'[k].id => l \in DOMAIN sent /\ sent'[l] = sent[l]
    BY <1>1, <1>2, <2>1
  <2>4. \A l \in DOMAIN sent' : sent'[l].kind = "willBeSent" /\ sent'[l].id = sent'[k].id => l < k
    BY <2>1, <2>3 DEF NetInv, OutcomeInv
  <2>5. \A i \in DOMAIN hops' : hops'[i].id = sent'[k].id => i \in DOMAIN hops /\ hops[i].id # id
    BY <1>3, <2>1
  <2>6. \A i \in DOMAIN hops' : hops'[i].id = sent'[k].id /\ LastOfAll(hops', i) =>
                            IF sent'[k].kind = "responseReceived" THEN hops'[i].response = "final"
                            ELSE hops'[i].outcome = sent'[k].kind
    BY <1>4, <2>1, <2>5 DEF NetInv, OutcomeInv
  <2> QED
    BY <2>2, <2>4, <2>6
<1>11. \A q, kind : Told(sent, q, kind) => Told(sent', q, kind)
  BY <1>2 DEF Told
<1>12. \A i \in DOMAIN hops : hops[i].id = id /\ LastOfAll(hops, i) =>
          hops[i].response = "none" /\ hops[i].outcome = "none"
  BY DEF NetInv, HopsInv, Reached
<1>13. \A i \in DOMAIN requests :
          /\ requests[i].id = hops'[i].id
          /\ requests[i].response \in {"none", hops'[i].response}
          /\ requests[i].outcome \in {"none", hops'[i].outcome}
          /\ i # requestByID[hops'[i].id] =>
                requests[i].response = "redirect" /\ requests[i].outcome = "finished"
  BY <1>3, <1>12 DEF NetInv, EntriesInv
<1>14. \A i \in DOMAIN hops' : LastOfAll(hops', i) =>
          /\ \/ i \in DOMAIN requests /\ requests[i].response = hops'[i].response
             \/ hops'[i].response = "none"
             \/ Told(sent', hops'[i].id, "responseReceived")
          /\ \/ i \in DOMAIN requests /\ requests[i].outcome = hops'[i].outcome
             \/ hops'[i].outcome = "none"
             \/ Told(sent', hops'[i].id, hops'[i].outcome)
  <2> TAKE i \in DOMAIN hops'
  <2>1. CASE i = Len(hops) + 1
    BY <2>1
  <2>2. CASE i \in DOMAIN hops
    BY <1>4, <1>11, <2>2 DEF NetInv, EntriesInv
  <2> QED
    BY <1>3, <2>1, <2>2
<1>15. EntriesInv'
  BY <1>13, <1>14 DEF EntriesInv
<1> QED
  BY <1>6, <1>7, <1>8, <1>10, <1>15 DEF NetInv

\* A request is answered, or comes to its end.
LEMMA NetProgress ==
    ASSUME LogTypeOK, NetInv, NEW id \in RequestIDs, NEW kind \in {"responseReceived", "finished", "failed"},
           Sends(NetworkEvent(kind, id, FALSE)),
           phase[id] \in {"pending", "answered"}, kind = "responseReceived" => phase[id] = "pending",
           phase' = [phase EXCEPT ![id] = IF kind = "responseReceived" THEN "answered" ELSE "over"],
           hops' \in Seq(Entries), Len(hops') = Len(hops),
           \A i \in DOMAIN hops :
              /\ hops'[i].id = hops[i].id
              /\ hops'[i].response = IF hops[i].id = id /\ LastOfAll(hops, i) /\ kind = "responseReceived"
                                     THEN "final" ELSE hops[i].response
              /\ hops'[i].outcome = IF hops[i].id = id /\ LastOfAll(hops, i) /\ kind # "responseReceived"
                                    THEN kind ELSE hops[i].outcome,
           UNCHANGED <<requests, requestByID>>
    PROVE  NetInv'
<1> DEFINE e == NetworkEvent(kind, id, FALSE)
<1>1. e \in LogEvents /\ e.kind = kind /\ e.id = id /\ e.kind # "willBeSent"
  BY EventTypes DEF NetworkEvent
<1> HIDE DEF e
<1>2. /\ sent' = Append(sent, e) /\ sent \in Seq(LogEvents) /\ Len(sent) \in Nat
      /\ DOMAIN sent = 1 .. Len(sent) /\ DOMAIN sent' = 1 .. (Len(sent) + 1)
      /\ \A k \in DOMAIN sent : sent'[k] = sent[k]
      /\ sent'[Len(sent) + 1] = e
  <2>1. Sends(e)
    BY DEF e
  <2> QED
    BY <1>1, <2>1, SendsFacts
<1>3. /\ Len(hops) \in Nat /\ DOMAIN hops = 1 .. Len(hops) /\ DOMAIN hops' = 1 .. Len(hops)
      /\ Len(requests) \in Nat /\ DOMAIN requests = 1 .. Len(requests) /\ Len(requests) <= Len(hops)
      /\ \A i \in DOMAIN hops : hops[i].id \in RequestIDs
      /\ \A i \in DOMAIN requests : i \in DOMAIN hops
  BY ListFacts
<1>4. \A i \in DOMAIN hops : LastOfAll(hops', i) <=> LastOfAll(hops, i)
  <2> TAKE i \in DOMAIN hops
  <2>1. \A j \in (i + 1) .. Len(hops) : j \in DOMAIN hops
    BY <1>3
  <2> QED
    BY <1>3, <2>1 DEF LastOfAll
<1>5. \A q \in RequestIDs :
         phase'[q] = IF q = id THEN (IF kind = "responseReceived" THEN "answered" ELSE "over") ELSE phase[q]
  BY DEF LogTypeOK
<1>6. AnnouncedInv'
  <2>1. PICK w \in Places(sent, "willBeSent", Len(requests), Len(hops)) :
           \A i \in (Len(requests) + 1) .. Len(hops) :
              /\ sent[w[i]].id = hops[i].id
              /\ ~ sent[w[i]].redirect => \A j \in 1 .. (i - 1) : hops[j].id # hops[i].id
    BY DEF NetInv, AnnouncedInv
  <2>2. /\ w \in Places(Append(sent, e), "willBeSent", Len(requests), Len(hops))
        /\ \A i \in (Len(requests) + 1) .. Len(hops) : Stays(sent, e, w, w, i)
    BY <1>1, <1>2, <1>3, PlacesKept
  <2>3. \A i \in (Len(requests) + 1) .. Len(hops) : sent'[w[i]] = sent[w[i]]
    BY <1>2, <2>2 DEF Stays
  <2>4. w \in Places(sent', "willBeSent", Len(requests'), Len(hops'))
    BY <1>2, <2>2
  <2>5. \A i \in (Len(requests') + 1) .. Len(hops') :
           /\ sent'[w[i]].id = hops'[i].id
           /\ ~ sent'[w[i]].redirect => \A j \in 1 .. (i - 1) : hops'[j].id # hops'[i].id
    <3> TAKE i \in (Len(requests') + 1) .. Len(hops')
    <3>1. i \in (Len(requests) + 1) .. Len(hops) /\ i \in DOMAIN hops /\ \A j \in 1 .. (i - 1) : j \in DOMAIN hops
      BY <1>3
    <3> QED
      BY <2>1, <2>3, <3>1
  <2> QED
    BY <2>4, <2>5 DEF AnnouncedInv
<1>7. HopsInv'
  <2> SUFFICES ASSUME NEW i \in DOMAIN hops'
               PROVE  IF LastOfAll(hops', i) THEN Reached(phase'[hops'[i].id], hops'[i])
                      ELSE hops'[i].response = "redirect" /\ hops'[i].outcome = "finished"
    BY DEF HopsInv
  <2>1. i \in DOMAIN hops
    BY <1>3
  <2>2. IF LastOfAll(hops, i) THEN Reached(phase[hops[i].id], hops[i])
        ELSE hops[i].response = "redirect" /\ hops[i].outcome = "finished"
    BY <2>1 DEF NetInv, HopsInv
  <2> QED
    BY <1>3, <1>4, <1>5, <2>1, <2>2 DEF Reached
<1>8. FoundInv'
  BY DEF NetInv, FoundInv
<1>9. \A i \in DOMAIN hops : hops[i].id = id /\ LastOfAll(hops, i) => Reached(phase[id], hops[i])
  BY DEF NetInv, HopsInv
<1>10. OutcomeInv'
  <2> SUFFICES ASSUME NEW k \in DOMAIN sent', IsOutcome(sent'[k])
               PROVE  /\ phase'[sent'[k].id] \in {"answered", "over"}
                      /\ \A l \in DOMAIN sent' :
                            sent'[l].kind = "willBeSent" /\ sent'[l].id = sent'[k].id => l < k
                      /\ \A i \in DOMAIN hops' : hops'[i].id = sent'[k].id /\ LastOfAll(hops', i) =>
                            IF sent'[k].kind = "responseReceived" THEN hops'[i].response = "final"
                            ELSE hops'[i].outcome = sent'[k].kind
    BY DEF OutcomeInv
  <2>1. \A l \in DOMAIN sent' : sent'[l].kind = "willBeSent" => l \in DOMAIN sent /\ sent'[l] = sent[l] /\ l < Len(sent) + 1
    BY <1>1, <1>2
  <2>2. CASE k = Len(sent) + 1
    <3>1. sent'[k].kind = kind /\ sent'[k].id = id
      BY <1>1, <1>2, <2>2
    <3>2. phase'[sent'[k].id] \in {"answered", "over"}
      BY <1>5, <3>1
    <3>3. \A l \in DOMAIN sent' : sent'[l].kind = "willBeSent" /\ sent'[l].id = sent'[k].id => l < k
      BY <2>1, <2>2
    <3>4. \A i \in DOMAIN hops' : hops'[i].id = sent'[k].id /\ LastOfAll(hops', i) =>
                            IF sent'[k].kind = "responseReceived" THEN hops'[i].response = "final"
                            ELSE hops'[i].outcome = sent'[k].kind
      BY <1>3, <1>4, <3>1
    <3> QED
      BY <3>2, <3>3, <3>4
  <2>3. CASE k \in DOMAIN sent
    <3>1. sent'[k] = sent[k] /\ IsOutcome(sent[k])
      BY <1>2, <2>3
    <3>2. sent[k].id \in RequestIDs /\ sent[k].kind \in {"responseReceived", "finished", "failed"}
      <4>1. sent[k] \in LogEvents
        BY <1>2, <2>3
      <4> QED
        BY <3>1, <4>1, EventFacts DEF IsOutcome
    <3>3. phase[sent[k].id] \in {"answered", "over"}
      BY <2>3, <3>1 DEF NetInv, OutcomeInv
    <3>4. phase'[sent[k].id] \in {"answered", "over"}
      BY <1>5, <3>2, <3>3
    <3>5. \A l \in DOMAIN sent' : sent'[l].kind = "willBeSent" /\ sent'[l].id = sent'[k].id => l < k
      BY <2>1, <2>3, <3>1 DEF NetInv, OutcomeInv
    <3>6. \A i \in DOMAIN hops : hops[i].id = sent[k].id /\ LastOfAll(hops, i) =>
                            IF sent[k].kind = "responseReceived" THEN hops[i].response = "final"
                            ELSE hops[i].outcome = sent[k].kind
      BY <2>3, <3>1 DEF NetInv, OutcomeInv
    <3>7. sent[k].id = id => phase[id] = "answered" /\ kind # "responseReceived"
      BY <3>3
    <3>8. \A i \in DOMAIN hops' : hops'[i].id = sent'[k].id /\ LastOfAll(hops', i) =>
                            IF sent'[k].kind = "responseReceived" THEN hops'[i].response = "final"
                            ELSE hops'[i].outcome = sent'[k].kind
      <4> SUFFICES ASSUME NEW i \in DOMAIN hops, hops[i].id = sent[k].id, LastOfAll(hops, i)
                   PROVE  IF sent[k].kind = "responseReceived" THEN hops'[i].response = "final"
                          ELSE hops'[i].outcome = sent[k].kind
        BY <1>3, <1>4, <3>1
      <4>1. CASE hops[i].id # id
        BY <3>6, <4>1
      <4>2. CASE hops[i].id = id
        <5>1. hops[i].response = "final" /\ hops[i].outcome = "none"
          BY <1>9, <3>7, <4>2 DEF Reached
        <5>2. sent[k].kind = "responseReceived"
          BY <3>2, <3>6, <5>1
        <5> QED
          BY <3>7, <4>2, <5>1, <5>2
      <4> QED
        BY <4>1, <4>2
    <3> QED
      BY <3>1, <3>4, <3>5, <3>8
  <2> QED
    BY <1>2, <2>2, <2>3
<1>11. \A q, what : Told(sent, q, what) => Told(sent', q, what)
  BY <1>2 DEF Told
<1>12. Told(sent', id, kind)
  <2>1. Len(sent) + 1 \in DOMAIN sent'
    BY <1>2
  <2> QED
    BY <1>1, <1>2, <2>1 DEF Told
<1>13. \A i \in DOMAIN requests :
          /\ requests[i].id = hops'[i].id
          /\ requests[i].response \in {"none", hops'[i].response}
          /\ requests[i].outcome \in {"none", hops'[i].outcome}
          /\ i # requestByID[hops'[i].id] =>
                requests[i].response = "redirect" /\ requests[i].outcome = "finished"
  <2> TAKE i \in DOMAIN requests
  <2>1. /\ requests[i].id = hops[i].id /\ i \in DOMAIN hops
        /\ requests[i].response \in {"none", hops[i].response}
        /\ requests[i].outcome \in {"none", hops[i].outcome}
        /\ i # requestByID[hops[i].id] =>
                requests[i].response = "redirect" /\ requests[i].outcome = "finished"
    BY <1>3 DEF NetInv, EntriesInv
  <2>2. CASE hops[i].id = id /\ LastOfAll(hops, i)
    BY <1>9, <2>1, <2>2 DEF Reached
  <2>3. CASE ~(hops[i].id = id /\ LastOfAll(hops, i))
    BY <2>1, <2>3
  <2> QED
    BY <2>2, <2>3
<1>14. \A i \in DOMAIN hops' : LastOfAll(hops', i) =>
          /\ \/ i \in DOMAIN requests /\ requests[i].response = hops'[i].response
             \/ hops'[i].response = "none"
             \/ Told(sent', hops'[i].id, "responseReceived")
          /\ \/ i \in DOMAIN requests /\ requests[i].outcome = hops'[i].outcome
             \/ hops'[i].outcome = "none"
             \/ Told(sent', hops'[i].id, hops'[i].outcome)
  <2> SUFFICES ASSUME NEW i \in DOMAIN hops, LastOfAll(hops, i)
      PROVE
          /\ \/ i \in DOMAIN requests /\ requests[i].response = hops'[i].response
             \/ hops'[i].response = "none"
             \/ Told(sent', hops[i].id, "responseReceived")
          /\ \/ i \in DOMAIN requests /\ requests[i].outcome = hops'[i].outcome
             \/ hops'[i].outcome = "none"
             \/ Told(sent', hops[i].id, hops'[i].outcome)
    BY <1>3, <1>4
  <2>1. /\ \/ i \in DOMAIN requests /\ requests[i].response = hops[i].response
           \/ hops[i].response = "none"
           \/ Told(sent', hops[i].id, "responseReceived")
        /\ \/ i \in DOMAIN requests /\ requests[i].outcome = hops[i].outcome
           \/ hops[i].outcome = "none"
           \/ Told(sent', hops[i].id, hops[i].outcome)
    BY <1>11 DEF NetInv, EntriesInv
  <2>2. CASE hops[i].id # id
    BY <2>1, <2>2
  <2>3. CASE hops[i].id = id /\ kind = "responseReceived"
    BY <1>12, <2>1, <2>3
  <2>4. CASE hops[i].id = id /\ kind # "responseReceived"
    BY <1>12, <2>1, <2>4
  <2> QED
    BY <2>2, <2>3, <2>4
<1>15. EntriesInv'
  BY <1>13, <1>14 DEF EntriesInv
<1> QED
  BY <1>6, <1>7, <1>8, <1>10, <1>15 DEF NetInv

(***************************************************************************)
(* The network: what the listener does.                                    *)
(***************************************************************************)

\* The listener takes an event of a request; the outcomes that are still under way
\* stay behind the hops they belong to.
LEMMA OutcomesMove ==
    ASSUME LogTypeOK, NetInv, NEW kind, Handles(kind), UNCHANGED <<hops, phase>>
    PROVE  /\ OutcomeInv'
           /\ \A id, what : Told(sent, id, what) /\ (id # Head(sent).id \/ what # kind) => Told(sent', id, what)
<1>1. /\ sent' = Tail(sent) /\ sent \in Seq(LogEvents) /\ Len(sent) \in Nat
      /\ DOMAIN sent = 1 .. Len(sent) /\ DOMAIN sent' = 1 .. (Len(sent) - 1)
      /\ \A k \in DOMAIN sent' : k \in Nat /\ k + 1 \in DOMAIN sent /\ k + 1 # 1 /\ sent'[k] = sent[k + 1]
      /\ sent[1].kind = kind /\ sent[1] = Head(sent)
  BY HandlesFacts
<1>2. OutcomeInv'
  <2> SUFFICES ASSUME NEW k \in DOMAIN sent', IsOutcome(sent'[k])
               PROVE  /\ phase[sent'[k].id] \in {"answered", "over"}
                      /\ \A l \in DOMAIN sent' :
                            sent'[l].kind = "willBeSent" /\ sent'[l].id = sent'[k].id => l < k
                      /\ \A i \in DOMAIN hops : hops[i].id = sent'[k].id /\ LastOfAll(hops, i) =>
                            IF sent'[k].kind = "responseReceived" THEN hops[i].response = "final"
                            ELSE hops[i].outcome = sent'[k].kind
    BY DEF OutcomeInv
  <2>1. k + 1 \in DOMAIN sent /\ IsOutcome(sent[k + 1]) /\ sent'[k] = sent[k + 1]
    BY <1>1
  <2>2. \A l \in DOMAIN sent' : sent'[l].kind = "willBeSent" /\ sent'[l].id = sent'[k].id => l + 1 < k + 1
    BY <1>1, <2>1 DEF NetInv, OutcomeInv
  <2>3. \A l \in DOMAIN sent' : l \in Nat /\ k \in Nat
    BY <1>1
  <2> QED
    BY <2>1, <2>2, <2>3 DEF NetInv, OutcomeInv
<1>3. ASSUME NEW id, NEW what, Told(sent, id, what), id # Head(sent).id \/ what # kind
      PROVE  Told(sent', id, what)
  <2>1. PICK k \in DOMAIN sent : sent[k].kind = what /\ sent[k].id = id
    BY <1>3 DEF Told
  <2>2. k - 1 \in DOMAIN sent' /\ (k - 1) + 1 = k
    BY <1>1, <1>3, <2>1
  <2> QED
    BY <1>1, <2>1, <2>2 DEF Told
<1> QED
  BY <1>2, <1>3

\* The hop announced first is the one that is logged next.
LEMMA NextHop ==
    ASSUME LogTypeOK, NetInv, Handles("willBeSent"), UNCHANGED hops,
           Len(requests') = Len(requests) + 1
    PROVE  /\ Len(requests) + 1 \in DOMAIN hops /\ hops[Len(requests) + 1].id = Head(sent).id
           /\ ~ Head(sent).redirect => \A j \in DOMAIN requests : hops[j].id # Head(sent).id
           /\ AnnouncedInv'
<1> DEFINE n == Len(requests) + 1
<1>1. /\ sent' = Tail(sent) /\ sent \in Seq(LogEvents) /\ sent # <<>>
      /\ sent[1] = Head(sent) /\ Head(sent).kind = "willBeSent"
  BY HandlesFacts
<1>2. /\ Len(requests) \in Nat /\ DOMAIN requests = 1 .. Len(requests)
      /\ Len(hops) \in Nat /\ DOMAIN hops = 1 .. Len(hops)
  BY ListFacts
<1>3. PICK w \in Places(sent, "willBeSent", Len(requests), Len(hops)) :
         \A i \in (Len(requests) + 1) .. Len(hops) :
            /\ sent[w[i]].id = hops[i].id
            /\ ~ sent[w[i]].redirect => \A j \in 1 .. (i - 1) : hops[j].id # hops[i].id
  BY DEF NetInv, AnnouncedInv
<1>4. /\ Len(requests) + 1 <= Len(hops) /\ w[Len(requests) + 1] = 1
      /\ \E x \in Places(Tail(sent), "willBeSent", Len(requests) + 1, Len(hops)) :
            \A i \in (Len(requests) + 2) .. Len(hops) : Moved(sent, w, x, i)
  <2>1. w \in Places(sent, Head(sent).kind, Len(requests), Len(hops))
    BY <1>1
  <2>2. /\ Len(requests) + 1 <= Len(hops) /\ w[Len(requests) + 1] = 1
        /\ \E x \in Places(Tail(sent), Head(sent).kind, Len(requests) + 1, Len(hops)) :
              \A i \in (Len(requests) + 2) .. Len(hops) : Moved(sent, w, x, i)
    BY <1>1, <1>2, <2>1, PlacesFirst
  <2> QED
    BY <1>1, <2>2
<1>5. PICK x \in Places(Tail(sent), "willBeSent", Len(requests) + 1, Len(hops)) :
         \A i \in (Len(requests) + 2) .. Len(hops) : Moved(sent, w, x, i)
  BY <1>4
<1>6. n \in (Len(requests) + 1) .. Len(hops) /\ n \in DOMAIN hops /\ w[n] = 1
  BY <1>2, <1>4
<1>7. /\ hops[n].id = Head(sent).id
      /\ ~ Head(sent).redirect => \A j \in 1 .. (n - 1) : hops[j].id # hops[n].id
  <2> HIDE DEF n
  <2> QED
    BY <1>1, <1>3, <1>6
<1>8. ~ Head(sent).redirect => \A j \in DOMAIN requests : hops[j].id # Head(sent).id
  <2>1. \A j \in DOMAIN requests : j \in 1 .. (n - 1)
    BY <1>2
  <2> HIDE DEF n
  <2> QED
    BY <1>7, <2>1
<1>9. AnnouncedInv'
  <2>1. x \in Places(sent', "willBeSent", Len(requests'), Len(hops'))
    BY <1>1, <1>5
  <2>2. \A i \in (Len(requests') + 1) .. Len(hops') :
           /\ sent'[x[i]].id = hops'[i].id
           /\ ~ sent'[x[i]].redirect => \A j \in 1 .. (i - 1) : hops'[j].id # hops'[i].id
    <3> TAKE i \in (Len(requests') + 1) .. Len(hops')
    <3>1. i \in (Len(requests) + 2) .. Len(hops) /\ i \in (Len(requests) + 1) .. Len(hops)
      BY <1>2
    <3>2. sent'[x[i]] = sent[w[i]]
      BY <1>1, <1>5, <3>1 DEF Moved
    <3> QED
      BY <1>3, <3>1, <3>2
  <2> QED
    BY <2>1, <2>2 DEF AnnouncedInv
<1> QED
  BY <1>6, <1>7, <1>8, <1>9

\* The hop is logged, and the one before it settled.
LEMMA NetLogged ==
    ASSUME LogTypeOK, NetInv, OnRequestWillBeSent
    PROVE  requests' \in Seq(Entries) /\ Len(requests') = Len(requests) + 1 /\ NetInv'
<1> DEFINE e == Head(sent)
           id == e.id
           p == requestByID[id]
           n == Len(requests) + 1
           settled == IF e.redirect /\ p # 0 THEN Settle(requests, p) ELSE requests
<1>1. Handles("willBeSent") /\ UNCHANGED <<hops, phase>>
  BY DEF OnRequestWillBeSent
<1>2. id \in RequestIDs
  BY <1>1, HandlesFacts
<1>3. /\ requests' = Append(settled, Entry(id, "none", "none"))
      /\ requestByID' = [requestByID EXCEPT ![id] = Len(requests')]
  BY DEF OnRequestWillBeSent, Log
<1>4. /\ Len(requests) \in Nat /\ DOMAIN requests = 1 .. Len(requests) /\ requests \in Seq(Entries)
      /\ Len(hops) \in Nat /\ DOMAIN hops = 1 .. Len(hops)
      /\ Len(requests) <= Len(hops) /\ \A i \in DOMAIN requests : i \in DOMAIN hops
      /\ \A i \in DOMAIN hops : hops[i].id \in RequestIDs
      /\ \A i \in DOMAIN requests : requests[i].id \in RequestIDs
  BY ListFacts
<1>5. /\ p # 0 => p \in DOMAIN requests /\ requests[p].id = id
      /\ \A j \in DOMAIN requests : requests[j].id = id => j <= p
  BY <1>2 DEF NetInv, FoundInv
<1> HIDE DEF e, id, p
<1>6. /\ settled \in Seq(Entries) /\ Len(settled) = Len(requests)
      /\ \A j \in DOMAIN requests :
           /\ settled[j].id = requests[j].id
           /\ settled[j].response = IF e.redirect /\ j = p THEN "redirect" ELSE requests[j].response
           /\ settled[j].outcome = IF e.redirect /\ j = p THEN "finished" ELSE requests[j].outcome
  <2>1. CASE e.redirect /\ p # 0
    <3>1. p \in DOMAIN requests /\ settled = Ended(Answered(requests, p, "redirect"), p, "finished")
      BY <1>5, <2>1 DEF Settle
    <3>2. "redirect" \in Responses /\ "finished" \in Outcomes
      BY DEF Responses, Outcomes
    <3> DEFINE a == Answered(requests, p, "redirect")
    <3>3. /\ a \in Seq(Entries) /\ Len(a) = Len(requests)
          /\ \A j \in DOMAIN requests :
                /\ a[j].id = requests[j].id
                /\ a[j].response = IF j = p THEN "redirect" ELSE requests[j].response
                /\ a[j].outcome = requests[j].outcome
      BY <1>4, <3>1, <3>2, EntryFacts
    <3>4. DOMAIN a = DOMAIN requests /\ settled = Ended(a, p, "finished")
      BY <1>4, <3>1, <3>3
    <3> HIDE DEF a, settled
    <3>5. /\ settled \in Seq(Entries) /\ Len(settled) = Len(a)
          /\ \A j \in DOMAIN a :
                /\ settled[j].id = a[j].id
                /\ settled[j].response = a[j].response
                /\ settled[j].outcome = IF j = p THEN "finished" ELSE a[j].outcome
      <4>1. p \in DOMAIN a
        BY <3>1, <3>4
      <4>2. \A o \in Outcomes :
              /\ Ended(a, p, o) \in Seq(Entries) /\ Len(Ended(a, p, o)) = Len(a)
              /\ \A j \in DOMAIN a :
                   /\ Ended(a, p, o)[j].id = a[j].id
                   /\ Ended(a, p, o)[j].response = a[j].response
                   /\ Ended(a, p, o)[j].outcome = IF j = p THEN o ELSE a[j].outcome
        BY <3>3, <4>1, EntryFacts
      <4> QED
        BY <3>2, <3>4, <4>2
    <3> QED
      BY <2>1, <3>3, <3>4, <3>5
  <2>2. CASE ~(e.redirect /\ p # 0)
    <3>1. settled = requests /\ \A j \in DOMAIN requests : ~(e.redirect /\ j = p)
      BY <1>4, <2>2
    <3> HIDE DEF settled
    <3> QED
      BY <1>4, <3>1
  <2> QED
    BY <2>1, <2>2
<1> HIDE DEF settled
<1>7. /\ requests' \in Seq(Entries) /\ Len(requests') = Len(settled) + 1
      /\ \A j \in DOMAIN settled : requests'[j] = settled[j]
      /\ requests'[Len(settled) + 1].id = id
      /\ requests'[Len(settled) + 1].response = "none" /\ requests'[Len(settled) + 1].outcome = "none"
  BY <1>2, <1>3, <1>6, AddedFacts
<1>8. /\ requests' \in Seq(Entries) /\ Len(requests') = n /\ DOMAIN requests' = 1 .. n
      /\ \A j \in DOMAIN requests :
           /\ requests'[j].id = requests[j].id
           /\ requests'[j].response = IF e.redirect /\ j = p THEN "redirect" ELSE requests[j].response
           /\ requests'[j].outcome = IF e.redirect /\ j = p THEN "finished" ELSE requests[j].outcome
      /\ requests'[n].id = id /\ requests'[n].response = "none" /\ requests'[n].outcome = "none"
  BY <1>4, <1>6, <1>7
<1>9. /\ n \in DOMAIN hops /\ hops[n].id = id
      /\ ~ e.redirect => \A j \in DOMAIN requests : hops[j].id # id
      /\ AnnouncedInv'
  BY <1>1, <1>8, NextHop DEF e, id
<1>10. n \in Nat /\ n # 0 /\ \A j \in DOMAIN requests : j < n /\ j # n /\ j \in DOMAIN requests'
  BY <1>4, <1>8
<1>11. \A i \in DOMAIN requests' : i = n \/ i \in DOMAIN requests
  BY <1>4, <1>8
<1> HIDE DEF n
<1>12. \A q \in RequestIDs : requestByID'[q] = IF q = id THEN n ELSE requestByID[q]
  BY <1>2, <1>3, <1>8 DEF LogTypeOK
<1>13. HopsInv'
  BY <1>1 DEF NetInv, HopsInv
<1>14. /\ OutcomeInv'
       /\ \A q, what : Told(sent, q, what) /\ (q # Head(sent).id \/ what # "willBeSent") => Told(sent', q, what)
  BY <1>1, OutcomesMove
<1>15. FoundInv'
  <2> SUFFICES ASSUME NEW q \in RequestIDs
               PROVE  /\ requestByID'[q] # 0 => requestByID'[q] \in DOMAIN requests' /\ requests'[requestByID'[q]].id = q
                      /\ \A j \in DOMAIN requests' : requests'[j].id = q => j <= requestByID'[q]
    BY DEF FoundInv
  <2>1. CASE q = id
    <3>1. requestByID'[q] = n /\ n \in DOMAIN requests' /\ requests'[n].id = q
      BY <1>8, <1>9, <1>10, <1>12, <2>1 DEF n
    <3>2. DOMAIN requests' = 1 .. n /\ n \in Nat
      BY <1>8, <1>10
    <3>3. \A j \in DOMAIN requests' : j <= n
      BY <3>2
    <3> QED
      BY <3>1, <3>3
  <2>2. CASE q # id
    <3>1. requestByID'[q] = requestByID[q]
      BY <1>12, <2>2
    <3>2. requestByID[q] # 0 => requestByID[q] \in DOMAIN requests /\ requests[requestByID[q]].id = q
      BY DEF NetInv, FoundInv
    <3>3. \A j \in DOMAIN requests : requests[j].id = q => j <= requestByID[q]
      BY DEF NetInv, FoundInv
    <3> QED
      BY <1>8, <1>10, <1>11, <2>2, <3>1, <3>2, <3>3
  <2> QED
    BY <2>1, <2>2
\* The entry settled is of a hop that has been redirected.
<1>16. p # 0 => e.redirect /\ p \in DOMAIN requests /\ hops[p].id = id /\ ~ LastOfAll(hops, p)
                /\ hops[p].response = "redirect" /\ hops[p].outcome = "finished"
  <2> SUFFICES ASSUME p # 0
               PROVE  e.redirect /\ p \in DOMAIN requests /\ hops[p].id = id /\ ~ LastOfAll(hops, p)
                      /\ hops[p].response = "redirect" /\ hops[p].outcome = "finished"
    OBVIOUS
  <2>1. p \in DOMAIN requests /\ hops[p].id = id
    BY <1>5 DEF NetInv, EntriesInv
  <2>2. e.redirect
    BY <1>9, <2>1
  <2>3. ~ LastOfAll(hops, p)
    <3>1. n \in (p + 1) .. Len(hops)
      BY <1>4, <1>9, <1>10, <2>1
    <3> QED
      BY <1>9, <2>1, <3>1 DEF LastOfAll
  <2>4. hops[p].response = "redirect" /\ hops[p].outcome = "finished"
    BY <1>4, <2>1, <2>3 DEF NetInv, HopsInv
  <2> QED
    BY <2>1, <2>2, <2>3, <2>4
<1>17. \A i \in DOMAIN requests' :
          /\ requests'[i].id = hops[i].id
          /\ requests'[i].response \in {"none", hops[i].response}
          /\ requests'[i].outcome \in {"none", hops[i].outcome}
          /\ i # requestByID'[hops[i].id] =>
                requests'[i].response = "redirect" /\ requests'[i].outcome = "finished"
  <2> TAKE i \in DOMAIN requests'
  <2>1. CASE i = n
    BY <1>2, <1>8, <1>9, <1>12, <2>1
  <2>2. CASE i \in DOMAIN requests /\ i = p
    <3>1. p # 0
      BY <1>4, <2>2
    <3>2. requests'[i].response = "redirect" /\ requests'[i].outcome = "finished" /\ requests'[i].id = requests[i].id
      BY <1>8, <1>16, <2>2, <3>1
    <3>3. requests[i].id = hops[i].id
      BY <2>2 DEF NetInv, EntriesInv
    <3> QED
      BY <1>16, <2>2, <3>1, <3>2, <3>3
  <2>3. CASE i \in DOMAIN requests /\ i # p
    <3>1. /\ requests[i].id = hops[i].id
          /\ requests[i].response \in {"none", hops[i].response}
          /\ requests[i].outcome \in {"none", hops[i].outcome}
          /\ i # requestByID[hops[i].id] => requests[i].response = "redirect" /\ requests[i].outcome = "finished"
      BY <2>3 DEF NetInv, EntriesInv
    <3>2. /\ requests'[i].id = requests[i].id /\ requests'[i].response = requests[i].response
          /\ requests'[i].outcome = requests[i].outcome
      BY <1>8, <2>3
    <3>3. hops[i].id \in RequestIDs
      BY <1>4, <2>3
    <3>4. CASE hops[i].id = id
      BY <2>3, <3>1, <3>2, <3>4 DEF p
    <3>5. CASE hops[i].id # id
      <4>1. requestByID'[hops[i].id] = requestByID[hops[i].id]
        BY <1>12, <3>3, <3>5
      <4> QED
        BY <3>1, <3>2, <4>1
    <3> QED
      BY <3>4, <3>5
  <2> QED
    BY <1>11, <2>1, <2>2, <2>3
<1>18. \A i \in DOMAIN hops : LastOfAll(hops, i) =>
          /\ \/ i \in DOMAIN requests' /\ requests'[i].response = hops[i].response
             \/ hops[i].response = "none"
             \/ Told(sent', hops[i].id, "responseReceived")
          /\ \/ i \in DOMAIN requests' /\ requests'[i].outcome = hops[i].outcome
             \/ hops[i].outcome = "none"
             \/ Told(sent', hops[i].id, hops[i].outcome)
  <2> SUFFICES ASSUME NEW i \in DOMAIN hops, LastOfAll(hops, i)
      PROVE
          /\ \/ i \in DOMAIN requests' /\ requests'[i].response = hops[i].response
             \/ hops[i].response = "none"
             \/ Told(sent', hops[i].id, "responseReceived")
          /\ \/ i \in DOMAIN requests' /\ requests'[i].outcome = hops[i].outcome
             \/ hops[i].outcome = "none"
             \/ Told(sent', hops[i].id, hops[i].outcome)
    OBVIOUS
  <2>1. /\ \/ i \in DOMAIN requests /\ requests[i].response = hops[i].response
           \/ hops[i].response = "none"
           \/ Told(sent, hops[i].id, "responseReceived")
        /\ \/ i \in DOMAIN requests /\ requests[i].outcome = hops[i].outcome
           \/ hops[i].outcome = "none"
           \/ Told(sent, hops[i].id, hops[i].outcome)
    BY DEF NetInv, EntriesInv
  <2>2. i \in DOMAIN requests => i # p
    BY <1>4, <1>16
  <2>3. hops[i].outcome # "willBeSent"
    <3>1. hops[i] \in Entries
      BY ListFacts
    <3> QED
      BY <3>1 DEF Entries, Outcomes
  <2> QED
    BY <1>8, <1>10, <1>14, <2>1, <2>2, <2>3
<1>19. EntriesInv'
  BY <1>1, <1>17, <1>18 DEF EntriesInv
<1> QED
  BY <1>8, <1>9, <1>13, <1>14, <1>15, <1>19 DEF NetInv, n

\* An outcome is entered with the last hop of its request.
LEMMA NetApplied ==
    ASSUME LogTypeOK, NetInv, NEW kind \in {"responseReceived", "finished", "failed"}, Handles(kind),
           UNCHANGED <<requestByID, hops, phase>>,
           requests' \in Seq(Entries), Len(requests') = Len(requests),
           \A i \in DOMAIN requests :
              /\ requests'[i].id = requests[i].id
              /\ requests'[i].response = IF i = requestByID[Head(sent).id] /\ kind = "responseReceived"
                                         THEN "final" ELSE requests[i].response
              /\ requests'[i].outcome = IF i = requestByID[Head(sent).id] /\ kind # "responseReceived"
                                        THEN kind ELSE requests[i].outcome
    PROVE  NetInv'
<1> DEFINE id == Head(sent).id
           p == requestByID[id]
<1>1. /\ sent' = Tail(sent) /\ sent \in Seq(LogEvents) /\ sent # <<>> /\ Len(sent) \in Nat
      /\ DOMAIN sent = 1 .. Len(sent) /\ 1 \in DOMAIN sent
      /\ Head(sent).kind = kind /\ sent[1] = Head(sent) /\ id \in RequestIDs
  BY HandlesFacts
<1>2. /\ Len(requests) \in Nat /\ DOMAIN requests = 1 .. Len(requests)
      /\ Len(hops) \in Nat /\ DOMAIN hops = 1 .. Len(hops)
      /\ Len(requests) <= Len(hops) /\ \A i \in DOMAIN requests : i \in DOMAIN hops
      /\ \A i \in DOMAIN hops : hops[i].id \in RequestIDs
      /\ DOMAIN requests' = DOMAIN requests
  BY ListFacts
<1>3. /\ p # 0 => p \in DOMAIN requests /\ requests[p].id = id
      /\ \A j \in DOMAIN requests : requests[j].id = id => j <= p
  BY <1>1 DEF NetInv, FoundInv
<1>4. PICK w \in Places(sent, "willBeSent", Len(requests), Len(hops)) :
         \A i \in (Len(requests) + 1) .. Len(hops) :
            /\ sent[w[i]].id = hops[i].id
            /\ ~ sent[w[i]].redirect => \A j \in 1 .. (i - 1) : hops[j].id # hops[i].id
  BY DEF NetInv, AnnouncedInv
<1>5. AnnouncedInv'
  <2>1. PICK x \in Places(Tail(sent), "willBeSent", Len(requests), Len(hops)) :
           \A i \in (Len(requests) + 1) .. Len(hops) : Moved(sent, w, x, i)
    BY <1>1, <1>2, PlacesMoved
  <2>2. x \in Places(sent', "willBeSent", Len(requests'), Len(hops'))
    BY <1>1, <2>1
  <2>3. \A i \in (Len(requests') + 1) .. Len(hops') :
           /\ sent'[x[i]].id = hops'[i].id
           /\ ~ sent'[x[i]].redirect => \A j \in 1 .. (i - 1) : hops'[j].id # hops'[i].id
    BY <1>1, <1>4, <2>1 DEF Moved
  <2> QED
    BY <2>2, <2>3 DEF AnnouncedInv
\* All hops of the request have been logged, and its last entry is of its last hop.
<1>6. \A i \in (Len(requests) + 1) .. Len(hops) : hops[i].id # id
  <2> SUFFICES ASSUME NEW i \in (Len(requests) + 1) .. Len(hops), hops[i].id = id PROVE FALSE
    OBVIOUS
  <2>1. w[i] \in DOMAIN sent /\ sent[w[i]].kind = "willBeSent" /\ sent[w[i]].id = id
    BY <1>4 DEF Places
  <2>2. IsOutcome(sent[1])
    BY <1>1 DEF IsOutcome
  <2>3. w[i] < 1
    BY <1>1, <2>1, <2>2 DEF NetInv, OutcomeInv
  <2> QED
    BY <1>1, <2>1, <2>3
<1>7. \A i \in DOMAIN hops : hops[i].id = id => i \in DOMAIN requests /\ requests[i].id = id /\ i <= p
  <2> SUFFICES ASSUME NEW i \in DOMAIN hops, hops[i].id = id
               PROVE  i \in DOMAIN requests /\ requests[i].id = id /\ i <= p
    OBVIOUS
  <2>1. i \in DOMAIN requests
    BY <1>2, <1>6
  <2>2. requests[i].id = id
    BY <2>1 DEF NetInv, EntriesInv
  <2> QED
    BY <1>3, <2>1, <2>2
<1>8. p # 0 => p \in DOMAIN hops /\ hops[p].id = id /\ LastOfAll(hops, p)
  <2> SUFFICES ASSUME p # 0 PROVE p \in DOMAIN hops /\ hops[p].id = id /\ LastOfAll(hops, p)
    OBVIOUS
  <2>1. p \in DOMAIN requests /\ p \in DOMAIN hops /\ hops[p].id = id
    BY <1>2, <1>3 DEF NetInv, EntriesInv
  <2>2. \A j \in (p + 1) .. Len(hops) : j \in DOMAIN hops /\ ~(j <= p)
    BY <1>2, <2>1
  <2>3. \A j \in (p + 1) .. Len(hops) : hops[j].id # id
    BY <1>7, <2>2
  <2> QED
    BY <2>1, <2>3 DEF LastOfAll
<1>9. \A i \in DOMAIN hops : hops[i].id = id /\ LastOfAll(hops, i) => i = p /\ i \in DOMAIN requests
  <2> SUFFICES ASSUME NEW i \in DOMAIN hops, hops[i].id = id, LastOfAll(hops, i) PROVE i = p /\ i \in DOMAIN requests
    OBVIOUS
  <2>1. i \in DOMAIN requests /\ i <= p /\ i \in Nat /\ i # 0
    BY <1>2, <1>7
  <2>2. p # 0 /\ p \in DOMAIN hops /\ hops[p].id = id
    <3>1. p \in Nat
      BY <1>1 DEF LogTypeOK
    <3>2. p # 0
      BY <2>1, <3>1
    <3> QED
      BY <1>8, <3>2
  <2>3. ~ (i < p)
    <3>1. i < p => p \in (i + 1) .. Len(hops)
      BY <1>2, <2>1, <2>2
    <3> QED
      BY <2>2, <3>1 DEF LastOfAll
  <2> QED
    BY <1>2, <2>1, <2>2, <2>3
<1>10. /\ OutcomeInv'
       /\ \A q, what : Told(sent, q, what) /\ (q # id \/ what # kind) => Told(sent', q, what)
  BY OutcomesMove
<1>11. p # 0 => IF kind = "responseReceived" THEN hops[p].response = "final" ELSE hops[p].outcome = kind
  <2>1. IsOutcome(sent[1])
    BY <1>1 DEF IsOutcome
  <2> QED
    BY <1>1, <1>8, <2>1 DEF NetInv, OutcomeInv
<1>12. HopsInv'
  BY DEF NetInv, HopsInv
<1>13. FoundInv'
  BY <1>2, <1>3 DEF NetInv, FoundInv
<1>14. /\ \A i \in DOMAIN requests : i # p =>
            /\ requests'[i].id = requests[i].id /\ requests'[i].response = requests[i].response
            /\ requests'[i].outcome = requests[i].outcome
       /\ p \in DOMAIN requests =>
            /\ requests'[p].id = requests[p].id
            /\ requests'[p].response = IF kind = "responseReceived" THEN "final" ELSE requests[p].response
            /\ requests'[p].outcome = IF kind # "responseReceived" THEN kind ELSE requests[p].outcome
  OBVIOUS
<1> HIDE DEF p
<1>15. \A i \in DOMAIN requests :
          /\ requests'[i].id = hops[i].id
          /\ requests'[i].response \in {"none", hops[i].response}
          /\ requests'[i].outcome \in {"none", hops[i].outcome}
          /\ i # requestByID[hops[i].id] =>
                requests'[i].response = "redirect" /\ requests'[i].outcome = "finished"
  <2> TAKE i \in DOMAIN requests
  <2>1. /\ requests[i].id = hops[i].id
        /\ requests[i].response \in {"none", hops[i].response}
        /\ requests[i].outcome \in {"none", hops[i].outcome}
        /\ i # requestByID[hops[i].id] => requests[i].response = "redirect" /\ requests[i].outcome = "finished"
    BY DEF NetInv, EntriesInv
  <2>2. CASE i # p
    BY <1>14, <2>1, <2>2
  <2>3. CASE i = p
    <3>1. p # 0 /\ p \in DOMAIN requests
      BY <1>2, <2>3
    <3>2. hops[p].id = id /\ requestByID[hops[p].id] = p
      BY <1>8, <3>1 DEF p
    <3> QED
      BY <1>11, <1>14, <2>1, <2>3, <3>1, <3>2
  <2> QED
    BY <2>2, <2>3
<1>16. \A i \in DOMAIN hops : LastOfAll(hops, i) =>
          /\ \/ i \in DOMAIN requests /\ requests'[i].response = hops[i].response
             \/ hops[i].response = "none"
             \/ Told(sent', hops[i].id, "responseReceived")
          /\ \/ i \in DOMAIN requests /\ requests'[i].outcome = hops[i].outcome
             \/ hops[i].outcome = "none"
             \/ Told(sent', hops[i].id, hops[i].outcome)
  <2> SUFFICES ASSUME NEW i \in DOMAIN hops, LastOfAll(hops, i)
      PROVE
          /\ \/ i \in DOMAIN requests /\ requests'[i].response = hops[i].response
             \/ hops[i].response = "none"
             \/ Told(sent', hops[i].id, "responseReceived")
          /\ \/ i \in DOMAIN requests /\ requests'[i].outcome = hops[i].outcome
             \/ hops[i].outcome = "none"
             \/ Told(sent', hops[i].id, hops[i].outcome)
    OBVIOUS
  <2>1. /\ \/ i \in DOMAIN requests /\ requests[i].response = hops[i].response
           \/ hops[i].response = "none"
           \/ Told(sent, hops[i].id, "responseReceived")
        /\ \/ i \in DOMAIN requests /\ requests[i].outcome = hops[i].outcome
           \/ hops[i].outcome = "none"
           \/ Told(sent, hops[i].id, hops[i].outcome)
    BY DEF NetInv, EntriesInv
  <2>2. hops[i].outcome \in Outcomes
    <3>1. hops[i] \in Entries
      BY ListFacts
    <3> QED
      BY <3>1 DEF Entries
  <2>3. CASE hops[i].id # id
    <3>1. i # p
      BY <1>2, <1>8, <2>3 DEF p
    <3> QED
      BY <1>10, <1>14, <2>1, <2>3, <3>1
  <2>4. CASE hops[i].id = id
    <3>1. i = p /\ i \in DOMAIN requests /\ p # 0
      BY <1>2, <1>9, <2>4
    <3>2. CASE kind = "responseReceived"
      BY <1>10, <1>11, <1>14, <2>1, <2>2, <2>4, <3>1, <3>2 DEF Outcomes
    <3>3. CASE kind # "responseReceived"
      BY <1>10, <1>11, <1>14, <2>1, <2>2, <2>4, <3>1, <3>3 DEF Outcomes
    <3> QED
      BY <3>2, <3>3
  <2> QED
    BY <2>3, <2>4
<1>17. EntriesInv'
  BY <1>2, <1>15, <1>16 DEF EntriesInv
<1> QED
  BY <1>5, <1>10, <1>12, <1>13, <1>17 DEF NetInv

(***************************************************************************)
(* Every step keeps the invariant.                                         *)
(***************************************************************************)

\* A hop is added to the list.
LEMMA HopAdded ==
    ASSUME NEW list \in Seq(Entries), NEW id \in RequestIDs, hops' = Append(list, Entry(id, "none", "none"))
    PROVE  /\ hops' \in Seq(Entries) /\ Len(hops') = Len(list) + 1
           /\ \A j \in DOMAIN list : hops'[j] = list[j]
           /\ hops'[Len(list) + 1].id = id
           /\ hops'[Len(list) + 1].response = "none" /\ hops'[Len(list) + 1].outcome = "none"
  BY AddedFacts

LEMMA LogStarts == ASSUME LogInv, NEW id \in RequestIDs, Starts(id) PROVE LogInv'
<1>1. LogTypeOK /\ NetInv /\ ConsoleInv
  BY DEF LogInv
<1>2. /\ phase[id] = "new" /\ phase' = [phase EXCEPT ![id] = "pending"]
      /\ hops' = Append(hops, Entry(id, "none", "none"))
      /\ Sends(NetworkEvent("willBeSent", id, FALSE))
      /\ UNCHANGED <<requests, requestByID, console, counted, said, loaded>>
  BY DEF Starts
<1>3. hops \in Seq(Entries) /\ Len(hops) \in Nat
  BY <1>1, ListFacts
<1>4. /\ hops' \in Seq(Entries) /\ Len(hops') = Len(hops) + 1
      /\ \A j \in DOMAIN hops : hops'[j] = hops[j]
      /\ hops'[Len(hops) + 1].id = id
      /\ hops'[Len(hops) + 1].response = "none" /\ hops'[Len(hops) + 1].outcome = "none"
  BY <1>2, <1>3, HopAdded
<1>5. \A i \in DOMAIN hops : hops[i].id # id
  BY <1>1, <1>2, NewHasNoHops
<1>6. NetworkEvent("willBeSent", id, FALSE) \in LogEvents
  BY EventTypes
<1>7. NetworkEvent("willBeSent", id, FALSE).kind = "willBeSent"
  BY DEF NetworkEvent
<1>8. sent' \in Seq(LogEvents)
  BY <1>1, <1>2, <1>6, SendsFacts
<1>9. LogTypeOK'
  BY <1>1, <1>2, <1>3, <1>4, <1>8 DEF LogTypeOK
<1>10. NetInv'
  BY <1>1, <1>2, <1>4, <1>5, NetHop
<1>11. ConsoleInv'
  BY <1>1, <1>2, <1>6, <1>7, ConsoleSends
<1> QED
  BY <1>9, <1>10, <1>11 DEF LogInv

LEMMA LogRedirects == ASSUME LogInv, NEW id \in RequestIDs, Redirects(id) PROVE LogInv'
<1> DEFINE last == LastHop(id)
           a == Answered(hops, last, "redirect")
           before == IF HopsOf(id) = {} THEN hops ELSE Ended(a, last, "finished")
<1>1. LogTypeOK /\ NetInv /\ ConsoleInv
  BY DEF LogInv
<1>2. /\ phase[id] = "pending" /\ phase' = phase
      /\ hops' = Append(before, Entry(id, "none", "none"))
      /\ Sends(NetworkEvent("willBeSent", id, TRUE))
      /\ UNCHANGED <<requests, requestByID, console, counted, said, loaded>>
  BY DEF Redirects
<1>3. hops \in Seq(Entries) /\ Len(hops) \in Nat /\ DOMAIN hops = 1 .. Len(hops)
  BY <1>1, ListFacts
<1> HIDE DEF last, a, before
<1>4. /\ before \in Seq(Entries) /\ Len(before) = Len(hops)
      /\ \A i \in DOMAIN hops :
            /\ before[i].id = hops[i].id
            /\ IF hops[i].id = id /\ LastOfAll(hops, i)
               THEN before[i].response = "redirect" /\ before[i].outcome = "finished"
               ELSE before[i].response = hops[i].response /\ before[i].outcome = hops[i].outcome
  <2>1. CASE HopsOf(id) = {}
    <3>1. before = hops
      BY <2>1 DEF before
    <3>2. \A i \in DOMAIN hops : hops[i].id # id
      BY <2>1 DEF HopsOf
    <3> QED
      BY <1>3, <3>1, <3>2
  <2>2. CASE HopsOf(id) # {}
    <3>1. before = Ended(a, last, "finished")
      BY <2>2 DEF before
    <3>2. /\ last \in DOMAIN hops /\ hops[last].id = id /\ LastOfAll(hops, last)
          /\ \A j \in DOMAIN hops : hops[j].id = id /\ LastOfAll(hops, j) => j = last
      BY <1>1, <2>2, LastHopFacts DEF last
    <3>3. "redirect" \in Responses /\ "finished" \in Outcomes
      BY DEF Responses, Outcomes
    <3>4. \A r \in Responses :
             /\ Answered(hops, last, r) \in Seq(Entries) /\ Len(Answered(hops, last, r)) = Len(hops)
             /\ \A j \in DOMAIN hops :
                   /\ Answered(hops, last, r)[j].id = hops[j].id
                   /\ Answered(hops, last, r)[j].response = IF j = last THEN r ELSE hops[j].response
                   /\ Answered(hops, last, r)[j].outcome = hops[j].outcome
      BY <1>3, <3>2, EntryFacts
    <3>5. /\ a \in Seq(Entries) /\ Len(a) = Len(hops)
          /\ \A j \in DOMAIN hops :
                /\ a[j].id = hops[j].id
                /\ a[j].response = IF j = last THEN "redirect" ELSE hops[j].response
                /\ a[j].outcome = hops[j].outcome
      BY <3>3, <3>4 DEF a
    <3>6. DOMAIN a = DOMAIN hops
      BY <1>3, <3>5
    <3>7. \A o \in Outcomes :
             /\ Ended(a, last, o) \in Seq(Entries) /\ Len(Ended(a, last, o)) = Len(a)
             /\ \A j \in DOMAIN a :
                   /\ Ended(a, last, o)[j].id = a[j].id
                   /\ Ended(a, last, o)[j].response = a[j].response
                   /\ Ended(a, last, o)[j].outcome = IF j = last THEN o ELSE a[j].outcome
      <4>1. a \in Seq(Entries) /\ last \in DOMAIN a
        BY <3>2, <3>5, <3>6
      <4> QED
        BY <4>1, EntryFacts
    <3>8. /\ before \in Seq(Entries) /\ Len(before) = Len(a)
          /\ \A j \in DOMAIN a :
                /\ before[j].id = a[j].id
                /\ before[j].response = a[j].response
                /\ before[j].outcome = IF j = last THEN "finished" ELSE a[j].outcome
      BY <3>1, <3>3, <3>7
    <3> QED
      BY <3>2, <3>5, <3>6, <3>8
  <2> QED
    BY <2>1, <2>2
<1>5. /\ hops' \in Seq(Entries) /\ Len(hops') = Len(before) + 1
      /\ \A j \in DOMAIN before : hops'[j] = before[j]
      /\ hops'[Len(before) + 1].id = id
      /\ hops'[Len(before) + 1].response = "none" /\ hops'[Len(before) + 1].outcome = "none"
  BY <1>2, <1>4, HopAdded
<1>6. DOMAIN before = DOMAIN hops
  BY <1>3, <1>4
<1>7. NetworkEvent("willBeSent", id, TRUE) \in LogEvents
  BY EventTypes
<1>8. NetworkEvent("willBeSent", id, TRUE).kind = "willBeSent"
  BY DEF NetworkEvent
<1>9. sent' \in Seq(LogEvents)
  BY <1>1, <1>2, <1>7, SendsFacts
<1>10. LogTypeOK'
  BY <1>1, <1>2, <1>3, <1>4, <1>5, <1>9 DEF LogTypeOK
<1>11. phase' = [phase EXCEPT ![id] = "pending"]
  BY <1>1, <1>2 DEF LogTypeOK
<1>12. /\ Len(hops') = Len(hops) + 1
       /\ \A i \in DOMAIN hops :
            /\ hops'[i].id = hops[i].id
            /\ IF hops[i].id = id /\ LastOfAll(hops, i)
               THEN hops'[i].response = "redirect" /\ hops'[i].outcome = "finished"
               ELSE hops'[i].response = hops[i].response /\ hops'[i].outcome = hops[i].outcome
       /\ hops'[Len(hops) + 1].id = id
       /\ hops'[Len(hops) + 1].response = "none" /\ hops'[Len(hops) + 1].outcome = "none"
  BY <1>4, <1>5, <1>6
<1>13. NetInv'
  BY <1>1, <1>2, <1>5, <1>11, <1>12, NetHop
<1>14. ConsoleInv'
  BY <1>1, <1>2, <1>7, <1>8, ConsoleSends
<1> QED
  BY <1>10, <1>13, <1>14 DEF LogInv

LEMMA LogProgress ==
    ASSUME LogInv, NEW id \in RequestIDs, NEW kind \in {"responseReceived", "finished", "failed"},
           IF kind = "responseReceived" THEN Responds(id) ELSE Completes(id, kind)
    PROVE  LogInv'
<1> DEFINE last == LastHop(id)
<1>1. LogTypeOK /\ NetInv /\ ConsoleInv
  BY DEF LogInv
<1>2. /\ phase[id] \in {"pending", "answered"} /\ (kind = "responseReceived" => phase[id] = "pending")
      /\ phase' = [phase EXCEPT ![id] = IF kind = "responseReceived" THEN "answered" ELSE "over"]
      /\ hops' = IF HopsOf(id) = {} THEN hops
                 ELSE IF kind = "responseReceived" THEN Answered(hops, last, "final") ELSE Ended(hops, last, kind)
      /\ Sends(NetworkEvent(kind, id, FALSE))
      /\ UNCHANGED <<requests, requestByID, console, counted, said, loaded>>
  BY DEF Responds, Completes
<1>3. hops \in Seq(Entries) /\ Len(hops) \in Nat /\ DOMAIN hops = 1 .. Len(hops)
  BY <1>1, ListFacts
<1> HIDE DEF last
<1>4. /\ hops' \in Seq(Entries) /\ Len(hops') = Len(hops)
      /\ \A i \in DOMAIN hops :
            /\ hops'[i].id = hops[i].id
            /\ hops'[i].response = IF hops[i].id = id /\ LastOfAll(hops, i) /\ kind = "responseReceived"
                                   THEN "final" ELSE hops[i].response
            /\ hops'[i].outcome = IF hops[i].id = id /\ LastOfAll(hops, i) /\ kind # "responseReceived"
                                  THEN kind ELSE hops[i].outcome
  <2>1. CASE HopsOf(id) = {}
    <3>1. hops' = hops
      BY <1>2, <2>1
    <3>2. \A i \in DOMAIN hops : hops[i].id # id
      BY <2>1 DEF HopsOf
    <3> QED
      BY <1>3, <3>1, <3>2
  <2>2. CASE HopsOf(id) # {}
    <3>1. /\ last \in DOMAIN hops /\ hops[last].id = id /\ LastOfAll(hops, last)
          /\ \A j \in DOMAIN hops : hops[j].id = id /\ LastOfAll(hops, j) => j = last
      BY <1>1, <2>2, LastHopFacts DEF last
    <3>2. /\ \A r \in Responses :
               /\ Answered(hops, last, r) \in Seq(Entries) /\ Len(Answered(hops, last, r)) = Len(hops)
               /\ \A j \in DOMAIN hops :
                     /\ Answered(hops, last, r)[j].id = hops[j].id
                     /\ Answered(hops, last, r)[j].response = IF j = last THEN r ELSE hops[j].response
                     /\ Answered(hops, last, r)[j].outcome = hops[j].outcome
          /\ \A o \in Outcomes :
               /\ Ended(hops, last, o) \in Seq(Entries) /\ Len(Ended(hops, last, o)) = Len(hops)
               /\ \A j \in DOMAIN hops :
                     /\ Ended(hops, last, o)[j].id = hops[j].id
                     /\ Ended(hops, last, o)[j].response = hops[j].response
                     /\ Ended(hops, last, o)[j].outcome = IF j = last THEN o ELSE hops[j].outcome
      BY <1>3, <3>1, EntryFacts
    <3>3. CASE kind = "responseReceived"
      <4>1. hops' = Answered(hops, last, "final") /\ "final" \in Responses
        BY <1>2, <2>2, <3>3 DEF Responses
      <4> QED
        BY <3>1, <3>2, <3>3, <4>1
    <3>4. CASE kind # "responseReceived"
      <4>1. hops' = Ended(hops, last, kind) /\ kind \in Outcomes
        BY <1>2, <2>2, <3>4 DEF Outcomes
      <4> QED
        BY <3>1, <3>2, <3>4, <4>1
    <3> QED
      BY <3>3, <3>4
  <2> QED
    BY <2>1, <2>2
<1>5. NetworkEvent(kind, id, FALSE) \in LogEvents
  BY EventTypes
<1>6. NetworkEvent(kind, id, FALSE).kind = kind
  BY DEF NetworkEvent
<1>7. sent' \in Seq(LogEvents)
  BY <1>1, <1>2, <1>5, SendsFacts
<1>8. phase' \in [RequestIDs -> {"new", "pending", "answered", "over"}]
  BY <1>1, <1>2 DEF LogTypeOK
<1>9. LogTypeOK'
  BY <1>1, <1>2, <1>4, <1>7, <1>8 DEF LogTypeOK
<1>10. NetInv'
  BY <1>1, <1>2, <1>4, NetProgress
<1>11. ConsoleInv'
  BY <1>1, <1>2, <1>5, <1>6, ConsoleSends
<1> QED
  BY <1>9, <1>10, <1>11 DEF LogInv

LEMMA LogSays == ASSUME LogInv, Says PROVE LogInv'
<1> DEFINE e == NetworkEvent("console", "none", FALSE)
<1>1. LogTypeOK /\ NetInv /\ ConsoleInv
  BY DEF LogInv
<1>2. e \in LogEvents /\ e.kind = "console"
  BY EventTypes DEF NetworkEvent
<1>3. Sends(e) /\ said' = Append(said, loaded) /\ UNCHANGED <<requests, requestByID, console, counted, hops, phase, loaded>>
  BY DEF Says
<1> HIDE DEF e
<1>4. sent' \in Seq(LogEvents)
  BY <1>1, <1>2, <1>3, SendsFacts
<1>5. LogTypeOK'
  BY <1>1, <1>3, <1>4 DEF LogTypeOK
<1>6. NetInv'
  BY <1>1, <1>2, <1>3, NetSends
<1>7. ConsoleInv'
  BY <1>1, ConsoleSays
<1> QED
  BY <1>5, <1>6, <1>7 DEF LogInv

LEMMA LogLoads == ASSUME LogInv, Loads PROVE LogInv'
<1> DEFINE e == NetworkEvent("navigated", "none", FALSE)
<1>1. LogTypeOK /\ NetInv /\ ConsoleInv
  BY DEF LogInv
<1>2. e \in LogEvents /\ e.kind = "navigated"
  BY EventTypes DEF NetworkEvent
<1>3. Sends(e) /\ loaded' = loaded + 1 /\ UNCHANGED <<requests, requestByID, console, counted, hops, phase, said>>
  BY DEF Loads
<1> HIDE DEF e
<1>4. sent' \in Seq(LogEvents)
  BY <1>1, <1>2, <1>3, SendsFacts
<1>5. LogTypeOK'
  BY <1>1, <1>3, <1>4 DEF LogTypeOK
<1>6. NetInv'
  BY <1>1, <1>2, <1>3, NetSends
<1>7. ConsoleInv'
  BY <1>1, ConsoleLoads
<1> QED
  BY <1>5, <1>6, <1>7 DEF LogInv

LEMMA LogWillBeSent == ASSUME LogInv, OnRequestWillBeSent PROVE LogInv'
<1>1. LogTypeOK /\ NetInv /\ ConsoleInv
  BY DEF LogInv
<1>2. /\ Handles("willBeSent") /\ UNCHANGED <<console, counted, hops, phase, said, loaded>>
      /\ requestByID' = [requestByID EXCEPT ![Head(sent).id] = Len(requests')]
  BY DEF OnRequestWillBeSent, Log
<1>3. requests' \in Seq(Entries) /\ Len(requests') = Len(requests) + 1 /\ NetInv'
  BY <1>1, NetLogged
<1>4. Len(requests) \in Nat /\ Len(hops) \in Nat /\ Len(requests) + 1 \in 1 .. Len(hops)
  BY <1>1, <1>2, <1>3, NextHop, ListFacts
<1>5. sent' \in Seq(LogEvents)
  BY <1>1, <1>2, HandlesFacts
<1>6. LogTypeOK'
  <2>1. Len(requests') \in Nat /\ Len(requests') <= Len(hops)
    BY <1>3, <1>4
  <2>2. requestByID' \in [RequestIDs -> Nat]
    BY <1>1, <1>2, <2>1 DEF LogTypeOK
  <2> QED
    BY <1>1, <1>2, <1>3, <1>5, <2>1, <2>2 DEF LogTypeOK
<1>7. ConsoleInv'
  BY <1>1, <1>2, ConsoleHandles
<1> QED
  BY <1>3, <1>6, <1>7 DEF LogInv

LEMMA LogOutcome ==
    ASSUME LogInv, NEW kind \in {"responseReceived", "finished", "failed"},
           IF kind = "responseReceived" THEN OnResponseReceived ELSE OnLoadingEnded(kind)
    PROVE  LogInv'
<1> DEFINE p == requestByID[Head(sent).id]
<1>1. LogTypeOK /\ NetInv /\ ConsoleInv
  BY DEF LogInv
<1>2. /\ Handles(kind)
      /\ requests' = IF p = 0 THEN requests
                     ELSE IF kind = "responseReceived" THEN Answered(requests, p, "final") ELSE Ended(requests, p, kind)
      /\ UNCHANGED <<requestByID, console, counted, hops, phase, said, loaded>>
  BY DEF OnResponseReceived, OnLoadingEnded
<1>3. requests \in Seq(Entries) /\ Len(requests) \in Nat /\ DOMAIN requests = 1 .. Len(requests)
  BY <1>1, ListFacts
<1>4. Head(sent).id \in RequestIDs /\ sent' \in Seq(LogEvents)
  BY <1>1, <1>2, HandlesFacts
<1>5. p # 0 => p \in DOMAIN requests
  BY <1>1, <1>4 DEF NetInv, FoundInv
<1> HIDE DEF p
<1>6. /\ requests' \in Seq(Entries) /\ Len(requests') = Len(requests)
      /\ \A i \in DOMAIN requests :
            /\ requests'[i].id = requests[i].id
            /\ requests'[i].response = IF i = p /\ kind = "responseReceived" THEN "final" ELSE requests[i].response
            /\ requests'[i].outcome = IF i = p /\ kind # "responseReceived" THEN kind ELSE requests[i].outcome
  <2>1. CASE p = 0
    <3>1. requests' = requests /\ \A i \in DOMAIN requests : i # p
      BY <1>2, <1>3, <2>1
    <3> QED
      BY <1>3, <3>1
  <2>2. CASE p # 0
    <3>1. /\ \A r \in Responses :
               /\ Answered(requests, p, r) \in Seq(Entries) /\ Len(Answered(requests, p, r)) = Len(requests)
               /\ \A j \in DOMAIN requests :
                     /\ Answered(requests, p, r)[j].id = requests[j].id
                     /\ Answered(requests, p, r)[j].response = IF j = p THEN r ELSE requests[j].response
                     /\ Answered(requests, p, r)[j].outcome = requests[j].outcome
          /\ \A o \in Outcomes :
               /\ Ended(requests, p, o) \in Seq(Entries) /\ Len(Ended(requests, p, o)) = Len(requests)
               /\ \A j \in DOMAIN requests :
                     /\ Ended(requests, p, o)[j].id = requests[j].id
                     /\ Ended(requests, p, o)[j].response = requests[j].response
                     /\ Ended(requests, p, o)[j].outcome = IF j = p THEN o ELSE requests[j].outcome
      BY <1>3, <1>5, <2>2, EntryFacts
    <3>2. CASE kind = "responseReceived"
      <4>1. requests' = Answered(requests, p, "final") /\ "final" \in Responses
        BY <1>2, <2>2, <3>2 DEF Responses
      <4> QED
        BY <3>1, <3>2, <4>1
    <3>3. CASE kind # "responseReceived"
      <4>1. requests' = Ended(requests, p, kind) /\ kind \in Outcomes
        BY <1>2, <2>2, <3>3 DEF Outcomes
      <4> QED
        BY <3>1, <3>3, <4>1
    <3> QED
      BY <3>2, <3>3
  <2> QED
    BY <2>1, <2>2
<1>7. LogTypeOK'
  BY <1>1, <1>2, <1>4, <1>6 DEF LogTypeOK
<1>8. NetInv'
  BY <1>1, <1>2, <1>6, NetApplied DEF p
<1>9. ConsoleInv'
  BY <1>1, <1>2, ConsoleHandles
<1> QED
  BY <1>7, <1>8, <1>9 DEF LogInv

LEMMA LogConsole == ASSUME LogInv, OnConsole PROVE LogInv'
<1>1. LogTypeOK /\ NetInv /\ ConsoleInv
  BY DEF LogInv
<1>2. Handles("console") /\ console' = Append(console, counted)
      /\ UNCHANGED <<requests, requestByID, counted, hops, phase, said, loaded>>
  BY DEF OnConsole
<1>3. sent \in Seq(LogEvents) /\ sent' \in Seq(LogEvents) /\ sent # <<>> /\ Head(sent).kind = "console"
  BY <1>1, <1>2, HandlesFacts
<1>4. Len(console) + 1 <= Len(said)
  <2>1. PICK v \in Places(sent, "console", Len(console), Len(said)) : TRUE
    BY <1>1 DEF ConsoleInv
  <2>2. Len(console) \in Nat /\ Len(said) \in Nat /\ v \in Places(sent, Head(sent).kind, Len(console), Len(said))
    BY <1>1, <1>3, <2>1 DEF LogTypeOK
  <2> QED
    BY <1>3, <2>2, PlacesFirst
<1>5. LogTypeOK'
  BY <1>1, <1>2, <1>3, <1>4 DEF LogTypeOK
<1>6. NetInv'
  BY <1>1, <1>2, NetTakes
<1>7. ConsoleInv'
  BY <1>1, ConsoleFiled
<1> QED
  BY <1>5, <1>6, <1>7 DEF LogInv

LEMMA LogNavigated == ASSUME LogInv, OnNavigated PROVE LogInv'
<1>1. LogTypeOK /\ NetInv /\ ConsoleInv
  BY DEF LogInv
<1>2. Handles("navigated") /\ counted' = counted + 1
      /\ UNCHANGED <<requests, requestByID, console, hops, phase, said, loaded>>
  BY DEF OnNavigated
<1>3. sent \in Seq(LogEvents) /\ sent' \in Seq(LogEvents) /\ sent # <<>> /\ Head(sent).kind = "navigated"
  BY <1>1, <1>2, HandlesFacts
<1>4. counted + 1 <= loaded
  <2>1. PICK v \in Places(sent, "navigated", counted, loaded) : TRUE
    BY <1>1 DEF ConsoleInv
  <2>2. counted \in Nat /\ loaded \in Nat /\ v \in Places(sent, Head(sent).kind, counted, loaded)
    BY <1>1, <1>3, <2>1 DEF LogTypeOK
  <2> QED
    BY <1>3, <2>2, PlacesFirst
<1>5. LogTypeOK'
  BY <1>1, <1>2, <1>3, <1>4 DEF LogTypeOK
<1>6. NetInv'
  BY <1>1, <1>2, NetTakes
<1>7. ConsoleInv'
  BY <1>1, ConsoleNavigated
<1> QED
  BY <1>5, <1>6, <1>7 DEF LogInv

\* Nothing that the observers have not seen is announced, logged or under way.
LEMMA LogInvInit == ASSUME LogInit PROVE LogInv
<1>1. /\ requests = <<>> /\ requestByID = [id \in RequestIDs |-> 0] /\ console = <<>> /\ counted = 0
      /\ hops = <<>> /\ said = <<>> /\ loaded = 0 /\ sent = <<>>
      /\ phase = [id \in RequestIDs |-> IF id \in Unlogged THEN "pending" ELSE "new"]
  BY DEF LogInit
<1>2. \A S : <<>> \in Seq(S) /\ Len(<<>>) = 0
  BY EmptySeq
<1>3. LogTypeOK
  BY <1>1, <1>2 DEF LogTypeOK
<1>4. ASSUME NEW kind PROVE [i \in 1 .. 0 |-> 0] \in Places(<<>>, kind, 0, 0)
  BY DEF Places
<1>5. NetInv
  BY <1>1, <1>2, <1>4 DEF NetInv, AnnouncedInv, HopsInv, OutcomeInv, FoundInv, EntriesInv
<1>6. ConsoleInv
  BY <1>1, <1>2, <1>4 DEF ConsoleInv
<1> QED
  BY <1>3, <1>5, <1>6 DEF LogInv

LEMMA LogInvNext == ASSUME LogInv, [LogNext]_logVars PROVE LogInv'
<1>1. CASE UNCHANGED logVars
  BY <1>1 DEF logVars, LogInv, LogTypeOK, NetInv, AnnouncedInv, HopsInv, OutcomeInv, FoundInv, EntriesInv, ConsoleInv
<1>2. ASSUME NEW id \in RequestIDs, Starts(id) PROVE LogInv'
  BY <1>2, LogStarts
<1>3. ASSUME NEW id \in RequestIDs, Redirects(id) PROVE LogInv'
  BY <1>3, LogRedirects
<1>4. ASSUME NEW id \in RequestIDs, Responds(id) PROVE LogInv'
  BY <1>4, LogProgress
<1>5. ASSUME NEW id \in RequestIDs, NEW o \in {"finished", "failed"}, Completes(id, o) PROVE LogInv'
  BY <1>5, LogProgress
<1>6. CASE ChromeLogs
  BY <1>2, <1>3, <1>4, <1>5, <1>6, LogSays, LogLoads DEF ChromeLogs
<1>7. CASE OnRequestWillBeSent
  BY <1>7, LogWillBeSent
<1>8. CASE OnResponseReceived
  BY <1>8, LogOutcome
<1>9. ASSUME NEW o \in {"finished", "failed"}, OnLoadingEnded(o) PROVE LogInv'
  BY <1>9, LogOutcome
<1>10. CASE OnConsole
  BY <1>10, LogConsole
<1>11. CASE OnNavigated
  BY <1>11, LogNavigated
<1> QED
  BY <1>1, <1>6, <1>7, <1>8, <1>9, <1>10, <1>11 DEF LogNext

\* Where nothing is under way, the lists are complete.
LEMMA NoPlaces ==
    ASSUME NEW kind, NEW n \in Nat, NEW m \in Nat, NEW w \in Places(<<>>, kind, n, m), n <= m
    PROVE  n = m
<1>1. \A i \in (n + 1) .. m : w[i] \in {}
  BY DEF Places
<1>2. ~ (n + 1 \in (n + 1) .. m)
  BY <1>1
<1> QED
  BY <1>2

LEMMA AllTold == ASSUME LogInv, sent = <<>> PROVE requests = hops /\ console = said
<1>1. LogTypeOK /\ NetInv /\ ConsoleInv
  BY DEF LogInv
<1>2. /\ Len(requests) \in Nat /\ DOMAIN requests = 1 .. Len(requests) /\ requests \in Seq(Entries)
      /\ Len(hops) \in Nat /\ DOMAIN hops = 1 .. Len(hops) /\ hops \in Seq(Entries)
      /\ Len(requests) <= Len(hops)
  BY <1>1, ListFacts
<1>3. Len(requests) = Len(hops)
  <2>1. PICK w \in Places(<<>>, "willBeSent", Len(requests), Len(hops)) : TRUE
    BY <1>1 DEF NetInv, AnnouncedInv
  <2> QED
    BY <1>2, <2>1, NoPlaces
<1>4. \A id, kind : ~ Told(sent, id, kind)
  BY DEF Told
<1>5. ASSUME NEW i \in DOMAIN hops PROVE requests[i] = hops[i]
  <2>1. i \in DOMAIN requests /\ requests[i] \in Entries /\ hops[i] \in Entries
    BY <1>2, <1>3
  <2>2. /\ requests[i].id = hops[i].id
        /\ requests[i].response \in {"none", hops[i].response}
        /\ requests[i].outcome \in {"none", hops[i].outcome}
        /\ i # requestByID[hops[i].id] => requests[i].response = "redirect" /\ requests[i].outcome = "finished"
    BY <1>1, <2>1 DEF NetInv, EntriesInv
  <2>3. CASE LastOfAll(hops, i)
    <3>1. /\ requests[i].response = hops[i].response \/ hops[i].response = "none"
          /\ requests[i].outcome = hops[i].outcome \/ hops[i].outcome = "none"
      BY <1>1, <1>4, <2>3 DEF NetInv, EntriesInv
    <3>2. requests[i].response = hops[i].response /\ requests[i].outcome = hops[i].outcome
      BY <2>2, <3>1
    <3> QED
      BY <2>1, <2>2, <3>2 DEF Entries
  <2>4. CASE ~ LastOfAll(hops, i)
    <3>1. hops[i].response = "redirect" /\ hops[i].outcome = "finished"
      BY <1>1, <2>4 DEF NetInv, HopsInv
    <3>2. PICK j \in (i + 1) .. Len(hops) : hops[j].id = hops[i].id
      BY <2>4 DEF LastOfAll
    <3>3. j \in DOMAIN hops /\ j \in DOMAIN requests /\ i < j /\ i \in Nat /\ j \in Nat
      BY <1>2, <1>3
    <3>4. requests[j].id = hops[i].id /\ hops[i].id \in RequestIDs
      BY <1>1, <3>2, <3>3, ListFacts DEF NetInv, EntriesInv
    <3>5. j <= requestByID[hops[i].id] /\ requestByID[hops[i].id] \in Nat
      BY <1>1, <3>3, <3>4 DEF NetInv, FoundInv, LogTypeOK
    <3>6. i # requestByID[hops[i].id]
      BY <3>3, <3>5
    <3> QED
      BY <2>1, <2>2, <3>1, <3>6 DEF Entries
  <2> QED
    BY <2>3, <2>4
<1>6. requests = hops
  BY <1>2, <1>3, <1>5, SeqEqual
<1>7. /\ console \in Seq(Nat) /\ said \in Seq(Nat) /\ Len(console) <= Len(said)
      /\ Len(console) \in Nat /\ Len(said) \in Nat /\ DOMAIN console = 1 .. Len(console)
  BY <1>1 DEF LogTypeOK
<1>8. Len(console) = Len(said)
  <2>1. PICK v \in Places(<<>>, "console", Len(console), Len(said)) : TRUE
    BY <1>1 DEF ConsoleInv
  <2> QED
    BY <1>7, <2>1, NoPlaces
<1>9. \A i \in 1 .. Len(console) : console[i] = said[i]
  BY <1>1, <1>7 DEF ConsoleInv
<1>10. console = said
  BY <1>7, <1>8, <1>9, SeqEqual
<1> QED
  BY <1>6, <1>10

\* What the listener has logged of the network and of the console is what really
\* happened, hop by hop and message by message, and it is complete as soon as no event
\* is under way: whatever the requests, their redirects and their interleaving.
THEOREM LogIsTrue == LogSpec => []LogTellsTruth
<1>1. LogInit => LogInv
  BY LogInvInit
<1>2. LogInv /\ [LogNext]_logVars => LogInv'
  BY LogInvNext
<1>3. LogInv => LogTellsTruth
  <2> SUFFICES ASSUME LogInv PROVE LogTellsTruth
    OBVIOUS
  <2>1. LogTypeOK /\ NetInv /\ ConsoleInv
    BY DEF LogInv
  <2>2. \A i \in DOMAIN requests : i \in DOMAIN hops
    BY <2>1, ListFacts
  <2>3. \A i \in DOMAIN console : i \in DOMAIN said
    BY <2>1 DEF LogTypeOK
  <2>4. sent = <<>> => requests = hops /\ console = said
    BY AllTold
  <2> QED
    BY <2>1, <2>2, <2>3, <2>4 DEF LogTellsTruth, NetInv, EntriesInv, ConsoleInv
<1> QED
  BY <1>1, <1>2, <1>3, PTL DEF LogSpec

==============================================================================
