---------------------------- MODULE RoutingProofs -----------------------------
(* Proofs of Routing's safety properties, for any tabs, children, requests.  *)
EXTENDS Routing, FiniteSetTheorems, FunctionTheorems, SequenceTheorems, TLAPS

(***************************************************************************)
(* The inductive invariant.                                                *)
(***************************************************************************)

\* What the extension sends, and what the reader may have to write.
Events == [kind : {"attached", "detached"}, tab : Tabs, what : Children]

Messages ==
    [kind : {"answer", "removed"}, tab : Tabs, what : {None}]
    \cup [kind : {"ok", "error"}, tab : {None}, what : Requests]
    \cup Events

Endings == [kind : {"removed"}, tab : Tabs, what : Nat]

Commands ==
    [by : Requests, for : Named \cup {None}, tab : Tabs \cup {None}, child : Children \cup {None}]

\* The variables have their types.
TypeOK ==
    /\ sessions \in [Tabs -> Nat \cup {None}]
    /\ children \in [Tabs -> SUBSET Children]
    /\ nextID \in Nat \ {0}
    /\ making \in [Tabs -> {"no", "asked", "commit", "emit"}]
    /\ sid \in [Tabs -> Nat \cup {None}]
    /\ emitting \in Events \cup Endings \cup {Nothing}
    /\ pc \in [Requests -> {"idle", "find", "child", "send", "sent", "write", "done"}]
    /\ names \in [Requests -> Named \cup {None}]
    /\ route \in [Requests -> (Tabs \cup {None}) \X (Children \cup {None})]
    /\ result \in [Requests -> {"none", "refused", "ok", "error", "expired"}]
    /\ alive \subseteq {c \in Children : home[c] # None}
    /\ inbox \in Seq(Messages)
    /\ wire \subseteq Commands
    /\ home \in [Named -> Tabs \cup {None}]

\* A session, a child session and what is said of one have the tab of its home; an
\* id that has yet to be given has none.
HomeInv ==
    /\ \A t \in Tabs : sessions[t] \in Ids => home[sessions[t]] = t
    /\ \A t \in Tabs : sid[t] \in Ids => home[sid[t]] = t
    /\ \A t \in Tabs : \A c \in children[t] : home[c] = t
    /\ \A c \in Children \cap (reported \cup ended) : home[c] # None
    /\ \A i \in DOMAIN inbox :
          inbox[i].kind \in {"attached", "detached"} => home[inbox[i].what] = inbox[i].tab
    /\ emitting.kind \in {"attached", "detached"} => home[emitting.what] = emitting.tab
    /\ \A x \in Ids : x >= nextID => home[x] = None

\* A request on its way has the tab of the session it names.
Owner(x, t, c) == t \in Tabs /\ t = home[x] /\ c = (IF x \in Children THEN x ELSE None)

RouteInv ==
    /\ \A r \in Requests :
          pc[r] = "send" /\ names[r] \in Named => Owner(names[r], route[r][1], route[r][2])
    /\ \A c \in wire : c.for \in Named => Owner(c.for, c.tab, c.child)

\* An attach is answered once, while the tab has no session, and without a session
\* a tab has no child sessions.
MakingInv ==
    /\ \A t \in Tabs : sessions[t] = None => children[t] = {}
    /\ \A t \in Tabs : making[t] \in {"asked", "commit"} => sessions[t] = None
    /\ \A i \in DOMAIN inbox : inbox[i].kind = "answer" => making[inbox[i].tab] = "asked"
    /\ \A i, j \in DOMAIN inbox :
          inbox[i].kind = "answer" /\ inbox[j].kind = "answer" /\ inbox[i].tab = inbox[j].tab => i = j

\* A child session is announced once, before its end is, and is new to the client.
Announces(m, c) == m.kind = "attached" /\ m.what = c

InboxInv ==
    /\ \A i, j \in DOMAIN inbox, c \in Children :
          Announces(inbox[i], c) /\ Announces(inbox[j], c) => i = j
    /\ \A i, j \in DOMAIN inbox :
          inbox[i].kind = "detached" /\ Announces(inbox[j], inbox[i].what) => j < i
    /\ \A i \in DOMAIN inbox, c \in Children :
          Announces(inbox[i], c) =>
              /\ c \notin reported \cup ended
              /\ \A t \in Tabs : c \notin children[t]
              /\ emitting.what # c

\* The child sessions of a tab, as far as the client has been told of them.
ChildInv ==
    /\ None \notin ended
    /\ emitting.kind = "attached" => emitting.what \in children[emitting.tab]
    /\ emitting.kind = "detached" => \A t \in Tabs : emitting.what \notin children[t]
    /\ emitting.kind = "removed" => children[emitting.tab] = {}
    /\ \A c \in Children \cap ended : \A t \in Tabs : c \notin children[t]
    /\ \A c \in Children \cap reported : c \in removed \/ \E t \in Tabs : c \in children[t]

\* An id is given once; a session that the client has been told of is there, or
\* has been removed for good.
SessionInv ==
    /\ \A t \in Tabs : making[t] = "commit" =>
          /\ sid[t] \in Nat /\ sid[t] < nextID
          /\ sid[t] \in Ids => sid[t] \notin removed /\ \A u \in Tabs : sessions[u] # sid[t]
    /\ \A t \in Tabs : making[t] = "emit" /\ sid[t] \in Ids => sessions[t] = sid[t] \/ sid[t] \in removed
    /\ \A t \in Tabs : sessions[t] \in Nat => sessions[t] < nextID
    /\ \A x \in Ids \cap removed : x < nextID /\ \A t \in Tabs : sessions[t] # x
    /\ \A x \in Ids \cap reported : x < nextID /\ (x \in removed \/ \E t \in Tabs : sessions[t] = x)
    /\ Ids \cap ended \subseteq removed
    /\ emitting.kind = "removed" => emitting.what \in removed

\* What a request has found out about the session it names.
RequestInv ==
    /\ \A r \in Requests : pc[r] \in {"idle", "find", "child"} => result[r] = "none"
    /\ \A r \in Requests : pc[r] = "idle" => r \notin late
    /\ \A r \in Requests : pc[r] \in {"find", "child"} /\ names[r] \in Named => names[r] \in reported
    /\ \A r \in Requests : pc[r] = "child" => names[r] \in Named
    /\ \A r \in Requests : pc[r] = "child" /\ names[r] \in Ids => names[r] \in removed
    /\ late \subseteq Requests
    /\ \A r \in late : names[r] \in Named \cap ended
    /\ EndedSessionsRefuse
    /\ ReportedSessionsServe

\* The events that have come before the message at i, and are not yet written.
IsReply(m) == m.kind \in {"ok", "error"}
Before(s, i) == {j \in 1 .. (i - 1) : IsEvent(s[j])}
Writing == IF emitting = Nothing THEN 0 ELSE 1

\* A request is sent once, and its command is executed once: before its reply there are
\* all the events that Chrome sent ahead of it, and they come to the reader first.
AheadInv ==
    /\ ahead \in [Requests -> Nat]
    /\ \A r \in Requests : pc[r] \in {"send", "sent"} => result[r] = "none"
    /\ \A c \in wire : pc[c.by] \in {"sent", "write", "done"}
    /\ \A c, d \in wire : c.by = d.by => c = d
    /\ \A i \in DOMAIN inbox : IsReply(inbox[i]) =>
          /\ pc[inbox[i].what] \in {"sent", "write", "done"}
          /\ \A c \in wire : c.by # inbox[i].what
    /\ \A i, j \in DOMAIN inbox :
          IsReply(inbox[i]) /\ IsReply(inbox[j]) /\ inbox[i].what = inbox[j].what => i = j
    /\ \A i \in DOMAIN inbox : IsReply(inbox[i]) /\ pc[inbox[i].what] = "sent" =>
          ahead[inbox[i].what] <= Cardinality(Before(inbox, i)) + Writing
    /\ EventsBeforeReply

\* Attaches under way have their ids reserved: none goes beyond MaxSessions.
Asked == {t \in Tabs : making[t] = "asked"}

BoundInv ==
    /\ IsFiniteSet(Asked) /\ nextID + Cardinality(Asked) <= MaxSessions + 1
    /\ \A t \in Tabs : making[t] \in {"commit", "emit"} => sid[t] \in Ids
    /\ \A t \in Tabs : sessions[t] # None => sessions[t] \in Ids

IInv ==
    TypeOK /\ HomeInv /\ RouteInv /\ MakingInv /\ InboxInv /\ ChildInv /\ SessionInv /\ RequestInv
    /\ AheadInv /\ BoundInv


(***************************************************************************)
(* What a step does to the inbox.                                          *)
(***************************************************************************)

\* What the fields of a message are.
LEMMA MessageFacts ==
    ASSUME NEW m \in Messages
    PROVE  /\ m.kind \in {"attached", "detached"} => m.tab \in Tabs /\ m.what \in Children /\ m \in Events
           /\ m.kind \in {"answer", "removed"} => m.tab \in Tabs
           /\ m.kind \in {"ok", "error"} => m.what \in Requests
  BY DEF Messages, Events

\* A message sent is the last one, behind all there are.
LEMMA SaysFacts ==
    ASSUME TypeOK, NEW m \in Messages, inbox' = Append(inbox, m)
    PROVE  /\ inbox' \in Seq(Messages)
           /\ \A i \in DOMAIN inbox' :
                 \/ i \in DOMAIN inbox /\ inbox'[i] = inbox[i]
                 \/ i = Len(inbox) + 1 /\ inbox'[i] = m
           /\ \A i \in DOMAIN inbox : i \in Nat /\ i < Len(inbox) + 1
           /\ Len(inbox) \in Nat
<1>1. inbox \in Seq(Messages)
  BY DEF TypeOK
<1> QED
  BY <1>1

\* The reader takes the first message, the others move up by one.
LEMMA ReadsFacts ==
    ASSUME TypeOK, NEW kind, Reads(kind)
    PROVE  /\ emitting = Nothing
           /\ Head(inbox) \in Messages /\ Head(inbox).kind = kind
           /\ kind \in {"attached", "detached"} =>
                 Head(inbox) \in Events /\ Head(inbox).tab \in Tabs /\ Head(inbox).what \in Children
           /\ kind \in {"answer", "removed"} => Head(inbox).tab \in Tabs
           /\ kind \in {"ok", "error"} => Head(inbox).what \in Requests
           /\ 1 \in DOMAIN inbox /\ inbox[1] = Head(inbox)
           /\ inbox' \in Seq(Messages)
           /\ \A i \in DOMAIN inbox' : i \in Nat /\ i + 1 \in DOMAIN inbox /\ i + 1 # 1 /\ inbox'[i] = inbox[i + 1]
<1>1. inbox \in Seq(Messages) /\ inbox # <<>> /\ inbox' = Tail(inbox)
  BY DEF TypeOK, Reads
<1>2. Len(inbox) \in Nat /\ Len(inbox) > 0 /\ DOMAIN inbox = 1 .. Len(inbox)
  BY <1>1, EmptySeq
<1>3. Head(inbox) = inbox[1] /\ 1 \in DOMAIN inbox
  BY <1>1, <1>2
<1>4. inbox' \in Seq(Messages) /\ DOMAIN inbox' = 1 .. (Len(inbox) - 1)
  BY <1>1, <1>2, HeadTailProperties
<1>5. \A i \in 1 .. (Len(inbox) - 1) : inbox'[i] = inbox[i + 1]
  BY <1>1, <1>2, HeadTailProperties
<1>6. inbox[1] \in Messages
  BY <1>1, <1>3, ElementOfSeq, <1>2
<1> QED
  BY <1>2, <1>3, <1>4, <1>5, <1>6, MessageFacts DEF Reads

LEMMA TypeInit == Init => TypeOK
  BY RoutingAssumption DEF Init, TypeOK, Named, Ids

LEMMA TypeNext == TypeOK /\ [Next]_vars => TypeOK'
<1> SUFFICES ASSUME TypeOK, [Next]_vars PROVE TypeOK'
  OBVIOUS
<1> USE RoutingAssumption DEF modelVars, attachVars, requestVars, chromeVars, historyVars, Named, Ids, Endings, Commands, Nothing, Message, TypeOK
<1>1. ASSUME NEW t \in Tabs, Attach(t) PROVE TypeOK'
  <2>1. Message("answer", t, None) \in Messages
    BY <1>1, RoutingAssumption DEF Attach, Messages, Events, Message, TypeOK, Named
  <2>2. inbox' = Append(inbox, Message("answer", t, None))
    BY <1>1 DEF Attach
  <2> QED
    BY <1>1, <2>1, <2>2, SaysFacts DEF Attach
<1>2. ASSUME NEW t \in Tabs, Commit(t) PROVE TypeOK'
  BY <1>2 DEF Commit
<1>3. ASSUME NEW t \in Tabs, EmitAttached(t) PROVE TypeOK'
  BY <1>3 DEF EmitAttached
<1>4. CASE AttachAnswered
  <2>1. Reads("answer")
    BY <1>4 DEF AttachAnswered
  <2>2. nextID \in Nat /\ Head(inbox).tab \in Tabs
    BY <2>1, ReadsFacts
  <2>3. home' \in [Named -> Tabs \cup {None}] /\ sid' \in [Tabs -> Nat \cup {None}]
    BY <1>4, <2>2 DEF AttachAnswered, NewSession
  <2> QED
    BY <1>4, <2>1, <2>2, <2>3, ReadsFacts DEF AttachAnswered, NewSession
<1>5. ASSUME NEW k \in {"ok", "error"}, Replied(k) PROVE TypeOK'
  <2>1. Reads(k)
    BY <1>5 DEF Replied
  <2>2. Head(inbox).what \in Requests /\ inbox' \in Seq(Messages)
    BY <2>1, ReadsFacts
  <2>3. pc' \in [Requests -> {"idle", "find", "child", "send", "sent", "write", "done"}]
    BY <1>5, <2>2 DEF Replied
  <2>4. result' \in [Requests -> {"none", "refused", "ok", "error", "expired"}]
    BY <1>5, <2>2 DEF Replied
  <2> QED
    BY <1>5, <2>2, <2>3, <2>4 DEF Replied
<1>6. CASE OnChildAttached
  <2>1. Reads("attached")
    BY <1>6 DEF OnChildAttached
  <2>2. Head(inbox).tab \in Tabs /\ Head(inbox) \in Events /\ inbox' \in Seq(Messages) /\ Head(inbox).what \in Children
    BY <2>1, ReadsFacts
  <2>3. children' \in [Tabs -> SUBSET Children]
    BY <1>6, <2>2 DEF OnChildAttached, StoreChild
  <2>4. emitting' \in Events \cup Endings \cup {Nothing}
    BY <1>6, <2>2 DEF OnChildAttached, StoreChild
  <2> QED
    BY <1>6, <2>2, <2>3, <2>4 DEF OnChildAttached, StoreChild
<1>7. CASE OnChildDetached
  <2>1. Reads("detached")
    BY <1>7 DEF OnChildDetached
  <2>2. Head(inbox).tab \in Tabs /\ Head(inbox) \in Events /\ inbox' \in Seq(Messages)
    BY <2>1, ReadsFacts
  <2>3. children' \in [Tabs -> SUBSET Children]
    BY <1>7, <2>2 DEF OnChildDetached, DropChild
  <2>4. emitting' \in Events \cup Endings \cup {Nothing}
    BY <1>7, <2>2 DEF OnChildDetached, DropChild
  <2> QED
    BY <1>7, <2>2, <2>3, <2>4 DEF OnChildDetached, DropChild
<1>8. CASE OnDetach
  <2>1. Reads("removed")
    BY <1>8 DEF OnDetach
  <2>2. Head(inbox).tab \in Tabs /\ inbox' \in Seq(Messages)
    BY <2>1, ReadsFacts
  <2>3. emitting' \in Events \cup Endings \cup {Nothing}
    BY <1>8, <2>2 DEF OnDetach
  <2>4. CASE sessions[Head(inbox).tab] = None
    BY <1>8, <2>2, <2>4 DEF OnDetach
  <2>5. CASE sessions[Head(inbox).tab] # None
    <3>1. sessions' \in [Tabs -> Nat \cup {None}]
      BY <1>8, <2>2, <2>5 DEF OnDetach
    <3>2. children' \in [Tabs -> SUBSET Children]
      BY <1>8, <2>2, <2>5 DEF OnDetach
    <3> QED
      BY <1>8, <2>2, <2>3, <3>1, <3>2 DEF OnDetach
  <2> QED
    BY <2>4, <2>5
<1>9. CASE Emit
  BY <1>9 DEF Emit, Ends
<1>10. ASSUME NEW r \in Requests, FindAny(r) PROVE TypeOK'
  <2>1. CASE \E t \in Tabs : sessions[t] # None /\ Finds(r, t, None) /\ UNCHANGED result
    <3>1. PICK t \in Tabs : Finds(r, t, None) /\ UNCHANGED result
      BY <2>1
    <3>2. route' \in [Requests -> (Tabs \cup {None}) \X (Children \cup {None})]
      BY <3>1 DEF Finds
    <3> QED
      BY <1>10, <3>1, <3>2 DEF FindAny, Finds
  <2>2. CASE Refuses(r) /\ UNCHANGED route
    BY <1>10, <2>2 DEF FindAny, Refuses
  <2> QED
    BY <1>10, <2>1, <2>2 DEF FindAny
<1>11. ASSUME NEW r \in Requests, FindSession(r) PROVE TypeOK'
  <2>1. CASE \E t \in Tabs : sessions[t] = names[r] /\ Finds(r, t, None)
    <3>1. PICK t \in Tabs : Finds(r, t, None)
      BY <2>1
    <3>2. route' \in [Requests -> (Tabs \cup {None}) \X (Children \cup {None})]
      BY <3>1 DEF Finds
    <3> QED
      BY <1>11, <3>1, <3>2 DEF FindSession, Finds
  <2>2. CASE pc' = [pc EXCEPT ![r] = "child"] /\ UNCHANGED route
    BY <1>11, <2>2 DEF FindSession
  <2> QED
    BY <1>11, <2>1, <2>2 DEF FindSession
<1>12. ASSUME NEW r \in Requests, FindChild(r) PROVE TypeOK'
  <2>1. CASE \E t \in Tabs : names[r] \in children[t] /\ Finds(r, t, names[r]) /\ UNCHANGED result
    <3>1. PICK t \in Tabs : names[r] \in children[t] /\ Finds(r, t, names[r]) /\ UNCHANGED result
      BY <2>1
    <3>2. names[r] \in Children
      BY <3>1
    <3>3. route' \in [Requests -> (Tabs \cup {None}) \X (Children \cup {None})]
      BY <3>1, <3>2 DEF Finds
    <3> QED
      BY <1>12, <3>1, <3>3 DEF FindChild, Finds
  <2>2. CASE Refuses(r) /\ UNCHANGED route
    BY <1>12, <2>2 DEF FindChild, Refuses
  <2> QED
    BY <1>12, <2>1, <2>2 DEF FindChild
<1>13. ASSUME NEW r \in Requests, Send(r) PROVE TypeOK'
  BY <1>13 DEF Send, At, Command
<1>14. ASSUME NEW r \in Requests, Expires(r) PROVE TypeOK'
  BY <1>14 DEF Expires, At
<1>15. ASSUME NEW r \in Requests, Respond(r) PROVE TypeOK'
  <2>1. route' \in [Requests -> (Tabs \cup {None}) \X (Children \cup {None})]
    BY <1>15 DEF Respond, At
  <2> QED
    BY <1>15, <2>1 DEF Respond, At
<1>16. ASSUME NEW m \in wire, Execute(m) PROVE TypeOK'
  <2>1. m.by \in Requests
    BY <1>16 DEF Commands
  <2>2. PICK outcome \in {"ok", "error"} : inbox' = Append(inbox, Message(outcome, None, m.by))
    BY <1>16 DEF Execute
  <2>3. Message(outcome, None, m.by) \in Messages
    BY <2>1 DEF Messages
  <2>4. inbox' \in Seq(Messages)
    BY <2>2, <2>3, SaysFacts
  <2> QED
    BY <1>16, <2>4 DEF Execute
<1>17. ASSUME NEW t \in Tabs, Detaches(t) PROVE TypeOK'
  <2>1. Message("removed", t, None) \in Messages
    BY <1>17, RoutingAssumption DEF Detaches, Messages, Events, Message, TypeOK, Named
  <2>2. inbox' = Append(inbox, Message("removed", t, None))
    BY <1>17 DEF Detaches
  <2> QED
    BY <1>17, <2>1, <2>2, SaysFacts DEF Detaches
<1>18. ASSUME NEW t \in Tabs, NEW c \in Children, ChildAttaches(t, c) PROVE TypeOK'
  <2>1. Message("attached", t, c) \in Messages
    BY <1>18, RoutingAssumption DEF ChildAttaches, Messages, Events, Message, TypeOK, Named
  <2>2. inbox' = Append(inbox, Message("attached", t, c))
    BY <1>18 DEF ChildAttaches
  <2>3. inbox' \in Seq(Messages)
    BY <2>1, <2>2, SaysFacts
  <2>4. home' \in [Named -> Tabs \cup {None}]
    BY <1>18 DEF ChildAttaches
  <2> QED
    BY <1>18, <2>3, <2>4 DEF ChildAttaches
<1>19. ASSUME NEW c \in Children, ChildDetaches(c) PROVE TypeOK'
  <2>1. Message("detached", home[c], c) \in Messages
    BY <1>19, RoutingAssumption DEF ChildDetaches, Messages, Events, Message, TypeOK, Named
  <2>2. inbox' = Append(inbox, Message("detached", home[c], c))
    BY <1>19 DEF ChildDetaches
  <2> QED
    BY <1>19, <2>1, <2>2, SaysFacts DEF ChildDetaches
<1>20. ASSUME NEW r \in Requests, NEW x \in Named \cup {None}, Asks(r, x) PROVE TypeOK'
  BY <1>20 DEF Asks, At
<1>21. ASSUME NEW t \in Tabs, AttachToTarget(t) PROVE TypeOK'
  BY <1>21 DEF AttachToTarget
<1>22. CASE UNCHANGED vars
  BY <1>22 DEF vars
<1> QED
  BY <1>1, <1>2, <1>3, <1>4, <1>5, <1>6, <1>7, <1>8, <1>9, <1>10, <1>11, <1>12, <1>13, <1>14,
     <1>15, <1>16, <1>17, <1>18, <1>19, <1>20, <1>21, <1>22 DEF Next, Reader, Serve, Chrome,
     Client

LEMMA HomeInit == Init => HomeInv
  BY RoutingAssumption DEF Init, HomeInv, Named, Ids, Nothing, Message

LEMMA HomeNext == TypeOK /\ HomeInv /\ [Next]_vars => HomeInv'
<1> SUFFICES ASSUME TypeOK, HomeInv, [Next]_vars PROVE HomeInv'
  OBVIOUS
<1> USE RoutingAssumption DEF modelVars, attachVars, requestVars, chromeVars, historyVars, Named, Ids, TypeOK, HomeInv, Nothing, Message
<1>1. ASSUME NEW t \in Tabs, Attach(t) PROVE HomeInv'
  <2>1. Message("answer", t, None) \in Messages
    BY <1>1, RoutingAssumption DEF Attach, Messages, Events, Message, TypeOK, Named
  <2>2. inbox' = Append(inbox, Message("answer", t, None))
    BY <1>1 DEF Attach
  <2> QED
    BY <1>1, <2>1, <2>2, SaysFacts DEF Attach
<1>2. ASSUME NEW t \in Tabs, Commit(t) PROVE HomeInv'
  BY <1>2 DEF Commit
<1>3. ASSUME NEW t \in Tabs, EmitAttached(t) PROVE HomeInv'
  BY <1>3 DEF EmitAttached
<1>4. CASE AttachAnswered
  <2>1. Reads("answer")
    BY <1>4 DEF AttachAnswered
  <2>2. Head(inbox).tab \in Tabs
    BY <2>1, ReadsFacts
  <2>3. \A x \in Named : home[x] # None => home'[x] = home[x]
    BY <1>4, <2>2 DEF AttachAnswered, NewSession
  <2>4. \A x \in Ids : x >= nextID' => home'[x] = None
    BY <1>4, <2>2 DEF AttachAnswered, NewSession
  <2>5. \A t \in Tabs : sid'[t] \in Ids => home'[sid'[t]] = t
    BY <1>4, <2>2, <2>3 DEF AttachAnswered, NewSession
  <2>6. \A i \in DOMAIN inbox' :
           inbox'[i].kind \in {"attached", "detached"} => home'[inbox'[i].what] = inbox'[i].tab
    <3> SUFFICES ASSUME NEW i \in DOMAIN inbox', inbox'[i].kind \in {"attached", "detached"}
                 PROVE  home'[inbox'[i].what] = inbox'[i].tab
      OBVIOUS
    <3>1. i + 1 \in DOMAIN inbox /\ inbox'[i] = inbox[i + 1] /\ inbox'[i] \in Messages
      BY <2>1, ReadsFacts
    <3>2. inbox'[i].tab \in Tabs /\ inbox'[i].what \in Children /\ home[inbox'[i].what] = inbox'[i].tab
      BY <3>1, MessageFacts
    <3> QED
      BY <2>3, <3>2
  <2> QED
    BY <1>4, <2>1, <2>3, <2>4, <2>5, <2>6, ReadsFacts DEF AttachAnswered, NewSession
<1>5. ASSUME NEW k \in {"ok", "error"}, Replied(k) PROVE HomeInv'
  <2>1. Reads(k)
    BY <1>5 DEF Replied
  <2> QED
    BY <1>5, <2>1, ReadsFacts DEF Replied
<1>6. CASE OnChildAttached
  <2>1. Reads("attached")
    BY <1>6 DEF OnChildAttached
  <2>2. CASE sessions[Head(inbox).tab] = None
    BY <1>6, <2>1, <2>2, ReadsFacts DEF OnChildAttached, StoreChild
  <2>3. CASE sessions[Head(inbox).tab] # None
    <3>0. 1 \in DOMAIN inbox /\ inbox[1] = Head(inbox) /\ inbox[1].kind = "attached" /\ Head(inbox).tab \in Tabs
      BY <2>1, ReadsFacts
    <3>1. Head(inbox).tab \in Tabs /\ home[Head(inbox).what] = Head(inbox).tab
      BY <3>0
    <3>2. \A t \in Tabs : \A c \in children'[t] : home[c] = t
      BY <1>6, <2>3, <3>1 DEF OnChildAttached, StoreChild
    <3>3. emitting' = Head(inbox)
      BY <1>6, <2>3 DEF OnChildAttached, StoreChild
    <3> QED
      BY <1>6, <2>1, <3>1, <3>2, <3>3, ReadsFacts DEF OnChildAttached
  <2> QED
    BY <2>2, <2>3
<1>7. CASE OnChildDetached
  <2>1. Reads("detached")
    BY <1>7 DEF OnChildDetached
  <2> QED
    BY <1>7, <2>1, ReadsFacts DEF OnChildDetached, DropChild
<1>8. CASE OnDetach
  <2>1. Reads("removed")
    BY <1>8 DEF OnDetach
  <2>2. \A t \in Tabs : sessions'[t] \in {sessions[t], None} /\ children'[t] \subseteq children[t]
    BY <1>8, <2>1, ReadsFacts DEF OnDetach
  <2>3. emitting' = Nothing \/ emitting'.kind = "removed"
    BY <1>8, <2>1, ReadsFacts DEF OnDetach
  <2>4. \A i \in DOMAIN inbox' : i + 1 \in DOMAIN inbox /\ inbox'[i] = inbox[i + 1]
    BY <2>1, ReadsFacts
  <2>5. UNCHANGED <<sid, alive, home, nextID, reported, ended>>
    BY <1>8 DEF OnDetach
  <2>6. \A t \in Tabs : sessions'[t] \in Ids => home'[sessions'[t]] = t
    BY <2>2, <2>5
  <2>7. \A t \in Tabs : \A x \in children'[t] : home'[x] = t
    BY <2>2, <2>5
  <2>8. \A i \in DOMAIN inbox' :
           inbox'[i].kind \in {"attached", "detached"} => home'[inbox'[i].what] = inbox'[i].tab
    BY <2>4, <2>5
  <2>9. \A t \in Tabs : sid'[t] \in Ids => home'[sid'[t]] = t
    BY <2>5
  <2>10. \A c \in Children \cap (reported' \cup ended') : home'[c] # None
    BY <2>5
  <2>11. emitting'.kind \notin {"attached", "detached"}
    BY <2>3 DEF Nothing, Message
  <2>12. \A x \in Ids : x >= nextID' => home'[x] = None
    BY <2>5
  <2> HIDE DEF TypeOK
  <2> QED
    BY <2>6, <2>7, <2>8, <2>9, <2>10, <2>11, <2>12, Zenon
<1>9. CASE Emit
  <2>1. emitting.kind = "attached" => emitting.what \in Children /\ home[emitting.what] \in Tabs
    BY DEF Events, Endings
  <2>2. emitting.kind = "detached" => emitting.what \in Children /\ home[emitting.what] \in Tabs
    BY DEF Events, Endings
  <2>3. emitting.kind = "removed" => emitting.tab \in Tabs /\ emitting.what \notin Children
    BY DEF Events, Endings
  <2>4. \A c \in Children \cap (reported' \cup ended') : home[c] # None
    BY <1>9, <2>1, <2>2, <2>3 DEF Emit, Ends, Events, Endings
  <2> QED
    BY <1>9, <2>4 DEF Emit
<1>10. ASSUME NEW m \in wire, Execute(m) PROVE HomeInv'
  BY <1>10 DEF Execute
<1>11. ASSUME NEW t \in Tabs, Detaches(t) PROVE HomeInv'
  <2>1. Message("removed", t, None) \in Messages
    BY <1>11, RoutingAssumption DEF Detaches, Messages, Events, Message, TypeOK, Named
  <2>2. inbox' = Append(inbox, Message("removed", t, None))
    BY <1>11 DEF Detaches
  <2> QED
    BY <1>11, <2>1, <2>2, SaysFacts DEF Detaches
<1>12. ASSUME NEW t \in Tabs, NEW c \in Children, ChildAttaches(t, c) PROVE HomeInv'
  <2>1. Message("attached", t, c) \in Messages
    BY <1>12, RoutingAssumption DEF ChildAttaches, Messages, Events, Message, TypeOK, Named
  <2>2. inbox' = Append(inbox, Message("attached", t, c))
    BY <1>12 DEF ChildAttaches
  <2>3. \A x \in Named : home[x] # None => home'[x] = home[x]
    BY <1>12 DEF ChildAttaches
  <2>4. home'[c] = t
    BY <1>12 DEF ChildAttaches
  <2>5. \A i \in DOMAIN inbox' :
           inbox'[i].kind \in {"attached", "detached"} => home'[inbox'[i].what] = inbox'[i].tab
    <3> SUFFICES ASSUME NEW i \in DOMAIN inbox', inbox'[i].kind \in {"attached", "detached"}
                 PROVE  home'[inbox'[i].what] = inbox'[i].tab
      OBVIOUS
    <3>1. CASE i \in DOMAIN inbox /\ inbox'[i] = inbox[i]
      <4>1. inbox[i] \in Messages
        BY <3>1, ElementOfSeq
      <4>2. inbox[i].tab \in Tabs /\ inbox[i].what \in Children /\ home[inbox[i].what] = inbox[i].tab
        BY <3>1, <4>1, MessageFacts
      <4>3. inbox[i].what \in Named /\ home[inbox[i].what] # None
        BY <4>2
      <4>4. home'[inbox[i].what] = home[inbox[i].what]
        BY <2>3, <4>3
      <4> QED
        BY <3>1, <4>2, <4>4, Zenon
    <3>2. CASE inbox'[i] = Message("attached", t, c)
      BY <2>4, <3>2
    <3> QED
      BY <2>1, <2>2, <3>1, <3>2, SaysFacts
  <2>6. /\ emitting.kind \in {"attached", "detached"} => home'[emitting.what] = emitting.tab
        /\ \A x \in Ids : x >= nextID => home'[x] = None
    BY <1>12, <2>3 DEF ChildAttaches, Events, Endings
  <2> QED
    BY <1>12, <2>3, <2>5, <2>6 DEF ChildAttaches
<1>13. ASSUME NEW c \in Children, ChildDetaches(c) PROVE HomeInv'
  <2>1. Message("detached", home[c], c) \in Messages
    BY <1>13, RoutingAssumption DEF ChildDetaches, Messages, Events, Message, TypeOK, Named
  <2>2. inbox' = Append(inbox, Message("detached", home[c], c))
    BY <1>13 DEF ChildDetaches
  <2> QED
    BY <1>13, <2>1, <2>2, SaysFacts DEF ChildDetaches
<1>14. ASSUME NEW t \in Tabs, AttachToTarget(t) PROVE HomeInv'
  BY <1>14 DEF AttachToTarget
<1>15. CASE UNCHANGED vars
  BY <1>15 DEF vars
<1>16. CASE
         \/ \E r \in Requests : FindAny(r) \/ FindSession(r) \/ FindChild(r) \/ Send(r) \/
                Expires(r) \/ Respond(r)
         \/ \E r \in Requests, x \in Named \cup {None} : Asks(r, x)
  <2>1. UNCHANGED <<sessions, sid, children, home, alive, inbox, emitting, nextID, reported, ended>>
    BY <1>16 DEF FindAny, FindSession, FindChild, Send, Expires, Respond, Asks
  <2> QED
    BY <2>1
<1> QED
  BY <1>1, <1>2, <1>3, <1>4, <1>5, <1>6, <1>7, <1>8, <1>9, <1>10, <1>11, <1>12, <1>13, <1>14,
     <1>15, <1>16 DEF Next, Reader, Serve, Chrome, Client


(***************************************************************************)
(* RoutedToOwner.                                                          *)
(***************************************************************************)
LEMMA RouteInit == Init => RouteInv
  BY RoutingAssumption DEF Init, RouteInv

\* A command for a session that has its tab keeps it.
LEMMA OwnerStays ==
    ASSUME TypeOK, HomeInv, AttachAnswered \/ \E t \in Tabs, c \in Children : ChildAttaches(t, c),
           NEW x \in Named, NEW t, NEW c, Owner(x, t, c)
    PROVE  Owner(x, t, c)'
  BY RoutingAssumption
  DEF AttachAnswered, NewSession, ChildAttaches, Owner, TypeOK, HomeInv, Named, Ids

LEMMA RouteNext == TypeOK /\ HomeInv /\ RouteInv /\ [Next]_vars => RouteInv'
<1> SUFFICES ASSUME TypeOK, HomeInv, RouteInv, [Next]_vars PROVE RouteInv'
  OBVIOUS
<1> USE RoutingAssumption DEF modelVars, attachVars, requestVars, chromeVars, historyVars, TypeOK, RouteInv, Commands
<1>1. CASE AttachAnswered
  <2>1. Reads("answer")
    BY <1>1 DEF AttachAnswered
  <2>2. UNCHANGED <<pc, names, route, wire>>
    BY <1>1 DEF AttachAnswered, NewSession
  <2> QED
    BY <1>1, <2>2, OwnerStays DEF RouteInv, Commands
<1>2. ASSUME NEW k \in {"ok", "error"}, Replied(k) PROVE RouteInv'
  <2>1. Reads(k)
    BY <1>2 DEF Replied
  <2>2. Head(inbox).what \in Requests
    BY <2>1, ReadsFacts
  <2> QED
    BY <1>2, <2>2 DEF Replied, Owner
<1>3. ASSUME NEW r \in Requests, FindAny(r) PROVE RouteInv'
  BY <1>3 DEF FindAny, Finds, Refuses, Owner, Named, Ids
<1>4. ASSUME NEW r \in Requests, FindSession(r) PROVE RouteInv'
  <2>1. CASE \E t \in Tabs : sessions[t] = names[r] /\ Finds(r, t, None)
    <3>1. PICK t \in Tabs : sessions[t] = names[r] /\ Finds(r, t, None)
      BY <2>1
    <3>2. Owner(names[r], t, None)
      BY <1>4, <3>1 DEF FindSession, Owner, HomeInv, Named, Ids
    <3> QED
      BY <1>4, <3>1, <3>2 DEF FindSession, Finds, Owner
  <2>2. CASE pc' = [pc EXCEPT ![r] = "child"] /\ UNCHANGED route
    BY <1>4, <2>2 DEF FindSession, Owner
  <2> QED
    BY <1>4, <2>1, <2>2 DEF FindSession
<1>5. ASSUME NEW r \in Requests, FindChild(r) PROVE RouteInv'
  <2>1. CASE \E t \in Tabs : names[r] \in children[t] /\ Finds(r, t, names[r]) /\ UNCHANGED result
    <3>1. PICK t \in Tabs : names[r] \in children[t] /\ Finds(r, t, names[r]) /\ UNCHANGED result
      BY <2>1
    <3>2. Owner(names[r], t, names[r])
      BY <1>5, <3>1 DEF Owner, HomeInv
    <3> QED
      BY <1>5, <3>1, <3>2 DEF FindChild, Finds, Owner
  <2>2. CASE Refuses(r) /\ UNCHANGED route
    BY <1>5, <2>2 DEF FindChild, Refuses, Owner
  <2> QED
    BY <1>5, <2>1, <2>2 DEF FindChild
<1>6. ASSUME NEW r \in Requests, Send(r) PROVE RouteInv'
  BY <1>6 DEF Send, At, Command, Owner
<1>7. ASSUME NEW r \in Requests, Expires(r) PROVE RouteInv'
  BY <1>7 DEF Expires, At, Owner
<1>8. ASSUME NEW r \in Requests, Respond(r) PROVE RouteInv'
  BY <1>8 DEF Respond, At, Owner
<1>9. ASSUME NEW m \in wire, Execute(m) PROVE RouteInv'
  BY <1>9 DEF Execute, Owner
<1>10. ASSUME NEW t \in Tabs, NEW c \in Children, ChildAttaches(t, c) PROVE RouteInv'
  <2>1. UNCHANGED <<pc, names, route, wire>>
    BY <1>10 DEF ChildAttaches
  <2> QED
    BY <1>10, <2>1, OwnerStays DEF RouteInv, Commands
<1>11. ASSUME NEW c \in Children, ChildDetaches(c) PROVE RouteInv'
  BY <1>11 DEF ChildDetaches, Owner
<1>12. ASSUME NEW r \in Requests, NEW x \in Named \cup {None}, Asks(r, x) PROVE RouteInv'
  BY <1>12 DEF Asks, At, Owner
<1>13. CASE UNCHANGED vars
  BY <1>13 DEF vars, Owner
<1>14. CASE
         \/ \E t \in Tabs : Attach(t) \/ Commit(t) \/ EmitAttached(t) \/ Detaches(t) \/
                AttachToTarget(t)
         \/ OnChildAttached
         \/ OnChildDetached
         \/ OnDetach
         \/ Emit
  <2>1. UNCHANGED <<pc, names, route, wire, home>>
    BY <1>14 DEF Attach, Commit, EmitAttached, OnChildAttached, OnChildDetached, OnDetach, Emit,
       Detaches, AttachToTarget
  <2> QED
    BY <2>1 DEF Owner
<1> QED
  BY <1>1, <1>2, <1>3, <1>4, <1>5, <1>6, <1>7, <1>8, <1>9, <1>10, <1>11, <1>12, <1>13, <1>14 DEF
     Next, Reader, Serve, Chrome, Client


\* A command goes to the tab of the session that it names (Forward).
THEOREM Routed == Spec => []RoutedToOwner
<1>1. Init => TypeOK /\ HomeInv /\ RouteInv
  BY TypeInit, HomeInit, RouteInit
<1>2. TypeOK /\ HomeInv /\ RouteInv /\ [Next]_vars => (TypeOK /\ HomeInv /\ RouteInv)'
  BY TypeNext, HomeNext, RouteNext
<1>3. RouteInv => RoutedToOwner
  BY DEF RouteInv, RoutedToOwner, Owner
<1> QED
  BY <1>1, <1>2, <1>3, PTL DEF Spec


(***************************************************************************)
(* The attaching of tabs.                                                  *)
(***************************************************************************)
LEMMA MakingInit == Init => MakingInv
  BY RoutingAssumption DEF Init, MakingInv

LEMMA MakingNext == TypeOK /\ HomeInv /\ MakingInv /\ [Next]_vars => MakingInv'
<1> SUFFICES ASSUME TypeOK, HomeInv, MakingInv, [Next]_vars PROVE MakingInv'
  OBVIOUS
<1> USE RoutingAssumption DEF modelVars, attachVars, requestVars, chromeVars, historyVars, MakingInv, TypeOK
<1>1. ASSUME NEW t \in Tabs, Attach(t) PROVE MakingInv'
  <2>1. Message("answer", t, None) \in Messages
    BY <1>1, RoutingAssumption DEF Attach, Messages, Events, Message, TypeOK, Named
  <2>2. inbox' = Append(inbox, Message("answer", t, None))
    BY <1>1 DEF Attach
  <2>3. UNCHANGED <<sessions, children>> /\ sessions[t] = None /\ making[t] = "no" /\ making' = [making EXCEPT ![t] = "asked"]
    BY <1>1 DEF Attach
  <2>4. \A i \in DOMAIN inbox : inbox[i].kind = "answer" => inbox[i].tab # t
    BY <2>3
  <2>5. Message("answer", t, None).tab = t
    BY DEF Message
  <2> QED
    BY <2>1, <2>2, <2>3, <2>4, <2>5, SaysFacts
<1>2. ASSUME NEW t \in Tabs, Commit(t) PROVE MakingInv'
  BY <1>2 DEF Commit
<1>3. ASSUME NEW t \in Tabs, EmitAttached(t) PROVE MakingInv'
  BY <1>3 DEF EmitAttached
<1>4. CASE AttachAnswered
  <2>1. Reads("answer")
    BY <1>4 DEF AttachAnswered
  <2> DEFINE t == Head(inbox).tab
  <2>2. t \in Tabs /\ 1 \in DOMAIN inbox /\ inbox[1].kind = "answer" /\ inbox[1].tab = t
    BY <2>1, ReadsFacts
  <2>3. UNCHANGED <<sessions, children>> /\ making' = [making EXCEPT ![t] = "commit"]
    BY <1>4 DEF AttachAnswered, NewSession
  <2>4. \A i \in DOMAIN inbox' : inbox'[i].kind = "answer" => inbox'[i].tab # t
    BY <2>1, <2>2, ReadsFacts
  <2> QED
    BY <2>1, <2>2, <2>3, <2>4, ReadsFacts
<1>5. ASSUME NEW k \in {"ok", "error"}, Replied(k) PROVE MakingInv'
  <2>1. Reads(k)
    BY <1>5 DEF Replied
  <2>2. UNCHANGED <<sessions, making>> /\ \A t \in Tabs : sessions[t] = None => children'[t] = {}
    BY <1>5, <2>1, ReadsFacts, RoutingAssumption DEF Replied
  <2> QED
    BY <2>1, <2>2, ReadsFacts
<1>6. CASE OnChildAttached
  <2>1. Reads("attached")
    BY <1>6 DEF OnChildAttached
  <2>2. CASE sessions[Head(inbox).tab] = None
    <3>1. UNCHANGED <<sessions, children, making>>
      BY <1>6, <2>2 DEF OnChildAttached, StoreChild
    <3> QED
      BY <2>1, <3>1, ReadsFacts
  <2>3. CASE sessions[Head(inbox).tab] # None
    <3>1. Head(inbox).tab \in Tabs
      BY <2>1, ReadsFacts
    <3>2. UNCHANGED <<sessions, making>> /\ \A t \in Tabs : t # Head(inbox).tab => children'[t] = children[t]
      BY <1>6, <2>3, <3>1 DEF OnChildAttached, StoreChild
    <3> QED
      BY <2>1, <2>3, <3>1, <3>2, ReadsFacts
  <2> QED
    BY <2>2, <2>3
<1>7. CASE OnChildDetached
  <2>1. Reads("detached")
    BY <1>7 DEF OnChildDetached
  <2>2. CASE sessions[Head(inbox).tab] = None
    <3>1. UNCHANGED <<sessions, children, making>>
      BY <1>7, <2>2 DEF OnChildDetached, DropChild
    <3> QED
      BY <2>1, <3>1, ReadsFacts
  <2>3. CASE sessions[Head(inbox).tab] # None
    <3>1. Head(inbox).tab \in Tabs
      BY <2>1, ReadsFacts
    <3>2. UNCHANGED <<sessions, making>> /\ \A t \in Tabs : t # Head(inbox).tab => children'[t] = children[t]
      BY <1>7, <2>3, <3>1 DEF OnChildDetached, DropChild
    <3> QED
      BY <2>1, <2>3, <3>1, <3>2, ReadsFacts
  <2> QED
    BY <2>2, <2>3
<1>8. CASE OnDetach
  <2>1. Reads("removed")
    BY <1>8 DEF OnDetach
  <2>2. UNCHANGED making /\ \A t \in Tabs : sessions'[t] \in {sessions[t], None} /\ (sessions'[t] = None => children'[t] = {})
    BY <1>8, <2>1, ReadsFacts, RoutingAssumption DEF OnDetach
  <2> QED
    BY <2>1, <2>2, ReadsFacts
<1>9. ASSUME NEW m \in wire, Execute(m) PROVE MakingInv'
  <2>1. PICK outcome \in {"ok", "error"} : inbox' = Append(inbox, Message(outcome, None, m.by))
    BY <1>9 DEF Execute
  <2>2. Message(outcome, None, m.by) \in Messages /\ Message(outcome, None, m.by).kind # "answer"
    BY <1>9 DEF Messages, Message, Commands
  <2>3. UNCHANGED <<sessions, children, making>>
    BY <1>9 DEF Execute
  <2> QED
    BY <2>1, <2>2, <2>3, SaysFacts
<1>10. ASSUME NEW t \in Tabs, Detaches(t) PROVE MakingInv'
  <2>1. Message("removed", t, None) \in Messages
    BY <1>10, RoutingAssumption DEF Detaches, Messages, Events, Message, TypeOK, Named
  <2>2. inbox' = Append(inbox, Message("removed", t, None))
    BY <1>10 DEF Detaches
  <2>3. UNCHANGED <<sessions, children, making>>
    BY <1>10 DEF Detaches
  <2>4. Message("removed", t, None).kind # "answer"
    BY DEF Message
  <2> QED
    BY <2>1, <2>2, <2>3, <2>4, SaysFacts
<1>11. ASSUME NEW t \in Tabs, NEW c \in Children, ChildAttaches(t, c) PROVE MakingInv'
  <2>1. Message("attached", t, c) \in Messages
    BY <1>11, RoutingAssumption DEF ChildAttaches, Messages, Events, Message, TypeOK, Named
  <2>2. inbox' = Append(inbox, Message("attached", t, c))
    BY <1>11 DEF ChildAttaches
  <2>3. UNCHANGED <<sessions, children, making>>
    BY <1>11 DEF ChildAttaches
  <2>4. Message("attached", t, c).kind # "answer"
    BY DEF Message
  <2> QED
    BY <2>1, <2>2, <2>3, <2>4, SaysFacts
<1>12. ASSUME NEW c \in Children, ChildDetaches(c) PROVE MakingInv'
  <2>1. Message("detached", home[c], c) \in Messages
    BY <1>12, RoutingAssumption DEF ChildDetaches, Messages, Events, Message, TypeOK, Named
  <2>2. inbox' = Append(inbox, Message("detached", home[c], c))
    BY <1>12 DEF ChildDetaches
  <2>3. UNCHANGED <<sessions, children, making>>
    BY <1>12 DEF ChildDetaches
  <2>4. Message("detached", home[c], c).kind # "answer"
    BY DEF Message
  <2> QED
    BY <2>1, <2>2, <2>3, <2>4, SaysFacts
<1>13. CASE UNCHANGED vars
  BY <1>13 DEF vars
<1>14. CASE
         \/ \E r \in Requests : FindAny(r) \/ FindSession(r) \/ FindChild(r) \/ Send(r) \/
                Expires(r) \/ Respond(r)
         \/ \E r \in Requests, x \in Named \cup {None} : Asks(r, x)
         \/ \E t \in Tabs : AttachToTarget(t)
         \/ Emit
  <2>1. UNCHANGED <<sessions, children, making, inbox>>
    BY <1>14 DEF FindAny, FindSession, FindChild, Send, Expires, Respond, Asks, AttachToTarget, Emit
  <2> QED
    BY <2>1
<1> QED
  BY <1>1, <1>2, <1>3, <1>4, <1>5, <1>6, <1>7, <1>8, <1>9, <1>10, <1>11, <1>12, <1>13, <1>14 DEF
     Next, Reader, Serve, Chrome, Client


(***************************************************************************)
(* The child sessions.                                                     *)
(***************************************************************************)
LEMMA InboxInit == Init => InboxInv
  BY RoutingAssumption DEF Init, InboxInv, Announces

\* A step that leaves the inbox alone and tells the client of no announced child.
LEMMA InboxSame ==
    ASSUME TypeOK, InboxInv, UNCHANGED inbox,
           reported' \cap Children \subseteq reported \cup {emitting.what},
           ended' \cap Children \subseteq ended \cup reported \cup {emitting.what},
           emitting' \in {emitting, Nothing},
           \A t \in Tabs : children'[t] \subseteq children[t]
    PROVE  InboxInv'
  BY RoutingAssumption DEF InboxInv, Nothing, Message

\* What the reader leaves in the inbox is announced once and in order.
LEMMA InboxShift ==
    ASSUME TypeOK, InboxInv, NEW kind, Reads(kind)
    PROVE  /\ \A i, j \in DOMAIN inbox', c \in Children :
                 Announces(inbox'[i], c) /\ Announces(inbox'[j], c) => i = j
           /\ \A i, j \in DOMAIN inbox' :
                 inbox'[i].kind = "detached" /\ Announces(inbox'[j], inbox'[i].what) => j < i
           /\ \A i \in DOMAIN inbox', c \in Children : Announces(inbox'[i], c) =>
                 c \notin reported \cup ended /\ \A t \in Tabs : c \notin children[t]
<1>1. \A i \in DOMAIN inbox' : i \in Nat /\ i + 1 \in DOMAIN inbox /\ inbox'[i] = inbox[i + 1]
  BY ReadsFacts
<1> QED
  BY <1>1 DEF InboxInv

\* A step in which the reader takes the first message, about no child session.
LEMMA InboxRead ==
    ASSUME TypeOK, InboxInv, NEW kind, Reads(kind), UNCHANGED <<reported, ended>>,
           emitting'.what \notin Children,
           \A t \in Tabs : children'[t] \subseteq children[t]
    PROVE  InboxInv'
  BY InboxShift DEF InboxInv

\* A step in which the reader makes the child session of the first message its own.
LEMMA InboxTake ==
    ASSUME TypeOK, InboxInv, NEW kind, Reads(kind), UNCHANGED <<reported, ended>>,
           \A i \in DOMAIN inbox', x \in Children : Announces(inbox'[i], x) => x # Head(inbox).what,
           emitting'.what = Head(inbox).what,
           \A t \in Tabs : children'[t] \subseteq children[t] \cup {Head(inbox).what}
    PROVE  InboxInv'
  BY InboxShift DEF InboxInv

\* A step in which a message is sent that is not about a child session.
LEMMA InboxSays ==
    ASSUME TypeOK, InboxInv, NEW m \in Messages, inbox' = Append(inbox, m),
           m.kind \notin {"attached", "detached"}, UNCHANGED <<reported, ended, children, emitting>>
    PROVE  InboxInv'
  BY SaysFacts DEF InboxInv, Announces

LEMMA InboxNext == TypeOK /\ HomeInv /\ MakingInv /\ InboxInv /\ [Next]_vars => InboxInv'
<1> SUFFICES ASSUME TypeOK, HomeInv, MakingInv, InboxInv, [Next]_vars PROVE InboxInv'
  OBVIOUS
<1> USE DEF modelVars, attachVars, requestVars, chromeVars, historyVars
<1>1. ASSUME NEW t \in Tabs, Attach(t) PROVE InboxInv'
  <2>1. Message("answer", t, None) \in Messages
    BY <1>1, RoutingAssumption DEF Attach, Messages, Events, Message, TypeOK, Named
  <2>2. inbox' = Append(inbox, Message("answer", t, None))
    BY <1>1 DEF Attach
  <2>3. UNCHANGED <<reported, ended, children, emitting>> /\ Message("answer", t, None).kind \notin {"attached", "detached"}
    BY <1>1 DEF Attach, Message
  <2> QED
    BY <2>1, <2>2, <2>3, InboxSays
<1>2. ASSUME NEW t \in Tabs, Commit(t) PROVE InboxInv'
  <2>1. /\ UNCHANGED <<inbox, ended, emitting>> /\ \A u \in Tabs : children'[u] \subseteq children[u]
        /\ reported' \cap Children \subseteq reported
    BY <1>2, RoutingAssumption DEF Commit, TypeOK
  <2> QED
    BY <2>1, InboxSame
<1>3. ASSUME NEW t \in Tabs, EmitAttached(t) PROVE InboxInv'
  <2>1. /\ UNCHANGED <<inbox, ended, emitting>> /\ \A u \in Tabs : children'[u] \subseteq children[u]
        /\ reported' \cap Children \subseteq reported
    BY <1>3, RoutingAssumption DEF EmitAttached, TypeOK
  <2> QED
    BY <2>1, InboxSame
<1>4. CASE AttachAnswered
  <2>1. Reads("answer")
    BY <1>4 DEF AttachAnswered
  <2>2. UNCHANGED <<reported, ended>> /\ \A t \in Tabs : children'[t] \subseteq children[t]
    BY <1>4, <2>1, ReadsFacts DEF AttachAnswered, NewSession, TypeOK
  <2>3. emitting'.what \notin Children
    BY <1>4, <2>1, ReadsFacts, RoutingAssumption DEF AttachAnswered, NewSession, Nothing, Message,
       TypeOK
  <2> QED
    BY <2>1, <2>2, <2>3, InboxRead
<1>5. ASSUME NEW k \in {"ok", "error"}, Replied(k) PROVE InboxInv'
  <2>1. Reads(k)
    BY <1>5 DEF Replied
  <2>2. UNCHANGED <<reported, ended>> /\ \A t \in Tabs : children'[t] \subseteq children[t]
    BY <1>5, <2>1, ReadsFacts DEF Replied, TypeOK
  <2>3. emitting'.what \notin Children
    BY <1>5, <2>1, ReadsFacts, RoutingAssumption DEF Replied, Nothing, Message, TypeOK
  <2> QED
    BY <2>1, <2>2, <2>3, InboxRead
<1>6. CASE OnChildAttached
  <2>1. Reads("attached")
    BY <1>6 DEF OnChildAttached
  <2>2. \A i \in DOMAIN inbox', x \in Children : Announces(inbox'[i], x) => x # Head(inbox).what
    BY <2>1, ReadsFacts DEF InboxInv, Announces
  <2>3. UNCHANGED <<reported, ended>>
    BY <1>6 DEF OnChildAttached, StoreChild
  <2>4. CASE sessions[Head(inbox).tab] = None
    <3>1. UNCHANGED <<children, emitting>>
      BY <1>6, <2>4 DEF OnChildAttached, StoreChild
    <3>2. emitting'.what \notin Children
      BY <2>1, <3>1, ReadsFacts, RoutingAssumption DEF Nothing, Message
    <3>3. \A t \in Tabs : children'[t] \subseteq children[t]
      BY <3>1
    <3> QED
      BY <2>1, <2>3, <3>2, <3>3, InboxRead
  <2>5. CASE sessions[Head(inbox).tab] # None
    <3>1. emitting' = Head(inbox)
      BY <1>6, <2>5 DEF OnChildAttached, StoreChild
    <3>2. children' = [children EXCEPT ![Head(inbox).tab] = @ \cup {Head(inbox).what}]
      BY <1>6, <2>5 DEF OnChildAttached, StoreChild
    <3>3. \A t \in Tabs : children'[t] \subseteq children[t] \cup {Head(inbox).what}
      BY <3>2 DEF TypeOK
    <3> QED
      BY <2>1, <2>2, <2>3, <3>1, <3>3, InboxTake
  <2> QED
    BY <2>4, <2>5
<1>7. CASE OnChildDetached
  <2>1. Reads("detached")
    BY <1>7 DEF OnChildDetached
  <2>2. \A i \in DOMAIN inbox', x \in Children : Announces(inbox'[i], x) => x # Head(inbox).what
    BY <2>1, ReadsFacts DEF InboxInv, Announces
  <2>3. UNCHANGED <<reported, ended>>
    BY <1>7 DEF OnChildDetached, DropChild
  <2>4. CASE sessions[Head(inbox).tab] = None
    <3>1. UNCHANGED <<children, emitting>>
      BY <1>7, <2>4 DEF OnChildDetached, DropChild
    <3>2. emitting'.what \notin Children
      BY <2>1, <3>1, ReadsFacts, RoutingAssumption DEF Nothing, Message
    <3>3. \A t \in Tabs : children'[t] \subseteq children[t]
      BY <3>1
    <3> QED
      BY <2>1, <2>3, <3>2, <3>3, InboxRead
  <2>5. CASE sessions[Head(inbox).tab] # None
    <3>1. emitting' = Head(inbox)
      BY <1>7, <2>5 DEF OnChildDetached, DropChild
    <3>2. children' = [children EXCEPT ![Head(inbox).tab] = @ \ {Head(inbox).what}]
      BY <1>7, <2>5 DEF OnChildDetached, DropChild
    <3>3. \A t \in Tabs : children'[t] \subseteq children[t] \cup {Head(inbox).what}
      BY <3>2 DEF TypeOK
    <3> QED
      BY <2>1, <2>2, <2>3, <3>1, <3>3, InboxTake
  <2> QED
    BY <2>4, <2>5
<1>8. CASE OnDetach
  <2>1. Reads("removed")
    BY <1>8 DEF OnDetach
  <2>2. UNCHANGED <<reported, ended>> /\ \A t \in Tabs : children'[t] \subseteq children[t]
    BY <1>8, <2>1, ReadsFacts DEF OnDetach, TypeOK
  <2>3. emitting'.what \notin Children
    BY <1>8, <2>1, ReadsFacts, RoutingAssumption DEF OnDetach, Nothing, Message, TypeOK
  <2> QED
    BY <2>1, <2>2, <2>3, InboxRead
<1>9. CASE Emit
  <2>1. /\ UNCHANGED <<inbox, children>> /\ emitting' = Nothing
        /\ reported' \subseteq reported \cup {emitting.what}
        /\ ended' \subseteq ended \cup {emitting.what} \cup reported
    BY <1>9 DEF Emit, Ends
  <2> QED
    BY <2>1, InboxSame
<1>10. ASSUME NEW m \in wire, Execute(m) PROVE InboxInv'
  <2>1. PICK outcome \in {"ok", "error"} : inbox' = Append(inbox, Message(outcome, None, m.by))
    BY <1>10 DEF Execute
  <2>2. Message(outcome, None, m.by) \in Messages /\ Message(outcome, None, m.by).kind \notin {"attached", "detached"}
    BY <1>10 DEF Messages, Message, Commands, TypeOK
  <2>3. UNCHANGED <<reported, ended, children, emitting>>
    BY <1>10 DEF Execute
  <2> QED
    BY <2>1, <2>2, <2>3, InboxSays
<1>11. ASSUME NEW t \in Tabs, Detaches(t) PROVE InboxInv'
  <2>1. Message("removed", t, None) \in Messages
    BY <1>11, RoutingAssumption DEF Detaches, Messages, Events, Message, TypeOK, Named
  <2>2. inbox' = Append(inbox, Message("removed", t, None))
    BY <1>11 DEF Detaches
  <2>3. UNCHANGED <<reported, ended, children, emitting>> /\ Message("removed", t, None).kind \notin {"attached", "detached"}
    BY <1>11 DEF Detaches, Message
  <2> QED
    BY <2>1, <2>2, <2>3, InboxSays
<1>12. ASSUME NEW t \in Tabs, NEW c \in Children, ChildAttaches(t, c) PROVE InboxInv'
  <2>1. Message("attached", t, c) \in Messages
    BY <1>12, RoutingAssumption DEF ChildAttaches, Messages, Events, Message, TypeOK, Named
  <2>2. inbox' = Append(inbox, Message("attached", t, c))
    BY <1>12 DEF ChildAttaches
  <2>3. UNCHANGED <<reported, ended, children, emitting>> /\ home[c] = None
    BY <1>12 DEF ChildAttaches
  <2>4. /\ \A i \in DOMAIN inbox : inbox[i].kind \in {"attached", "detached"} => inbox[i].what # c
        /\ c \notin reported \cup ended /\ emitting.what # c
        /\ \A u \in Tabs : c \notin children[u]
    <3>1. ASSUME NEW i \in DOMAIN inbox, inbox[i].kind \in {"attached", "detached"} PROVE inbox[i].what # c
      <4>1. inbox[i] \in Messages
        BY ElementOfSeq DEF TypeOK
      <4> QED
        BY <2>3, <3>1, <4>1, MessageFacts, RoutingAssumption DEF HomeInv
    <3>2. c \notin reported \cup ended /\ \A u \in Tabs : c \notin children[u]
      BY <2>3, RoutingAssumption DEF HomeInv
    <3>3. emitting.what # c
      BY <2>3, RoutingAssumption DEF HomeInv, TypeOK, Events, Endings, Nothing, Message
    <3> QED
      BY <3>1, <3>2, <3>3
  <2>5. \A i \in DOMAIN inbox' :
           \/ i \in DOMAIN inbox /\ inbox'[i] = inbox[i]
           \/ i = Len(inbox) + 1 /\ inbox'[i].kind = "attached" /\ inbox'[i].what = c
    BY <2>1, <2>2, SaysFacts DEF Message
  <2>6. \A i, j \in DOMAIN inbox', x \in Children :
           Announces(inbox'[i], x) /\ Announces(inbox'[j], x) => i = j
    BY <2>4, <2>5 DEF InboxInv, Announces
  <2>7. \A i, j \in DOMAIN inbox' :
           inbox'[i].kind = "detached" /\ Announces(inbox'[j], inbox'[i].what) => j < i
    BY <2>4, <2>5 DEF InboxInv, Announces
  <2>8. \A i \in DOMAIN inbox', x \in Children : Announces(inbox'[i], x) =>
           x \notin reported \cup ended /\ emitting.what # x /\ \A u \in Tabs : x \notin children[u]
    BY <2>4, <2>5 DEF InboxInv, Announces
  <2> QED
    BY <2>3, <2>6, <2>7, <2>8 DEF InboxInv
<1>13. ASSUME NEW c \in Children, ChildDetaches(c) PROVE InboxInv'
  <2>1. Message("detached", home[c], c) \in Messages
    BY <1>13, RoutingAssumption DEF ChildDetaches, Messages, Events, Message, TypeOK, Named
  <2>2. inbox' = Append(inbox, Message("detached", home[c], c))
    BY <1>13 DEF ChildDetaches
  <2>3. UNCHANGED <<reported, ended, children, emitting>>
    BY <1>13 DEF ChildDetaches
  <2>4. \A i \in DOMAIN inbox' :
           \/ i \in DOMAIN inbox /\ inbox'[i] = inbox[i] /\ i \in Nat /\ i < Len(inbox) + 1
           \/ i = Len(inbox) + 1 /\ inbox'[i].kind = "detached"
    BY <2>1, <2>2, SaysFacts DEF Message
  <2> QED
    BY <2>3, <2>4 DEF InboxInv, Announces
<1>14. ASSUME NEW t \in Tabs, AttachToTarget(t) PROVE InboxInv'
  <2>1. /\ UNCHANGED <<inbox, ended, emitting>> /\ \A u \in Tabs : children'[u] \subseteq children[u]
        /\ reported' \cap Children \subseteq reported
    BY <1>14, RoutingAssumption DEF AttachToTarget, TypeOK
  <2> QED
    BY <2>1, InboxSame
<1>15. CASE UNCHANGED vars
  <2>1. UNCHANGED <<inbox, reported, ended, children, emitting>>
    BY <1>15 DEF vars
  <2> QED
    BY <2>1, InboxSame
<1>16. CASE
         \/ \E r \in Requests : FindAny(r) \/ FindSession(r) \/ FindChild(r) \/ Send(r) \/
                Expires(r) \/ Respond(r)
         \/ \E r \in Requests, x \in Named \cup {None} : Asks(r, x)
  <2>1. UNCHANGED <<inbox, reported, ended, children, emitting>>
    BY <1>16 DEF FindAny, FindSession, FindChild, Send, Expires, Respond, Asks
  <2> QED
    BY <2>1, InboxSame
<1> QED
  BY <1>1, <1>2, <1>3, <1>4, <1>5, <1>6, <1>7, <1>8, <1>9, <1>10, <1>11, <1>12, <1>13, <1>14,
     <1>15, <1>16 DEF Next, Reader, Serve, Chrome, Client


LEMMA ChildInit == Init => ChildInv
  BY RoutingAssumption DEF Init, ChildInv, Nothing, Message

LEMMA ChildNext == TypeOK /\ HomeInv /\ MakingInv /\ InboxInv /\ ChildInv /\ [Next]_vars => ChildInv'
<1> SUFFICES ASSUME TypeOK, HomeInv, MakingInv, InboxInv, ChildInv, [Next]_vars PROVE ChildInv'
  OBVIOUS
<1> USE DEF modelVars, attachVars, requestVars, chromeVars, historyVars
<1>1. ASSUME NEW t \in Tabs, Commit(t) PROVE ChildInv'
  <2>1. /\ UNCHANGED <<emitting, ended, removed>> /\ \A u \in Tabs : children'[u] = children[u]
        /\ reported' \cap Children = reported \cap Children
    BY <1>1, RoutingAssumption DEF Commit, TypeOK, MakingInv
  <2>2. emitting.kind \in {"attached", "removed"} => emitting.tab \in Tabs
    BY DEF TypeOK, Events, Endings, Nothing, Message
  <2> QED
    BY <2>1, <2>2 DEF ChildInv
<1>2. ASSUME NEW t \in Tabs, EmitAttached(t) PROVE ChildInv'
  <2>1. /\ UNCHANGED <<emitting, ended, removed>> /\ \A u \in Tabs : children'[u] = children[u]
        /\ reported' \cap Children = reported \cap Children
    BY <1>2, RoutingAssumption DEF EmitAttached, TypeOK, MakingInv
  <2>2. emitting.kind \in {"attached", "removed"} => emitting.tab \in Tabs
    BY DEF TypeOK, Events, Endings, Nothing, Message
  <2> QED
    BY <2>1, <2>2 DEF ChildInv
<1>3. CASE OnChildAttached
  <2>1. Reads("attached")
    BY <1>3 DEF OnChildAttached
  <2> DEFINE m == Head(inbox)
  <2>2. /\ emitting = Nothing /\ m.kind = "attached" /\ m.tab \in Tabs /\ m.what \in Children
        /\ 1 \in DOMAIN inbox /\ inbox[1] = m
    BY <2>1, ReadsFacts
  <2>3. m.what \notin ended
    BY <2>2 DEF InboxInv, Announces
  <2>4. UNCHANGED <<ended, reported, removed>>
    BY <1>3 DEF OnChildAttached, StoreChild
  <2>5. CASE sessions[m.tab] = None
    <3>1. UNCHANGED <<emitting, children>>
      BY <1>3, <2>5 DEF OnChildAttached, StoreChild
    <3> QED
      BY <2>4, <3>1 DEF ChildInv
  <2>6. CASE sessions[m.tab] # None
    <3>1. emitting' = m /\ children' = [children EXCEPT ![m.tab] = @ \cup {m.what}]
      BY <1>3, <2>6 DEF OnChildAttached, StoreChild
    <3> HIDE DEF m
    <3> QED
      BY <2>2, <2>3, <2>4, <3>1 DEF ChildInv, TypeOK
  <2> QED
    BY <2>5, <2>6
<1>4. CASE OnChildDetached
  <2>1. Reads("detached")
    BY <1>4 DEF OnChildDetached
  <2> DEFINE m == Head(inbox)
  <2>2. /\ emitting = Nothing /\ m.kind = "detached" /\ m.tab \in Tabs /\ m.what \in Children
        /\ 1 \in DOMAIN inbox /\ inbox[1] = m
    BY <2>1, ReadsFacts
  <2>3. \A u \in Tabs : u # m.tab => m.what \notin children[u]
    BY <2>2 DEF HomeInv
  <2>4. UNCHANGED <<ended, reported>>
    BY <1>4 DEF OnChildDetached, DropChild
  <2>5. CASE sessions[m.tab] = None
    <3>1. UNCHANGED <<emitting, children, removed>>
      BY <1>4, <2>5 DEF OnChildDetached, DropChild
    <3> QED
      BY <2>4, <3>1 DEF ChildInv
  <2>6. CASE sessions[m.tab] # None
    <3>1. /\ emitting' = m /\ children' = [children EXCEPT ![m.tab] = @ \ {m.what}]
          /\ removed' = removed \cup {m.what}
      BY <1>4, <2>6 DEF OnChildDetached, DropChild
    <3> HIDE DEF m
    <3> QED
      BY <2>2, <2>3, <2>4, <3>1 DEF ChildInv, TypeOK
  <2> QED
    BY <2>5, <2>6
<1>5. CASE OnDetach
  <2>1. Reads("removed")
    BY <1>5 DEF OnDetach
  <2> DEFINE t == Head(inbox).tab
  <2>2. emitting = Nothing /\ t \in Tabs
    BY <2>1, ReadsFacts
  <2>3. UNCHANGED <<ended, reported>>
    BY <1>5 DEF OnDetach
  <2>4. CASE sessions[t] = None
    <3>1. UNCHANGED <<emitting, children, removed>>
      BY <1>5, <2>4 DEF OnDetach
    <3> QED
      BY <2>3, <3>1 DEF ChildInv
  <2>5. CASE sessions[t] # None
    <3>1. /\ emitting'.kind = "removed" /\ emitting'.tab = t
          /\ children' = [children EXCEPT ![t] = {}]
          /\ removed' = removed \cup {sessions[t]} \cup children[t]
      BY <1>5, <2>5 DEF OnDetach, Message
    <3> HIDE DEF t
    <3> QED
      BY <2>2, <2>3, <3>1 DEF ChildInv, TypeOK
  <2> QED
    BY <2>4, <2>5
<1>6. CASE Emit
  <2>1. emitting' = Nothing /\ UNCHANGED <<children, removed>>
    BY <1>6 DEF Emit
  <2>2. Nothing.kind = "none"
    BY DEF Nothing, Message
  <2>3. CASE emitting.kind = "attached"
    <3>1. UNCHANGED ended /\ reported' = reported \cup {emitting.what}
      BY <1>6, <2>3 DEF Emit
    <3>2. emitting.tab \in Tabs
      BY <2>3 DEF TypeOK, Events, Endings, Nothing, Message
    <3> QED
      BY <2>1, <2>2, <2>3, <3>1, <3>2 DEF ChildInv
  <2>4. CASE emitting.kind # "attached"
    <3>1. UNCHANGED reported /\ ended' = ended \cup Ends(emitting)
      BY <1>6, <2>4 DEF Emit
    <3>2. ASSUME NEW x \in Children \cap Ends(emitting), NEW u \in Tabs PROVE x \notin children[u]
      <4>1. emitting \in Events \cup Endings
        BY <1>6 DEF Emit, TypeOK
      <4>2. CASE emitting.kind = "detached"
        BY <3>2, <4>2 DEF Ends, ChildInv
      <4>3. CASE emitting.kind = "removed"
        <5>1. x # emitting.what /\ emitting.tab \in Tabs
          BY <4>1, <4>3, RoutingAssumption DEF Events, Endings
        <5>2. home[x] = emitting.tab
          BY <4>3, <5>1 DEF Ends
        <5> QED
          BY <4>3, <5>1, <5>2 DEF ChildInv, HomeInv
      <4> QED
        BY <2>4, <4>1, <4>2, <4>3 DEF Events, Endings
    <3>3. None \notin Ends(emitting)
      BY <1>6, RoutingAssumption DEF Ends, Emit, TypeOK, Events, Endings
    <3> QED
      BY <2>1, <2>2, <3>1, <3>2, <3>3 DEF ChildInv
  <2> QED
    BY <2>3, <2>4
<1>7. ASSUME NEW t \in Tabs, AttachToTarget(t) PROVE ChildInv'
  <2>1. /\ UNCHANGED <<emitting, ended, removed>> /\ \A u \in Tabs : children'[u] = children[u]
        /\ reported' \cap Children = reported \cap Children
    BY <1>7, RoutingAssumption DEF AttachToTarget, TypeOK, MakingInv
  <2>2. emitting.kind \in {"attached", "removed"} => emitting.tab \in Tabs
    BY DEF TypeOK, Events, Endings, Nothing, Message
  <2> QED
    BY <2>1, <2>2 DEF ChildInv
<1>8. CASE UNCHANGED vars
  <2>1. UNCHANGED <<emitting, children, ended, reported, removed>>
    BY <1>8 DEF vars
  <2> QED
    BY <2>1 DEF ChildInv
<1>9. CASE
         \/ \E t \in Tabs : Attach(t) \/ Detaches(t)
         \/ AttachAnswered
         \/ \E k \in {"ok", "error"} : Replied(k)
         \/ \E r \in Requests : FindAny(r) \/ FindSession(r) \/ FindChild(r) \/ Send(r) \/
                Expires(r) \/ Respond(r)
         \/ \E r \in Requests, x \in Named \cup {None} : Asks(r, x)
         \/ \E t \in Tabs, c \in Children : ChildAttaches(t, c)
         \/ \E c \in Children : ChildDetaches(c)
         \/ \E m \in wire : Execute(m)
  <2>1. UNCHANGED <<emitting, children, ended, reported, removed>>
    BY <1>9 DEF Attach, Detaches, AttachAnswered, Replied, FindAny, FindSession, FindChild, Send,
       Expires, Respond, Asks, ChildAttaches, ChildDetaches, Execute
  <2> QED
    BY <2>1 DEF ChildInv
<1> QED
  BY <1>1, <1>2, <1>3, <1>4, <1>5, <1>6, <1>7, <1>8, <1>9 DEF Next, Reader, Serve, Chrome, Client


(***************************************************************************)
(* The sessions of the tabs.                                               *)
(***************************************************************************)
LEMMA SessionInit == Init => SessionInv
  BY RoutingAssumption DEF Init, SessionInv, Ids, Nothing, Message

LEMMA SessionNext == TypeOK /\ HomeInv /\ MakingInv /\ SessionInv /\ [Next]_vars => SessionInv'
<1> SUFFICES ASSUME TypeOK, HomeInv, MakingInv, SessionInv, [Next]_vars PROVE SessionInv'
  OBVIOUS
<1> USE DEF modelVars, attachVars, requestVars, chromeVars, historyVars
<1>1. ASSUME NEW t \in Tabs, Attach(t) PROVE SessionInv'
  <2>1. UNCHANGED <<emitting, sessions, sid, nextID, ended, reported, removed>> /\ making' = [making EXCEPT ![t] = "asked"]
    BY <1>1 DEF Attach
  <2> QED
    BY <2>1 DEF SessionInv, TypeOK
<1>2. ASSUME NEW t \in Tabs, Commit(t) PROVE SessionInv'
  <2>1. /\ UNCHANGED <<emitting, sid, nextID, ended, reported, removed>>
        /\ making[t] = "commit" /\ making' = [making EXCEPT ![t] = "emit"]
        /\ sessions' = [sessions EXCEPT ![t] = sid[t]]
    BY <1>2 DEF Commit
  <2>2. sessions[t] = None /\ sid[t] \in Nat /\ sid[t] < nextID /\ sid[t] \notin removed \cap Ids
    BY <2>1 DEF MakingInv, SessionInv
  <2>3. \A u \in Tabs : u # t /\ sid[u] \in Ids => sid[u] # sid[t]
    BY DEF HomeInv
  <2>4. \A u \in Tabs : making'[u] = "commit" =>
          sid[u] \in Nat /\ sid[u] < nextID /\ (sid[u] \in Ids => sid[u] \notin removed /\ \A v \in Tabs : sessions'[v] # sid[u])
    BY <2>1, <2>3 DEF SessionInv, TypeOK
  <2>5. \A u \in Tabs : making'[u] = "emit" /\ sid[u] \in Ids => sessions'[u] = sid[u] \/ sid[u] \in removed
    BY <2>1 DEF SessionInv, TypeOK
  <2>6. \A x \in Ids \cap removed : \A u \in Tabs : sessions'[u] # x
    BY <2>1, <2>2 DEF SessionInv, TypeOK
  <2>7. \A x \in Ids, u \in Tabs : sessions[u] = x => sessions'[u] = x
    BY <2>1, <2>2, RoutingAssumption DEF TypeOK, Ids
  <2> QED
    BY <2>1, <2>2, <2>4, <2>5, <2>6, <2>7 DEF SessionInv, TypeOK
<1>3. ASSUME NEW t \in Tabs, EmitAttached(t) PROVE SessionInv'
  <2>1. /\ UNCHANGED <<emitting, sessions, nextID, ended, removed>>
        /\ making[t] = "emit" /\ making' = [making EXCEPT ![t] = "no"]
        /\ sid' = [sid EXCEPT ![t] = None] /\ reported' = reported \cup {sid[t]}
    BY <1>3 DEF EmitAttached
  <2>2. sid[t] \in Ids => sid[t] < nextID /\ (sid[t] \in removed \/ sessions[t] = sid[t])
    BY <2>1 DEF SessionInv, Ids
  <2> QED
    BY <2>1, <2>2 DEF SessionInv, TypeOK
<1>4. CASE AttachAnswered
  <2>1. Reads("answer")
    BY <1>4 DEF AttachAnswered
  <2> DEFINE t == Head(inbox).tab
  <2>2. t \in Tabs /\ nextID \in Nat
    BY <2>1, ReadsFacts DEF TypeOK
  <2>3. /\ UNCHANGED <<emitting, sessions, ended, reported, removed>> /\ nextID' = nextID + 1
        /\ making' = [making EXCEPT ![t] = "commit"] /\ sid' = [sid EXCEPT ![t] = nextID]
    BY <1>4 DEF AttachAnswered, NewSession
  <2>4. (nextID \in Ids => nextID \notin removed) /\ \A u \in Tabs : sessions[u] # nextID
    BY <2>2 DEF SessionInv
  <2> HIDE DEF t
  <2>5. \A u \in Tabs : sessions[u] \in Nat => sessions[u] < nextID + 1
    BY <2>2 DEF SessionInv
  <2>6. \A x \in Ids : x < nextID => x < nextID + 1
    BY <2>2 DEF Ids
  <2>7. \A u \in Tabs : making'[u] = "commit" =>
          sid'[u] \in Nat /\ sid'[u] < nextID + 1 /\ (sid'[u] \in Ids => sid'[u] \notin removed /\ \A v \in Tabs : sessions[v] # sid'[u])
    BY <2>2, <2>3, <2>4 DEF SessionInv, TypeOK
  <2> QED
    BY <2>2, <2>3, <2>5, <2>6, <2>7 DEF SessionInv, TypeOK
<1>5. CASE OnChildAttached
  <2>1. Reads("attached")
    BY <1>5 DEF OnChildAttached
  <2>2. UNCHANGED <<sessions, making, sid, nextID, ended, reported, removed>>
    BY <1>5 DEF OnChildAttached, StoreChild
  <2>3. emitting'.kind # "removed"
    BY <1>5, <2>1, ReadsFacts DEF OnChildAttached, StoreChild, Nothing, Message
  <2> QED
    BY <2>2, <2>3 DEF SessionInv
<1>6. CASE OnChildDetached
  <2>1. Reads("detached")
    BY <1>6 DEF OnChildDetached
  <2>2. UNCHANGED <<sessions, making, sid, nextID, ended, reported>>
    BY <1>6 DEF OnChildDetached, DropChild
  <2>3. emitting'.kind # "removed"
    BY <1>6, <2>1, ReadsFacts DEF OnChildDetached, DropChild, Nothing, Message
  <2>4. removed \subseteq removed' /\ Ids \cap removed' \subseteq removed
    BY <1>6, <2>1, ReadsFacts, RoutingAssumption DEF OnChildDetached, DropChild, Ids
  <2> QED
    BY <2>2, <2>3, <2>4 DEF SessionInv
<1>7. CASE OnDetach
  <2>1. Reads("removed")
    BY <1>7 DEF OnDetach
  <2> DEFINE t == Head(inbox).tab
  <2>2. emitting = Nothing /\ t \in Tabs
    BY <2>1, ReadsFacts
  <2>3. UNCHANGED <<making, sid, nextID, ended, reported>>
    BY <1>7 DEF OnDetach
  <2>4. CASE sessions[t] = None
    <3>1. UNCHANGED <<emitting, sessions, removed>>
      BY <1>7, <2>4 DEF OnDetach
    <3> QED
      BY <2>3, <3>1 DEF SessionInv
  <2>5. CASE sessions[t] # None
    <3>1. /\ sessions' = [sessions EXCEPT ![t] = None] /\ emitting'.what = sessions[t]
          /\ removed' = removed \cup {sessions[t]} \cup children[t]
      BY <1>7, <2>5 DEF OnDetach, Message
    <3> HIDE DEF t
    <3>2. sessions[t] \in Nat /\ sessions[t] < nextID
      BY <2>2, <2>5 DEF SessionInv, TypeOK
    <3>3. \A x \in Ids : x \in removed' <=> x \in removed \/ x = sessions[t]
      BY <2>2, <3>1, RoutingAssumption DEF TypeOK, Ids
    <3>4. \A u \in Tabs : sessions'[u] = IF u = t THEN None ELSE sessions[u]
      BY <2>2, <3>1 DEF TypeOK
    <3>5. sessions[t] \in Ids => \A u \in Tabs : u # t => sessions[u] # sessions[t]
      BY <2>2 DEF HomeInv
    <3>6. \A u \in Tabs : making[u] = "commit" /\ sid[u] \in Ids => sid[u] \notin removed' /\ \A v \in Tabs : sessions'[v] # sid[u]
      BY <2>2, <3>3, <3>4, RoutingAssumption DEF SessionInv, Ids
    <3>7. \A u \in Tabs : making[u] = "emit" /\ sid[u] \in Ids => sessions'[u] = sid[u] \/ sid[u] \in removed'
      BY <3>3, <3>4 DEF SessionInv
    <3>8. \A x \in Ids \cap removed' : x < nextID /\ \A u \in Tabs : sessions'[u] # x
      BY <2>2, <3>2, <3>3, <3>4, <3>5, RoutingAssumption DEF SessionInv, Ids
    <3>9. \A x \in Ids \cap reported : x < nextID /\ (x \in removed' \/ \E u \in Tabs : sessions'[u] = x)
      BY <2>2, <3>3, <3>4 DEF SessionInv
    <3>10. \A u \in Tabs : sessions'[u] \in Nat => sessions'[u] < nextID
      BY <3>4, RoutingAssumption DEF SessionInv
    <3>11. Ids \cap ended \subseteq removed' /\ emitting'.what \in removed'
      BY <3>1 DEF SessionInv
    <3> QED
      BY <2>3, <3>6, <3>7, <3>8, <3>9, <3>10, <3>11 DEF SessionInv
  <2> QED
    BY <2>4, <2>5
<1>8. CASE Emit
  <2>1. UNCHANGED <<sessions, making, sid, nextID, removed>> /\ emitting'.kind = "none"
    BY <1>8 DEF Emit, Nothing, Message
  <2>2. Ids \cap reported' \subseteq reported
    BY <1>8, RoutingAssumption DEF Emit, TypeOK, Events, Endings, Nothing, Message, Ids
  <2>3. Ids \cap ended' \subseteq ended \cup removed
    <3>1. emitting \in Events \cup Endings
      BY <1>8 DEF Emit, TypeOK
    <3>2. emitting.kind # "removed" => emitting.what \in Children
      BY <3>1 DEF Events, Endings
    <3>3. Ids \cap Ends(emitting) \subseteq removed
      BY <3>2, RoutingAssumption DEF Ends, SessionInv, Ids
    <3> QED
      BY <1>8, <3>3 DEF Emit
  <2> QED
    BY <2>1, <2>2, <2>3 DEF SessionInv
<1>9. ASSUME NEW t \in Tabs, AttachToTarget(t) PROVE SessionInv'
  <2>1. UNCHANGED <<emitting, sessions, making, sid, nextID, ended, removed>> /\ reported' = reported \cup {sessions[t]}
    BY <1>9 DEF AttachToTarget
  <2> QED
    BY <2>1 DEF SessionInv, Ids
<1>10. CASE UNCHANGED vars
  <2>1. UNCHANGED <<emitting, sessions, making, sid, nextID, ended, reported, removed>>
    BY <1>10 DEF vars
  <2> QED
    BY <2>1 DEF SessionInv
<1>11. CASE
         \/ \E t \in Tabs : Detaches(t)
         \/ \E k \in {"ok", "error"} : Replied(k)
         \/ \E r \in Requests : FindAny(r) \/ FindSession(r) \/ FindChild(r) \/ Send(r) \/
                Expires(r) \/ Respond(r)
         \/ \E r \in Requests, x \in Named \cup {None} : Asks(r, x)
         \/ \E t \in Tabs, c \in Children : ChildAttaches(t, c)
         \/ \E c \in Children : ChildDetaches(c)
         \/ \E m \in wire : Execute(m)
  <2>1. UNCHANGED <<emitting, sessions, making, sid, nextID, ended, reported, removed>>
    BY <1>11 DEF Detaches, Replied, FindAny, FindSession, FindChild, Send, Expires, Respond, Asks,
       ChildAttaches, ChildDetaches, Execute
  <2> QED
    BY <2>1 DEF SessionInv
<1> QED
  BY <1>1, <1>2, <1>3, <1>4, <1>5, <1>6, <1>7, <1>8, <1>9, <1>10, <1>11 DEF Next, Reader, Serve,
     Chrome, Client


(***************************************************************************)
(* EndedSessionsRefuse and ReportedSessionsServe.                          *)
(***************************************************************************)
LEMMA RequestInit == Init => RequestInv
  BY RoutingAssumption
  DEF Init, RequestInv, EndedSessionsRefuse, ReportedSessionsServe, Named, Ids

\* Other steps only add to what has been reported, ended and removed.
LEMMA RequestSame ==
    ASSUME RequestInv, UNCHANGED <<pc, names, result, late>>,
           reported \subseteq reported', ended \subseteq ended', removed \subseteq removed'
    PROVE  RequestInv'
  BY DEF RequestInv, EndedSessionsRefuse, ReportedSessionsServe

LEMMA RequestNext == TypeOK /\ HomeInv /\ ChildInv /\ SessionInv /\ RequestInv /\ [Next]_vars => RequestInv'
<1> SUFFICES ASSUME TypeOK, HomeInv, ChildInv, SessionInv, RequestInv, [Next]_vars PROVE RequestInv'
  OBVIOUS
<1> USE DEF modelVars, attachVars, requestVars, chromeVars, historyVars
<1>1. ASSUME NEW t \in Tabs, EmitAttached(t) PROVE RequestInv'
  <2>1. /\ UNCHANGED <<pc, names, result, late>> /\ reported \subseteq reported'
        /\ ended \subseteq ended' /\ removed \subseteq removed'
    BY <1>1 DEF EmitAttached
  <2> QED
    BY <2>1, RequestSame
<1>2. ASSUME NEW k \in {"ok", "error"}, Replied(k) PROVE RequestInv'
  <2>1. Reads(k)
    BY <1>2 DEF Replied
  <2> DEFINE r == Head(inbox).what
  <2>2. r \in Requests
    BY <2>1, ReadsFacts
  <2>3. UNCHANGED <<names, late, reported, ended, removed>>
    BY <1>2 DEF Replied
  <2>4. CASE pc[r] = "sent"
    <3>1. pc' = [pc EXCEPT ![r] = "write"] /\ result' = [result EXCEPT ![r] = k]
      BY <1>2, <2>4 DEF Replied
    <3> HIDE DEF r
    <3>2. r \notin late
      BY <2>4 DEF RequestInv, EndedSessionsRefuse
    <3> QED
      BY <2>2, <2>3, <3>1, <3>2 DEF RequestInv, EndedSessionsRefuse, ReportedSessionsServe, TypeOK
  <2>5. CASE pc[r] # "sent"
    <3>1. UNCHANGED <<pc, result>>
      BY <1>2, <2>5 DEF Replied
    <3> QED
      BY <2>3, <3>1, RequestSame
  <2> QED
    BY <2>4, <2>5
<1>3. CASE OnChildDetached
  <2>1. Reads("detached")
    BY <1>3 DEF OnChildDetached
  <2>2. /\ UNCHANGED <<pc, names, result, late>> /\ reported \subseteq reported'
        /\ ended \subseteq ended' /\ removed \subseteq removed'
    BY <1>3 DEF OnChildDetached, DropChild
  <2> QED
    BY <2>2, RequestSame
<1>4. CASE OnDetach
  <2>1. Reads("removed")
    BY <1>4 DEF OnDetach
  <2>2. /\ UNCHANGED <<pc, names, result, late>> /\ reported \subseteq reported'
        /\ ended \subseteq ended' /\ removed \subseteq removed'
    BY <1>4 DEF OnDetach
  <2> QED
    BY <2>2, RequestSame
<1>5. CASE Emit
  <2>1. /\ UNCHANGED <<pc, names, result, late>> /\ reported \subseteq reported'
        /\ ended \subseteq ended' /\ removed \subseteq removed'
    BY <1>5 DEF Emit, Ends
  <2> QED
    BY <2>1, RequestSame
<1>6. ASSUME NEW r \in Requests, FindAny(r) PROVE RequestInv'
  <2>1. names[r] \notin Named /\ r \notin late
    BY <1>6, RoutingAssumption DEF FindAny, Named, Ids, RequestInv
  <2>2. UNCHANGED <<names, late, reported, ended, removed>>
    BY <1>6 DEF FindAny
  <2>3. /\ \A q \in Requests : q # r => pc'[q] = pc[q] /\ result'[q] = result[q]
        /\ pc'[r] \in {"send", "write"}
    BY <1>6 DEF FindAny, Finds, Refuses, TypeOK
  <2> QED
    BY <2>1, <2>2, <2>3 DEF RequestInv, EndedSessionsRefuse, ReportedSessionsServe
<1>7. ASSUME NEW r \in Requests, FindSession(r) PROVE RequestInv'
  <2>1. UNCHANGED <<names, late, result, reported, ended, removed>> /\ names[r] \in Named /\ pc[r] = "find"
    BY <1>7 DEF FindSession
  <2>2. names[r] \in reported /\ result[r] = "none"
    BY <2>1 DEF RequestInv
  <2>3. CASE \E t \in Tabs : sessions[t] = names[r] /\ Finds(r, t, None)
    <3>1. PICK t \in Tabs : sessions[t] = names[r] /\ Finds(r, t, None)
      BY <2>3
    <3>2. pc' = [pc EXCEPT ![r] = "send"]
      BY <3>1 DEF Finds
    <3>3. names[r] \in Ids
      BY <2>1, <3>1, RoutingAssumption DEF TypeOK, Named
    <3>4. r \notin late
      BY <3>1, <3>3 DEF RequestInv, SessionInv
    <3> QED
      BY <2>1, <3>2, <3>4 DEF RequestInv, EndedSessionsRefuse, ReportedSessionsServe, TypeOK
  <2>4. CASE (\A t \in Tabs : sessions[t] # names[r]) /\ pc' = [pc EXCEPT ![r] = "child"]
    <3>1. names[r] \in Ids => names[r] \in removed
      BY <2>2, <2>4 DEF SessionInv
    <3> QED
      BY <2>1, <2>2, <2>4, <3>1 DEF RequestInv, EndedSessionsRefuse, ReportedSessionsServe, TypeOK
  <2> QED
    BY <1>7, <2>3, <2>4 DEF FindSession
<1>8. ASSUME NEW r \in Requests, FindChild(r) PROVE RequestInv'
  <2>1. UNCHANGED <<names, late, reported, ended, removed>> /\ pc[r] = "child"
    BY <1>8 DEF FindChild
  <2>2. names[r] \in Named /\ names[r] \in reported /\ (names[r] \in Ids => names[r] \in removed)
    BY <2>1 DEF RequestInv
  <2>3. CASE \E t \in Tabs : names[r] \in children[t] /\ Finds(r, t, names[r]) /\ UNCHANGED result
    <3>1. PICK t \in Tabs : names[r] \in children[t] /\ Finds(r, t, names[r]) /\ UNCHANGED result
      BY <2>3
    <3>2. pc' = [pc EXCEPT ![r] = "send"] /\ UNCHANGED result
      BY <3>1 DEF Finds
    <3>3. r \notin late
      BY <3>1 DEF RequestInv, ChildInv, TypeOK
    <3> QED
      BY <2>1, <3>2, <3>3 DEF RequestInv, EndedSessionsRefuse, ReportedSessionsServe, TypeOK
  <2>4. CASE (\A t \in Tabs : names[r] \notin children[t]) /\ Refuses(r)
    <3>1. pc' = [pc EXCEPT ![r] = "write"] /\ result' = [result EXCEPT ![r] = "refused"]
      BY <2>4 DEF Refuses
    <3>2. names[r] \in removed
      BY <2>2, <2>4 DEF ChildInv, Named
    <3> QED
      BY <2>1, <3>1, <3>2 DEF RequestInv, EndedSessionsRefuse, ReportedSessionsServe, TypeOK
  <2> QED
    BY <1>8, <2>3, <2>4 DEF FindChild
<1>9. ASSUME NEW r \in Requests, Send(r) PROVE RequestInv'
  <2>1. /\ UNCHANGED <<names, late, result, reported, ended, removed>>
        /\ pc[r] = "send" /\ pc' = [pc EXCEPT ![r] = "sent"]
    BY <1>9 DEF Send, At, Command
  <2> QED
    BY <2>1 DEF RequestInv, EndedSessionsRefuse, ReportedSessionsServe, TypeOK
<1>10. ASSUME NEW r \in Requests, Expires(r) PROVE RequestInv'
  <2>1. /\ UNCHANGED <<names, late, reported, ended, removed>> /\ pc[r] \in {"send", "sent"}
        /\ pc' = [pc EXCEPT ![r] = "write"] /\ result' = [result EXCEPT ![r] = "expired"]
    BY <1>10 DEF Expires, At
  <2> QED
    BY <2>1 DEF RequestInv, EndedSessionsRefuse, ReportedSessionsServe, TypeOK
<1>11. ASSUME NEW r \in Requests, Respond(r) PROVE RequestInv'
  <2>1. /\ UNCHANGED <<reported, ended, removed>> /\ late' = late \ {r}
        /\ pc' = [pc EXCEPT ![r] = "done"] /\ result' = [result EXCEPT ![r] = "none"]
        /\ names' = [names EXCEPT ![r] = None]
    BY <1>11 DEF Respond, At
  <2> QED
    BY <2>1 DEF RequestInv, EndedSessionsRefuse, ReportedSessionsServe, TypeOK
<1>12. ASSUME NEW r \in Requests, NEW x \in Named \cup {None}, Asks(r, x) PROVE RequestInv'
  <2>1. /\ UNCHANGED <<result, reported, ended, removed>>
        /\ pc[r] = "idle" /\ pc' = [pc EXCEPT ![r] = "find"] /\ x \in reported \cup {None}
        /\ names' = [names EXCEPT ![r] = x] /\ late' = IF x \in ended THEN late \cup {r} ELSE late
    BY <1>12 DEF Asks, At
  <2>2. None \notin Named /\ result[r] = "none" /\ r \notin late
    BY <2>1, RoutingAssumption DEF Named, Ids, RequestInv
  <2>3. x \in ended => x \in Named
    BY DEF ChildInv
  <2> QED
    BY <2>1, <2>2, <2>3 DEF RequestInv, EndedSessionsRefuse, ReportedSessionsServe, TypeOK
<1>13. ASSUME NEW t \in Tabs, AttachToTarget(t) PROVE RequestInv'
  <2>1. /\ UNCHANGED <<pc, names, result, late>> /\ reported \subseteq reported'
        /\ ended \subseteq ended' /\ removed \subseteq removed'
    BY <1>13 DEF AttachToTarget
  <2> QED
    BY <2>1, RequestSame
<1>14. CASE UNCHANGED vars
  <2>1. UNCHANGED <<pc, names, result, late, reported, ended, removed>>
    BY <1>14 DEF vars
  <2> QED
    BY <2>1, RequestSame
<1>15. CASE
         \/ \E t \in Tabs : Attach(t) \/ Commit(t) \/ Detaches(t)
         \/ AttachAnswered
         \/ OnChildAttached
         \/ \E m \in wire : Execute(m)
         \/ \E t \in Tabs, c \in Children : ChildAttaches(t, c)
         \/ \E c \in Children : ChildDetaches(c)
  <2>1. UNCHANGED <<pc, names, result, late, reported, ended, removed>>
    BY <1>15 DEF Attach, Commit, AttachAnswered, OnChildAttached, Execute, Detaches,
       ChildAttaches, ChildDetaches
  <2> QED
    BY <2>1, RequestSame
<1> QED
  BY <1>1, <1>2, <1>3, <1>4, <1>5, <1>6, <1>7, <1>8, <1>9, <1>10, <1>11, <1>12, <1>13, <1>14,
     <1>15 DEF Next, Reader, Serve, Chrome, Client


(***************************************************************************)
(* EventsBeforeReply: counting the events ahead of a reply.                *)
(***************************************************************************)
LEMMA BeforeFinite ==
    ASSUME NEW s, NEW i \in Nat
    PROVE  IsFiniteSet(Before(s, i)) /\ Cardinality(Before(s, i)) \in Nat
<1>1. Before(s, i) \in SUBSET (1 .. (i - 1)) /\ i - 1 \in Int /\ 1 \in Int
  BY DEF Before
<1>2. IsFiniteSet(1 .. (i - 1))
  BY <1>1, FS_Interval
<1>3. IsFiniteSet(Before(s, i))
  BY <1>1, <1>2, FS_Subset
<1> QED
  BY <1>3, FS_CardinalityType

\* When the first message is taken, one event fewer is ahead, if it was one.
LEMMA BeforeTail ==
    ASSUME NEW s \in Seq(Messages), s # <<>>, NEW i \in DOMAIN Tail(s)
    PROVE  Cardinality(Before(s, i + 1)) =
             Cardinality(Before(Tail(s), i)) + (IF IsEvent(Head(s)) THEN 1 ELSE 0)
<1> DEFINE T == Tail(s)
           B == Before(T, i)
           C == Before(s, i + 1)
           D == C \ {1}
           F == [j \in B |-> j + 1]
<1>1. /\ Len(T) = Len(s) - 1 /\ Len(s) \in Nat /\ Len(s) > 0
      /\ \A j \in 1 .. Len(T) : T[j] = s[j + 1]
      /\ DOMAIN T = 1 .. Len(T) /\ Head(s) = s[1]
  BY HeadTailProperties, EmptySeq
<1>2. i \in Nat /\ i >= 1 /\ i <= Len(T)
  BY <1>1
<1> HIDE DEF T
<1>3. B = {j \in 1 .. (i - 1) : IsEvent(s[j + 1])}
  BY <1>1, <1>2 DEF Before
<1>4. D = {k \in 2 .. i : IsEvent(s[k])}
  BY <1>2 DEF Before
<1>5. F \in [B -> D] /\ \A a, b \in B : F[a] = F[b] => a = b
  <2>1. \A j \in B : j \in Int /\ j + 1 \in D
    BY <1>2, <1>3, <1>4
  <2> HIDE DEF B, D
  <2> QED
    BY <2>1
<1>6. \A k \in D : \E j \in B : F[j] = k
  <2> TAKE k \in D
  <2>1. k - 1 \in B /\ (k - 1) + 1 = k
    BY <1>2, <1>3, <1>4
  <2> HIDE DEF B, D
  <2> QED
    BY <2>1
<1>7. ExistsBijection(B, D)
  <2> HIDE DEF B, D, F
  <2>1. F \in Bijection(B, D)
    BY <1>5, <1>6, Fun_IsBij
  <2> QED
    BY <2>1, Fun_ExistsBij
<1>8. IsFiniteSet(B) /\ IsFiniteSet(C) /\ Cardinality(B) \in Nat /\ Cardinality(C) \in Nat
  BY <1>2, BeforeFinite
<1>9. Cardinality(D) = Cardinality(B)
  <2> HIDE DEF B, D
  <2> QED
    BY <1>7, <1>8, FS_Bijection
<1>10. 1 \in C <=> IsEvent(Head(s))
  BY <1>1, <1>2 DEF Before
<1>11. Cardinality(D) = IF 1 \in C THEN Cardinality(C) - 1 ELSE Cardinality(C)
  <2> HIDE DEF C
  <2> QED
    BY <1>8, FS_RemoveElement
<1> HIDE DEF B, C, D
<1>12. Cardinality(C) = Cardinality(B) + (IF IsEvent(Head(s)) THEN 1 ELSE 0)
  BY <1>8, <1>9, <1>10, <1>11
<1> QED
  BY <1>12 DEF B, C, T

\* What is sent behind a message leaves those ahead of it as they are.
LEMMA BeforeAppend ==
    ASSUME NEW s \in Seq(Messages), NEW m \in Messages, NEW i \in 1 .. (Len(s) + 1)
    PROVE  Before(Append(s, m), i) = Before(s, i)
<1>1. \A j \in 1 .. Len(s) : Append(s, m)[j] = s[j]
  BY AppendProperties
<1>2. Len(s) \in Nat
  OBVIOUS
<1> QED
  BY <1>1, <1>2 DEF Before

LEMMA AheadInit == Init => AheadInv
  BY DEF Init, AheadInv, EventsBeforeReply

\* A message that is not a reply is sent.
LEMMA AheadSays ==
    ASSUME TypeOK, AheadInv, NEW m \in Messages, inbox' = Append(inbox, m), ~IsReply(m),
           UNCHANGED <<pc, wire, ahead, result, emitting>>
    PROVE  AheadInv'
<1>1. inbox \in Seq(Messages)
  BY DEF TypeOK
<1>2. /\ \A i \in DOMAIN inbox' :
            \/ i \in DOMAIN inbox /\ inbox'[i] = inbox[i]
            \/ i = Len(inbox) + 1 /\ inbox'[i] = m
      /\ \A i \in DOMAIN inbox : i \in Nat /\ i < Len(inbox) + 1
      /\ Len(inbox) \in Nat
  BY SaysFacts
<1>3. \A i \in DOMAIN inbox : i \in 1 .. (Len(inbox) + 1)
  BY <1>1
<1>4. \A i \in DOMAIN inbox : Before(inbox', i) = Before(inbox, i)
  BY <1>1, <1>3, BeforeAppend
<1>5. \A i \in DOMAIN inbox' : IsReply(inbox'[i]) => i \in DOMAIN inbox /\ inbox'[i] = inbox[i]
  BY <1>2
<1>6. Writing' = Writing
  BY DEF Writing
<1> QED
  BY <1>4, <1>5, <1>6 DEF AheadInv, EventsBeforeReply

\* The reader takes a message that is not a reply: one event fewer is ahead, and is
\* now being written, or counts as written.
LEMMA AheadReads ==
    ASSUME TypeOK, AheadInv, NEW kind, Reads(kind), ~IsReply(Head(inbox)),
           UNCHANGED <<pc, wire, result>>,
           \/ ~IsEvent(Head(inbox)) /\ UNCHANGED <<ahead, emitting>>
           \/ emitting' # Nothing /\ UNCHANGED ahead
           \/ IsEvent(Head(inbox)) /\ Written /\ UNCHANGED emitting
    PROVE  AheadInv'
<1>1. inbox \in Seq(Messages) /\ inbox # <<>> /\ inbox' = Tail(inbox) /\ emitting = Nothing
  BY DEF TypeOK, Reads
<1>2. \A i \in DOMAIN inbox' : i \in Nat /\ i + 1 \in DOMAIN inbox /\ i + 1 # 1 /\ inbox'[i] = inbox[i + 1]
  BY ReadsFacts
<1>3. \A i \in DOMAIN inbox' : Cardinality(Before(inbox, i + 1)) =
          Cardinality(Before(inbox', i)) + (IF IsEvent(Head(inbox)) THEN 1 ELSE 0)
  BY <1>1, BeforeTail
<1>4. \A i \in DOMAIN inbox' : Cardinality(Before(inbox', i)) \in Nat
  BY <1>2, BeforeFinite
<1>5. Writing = 0 /\ Writing' = (IF emitting' = Nothing THEN 0 ELSE 1)
  BY <1>1 DEF Writing
<1>6. \A r \in Requests : ahead[r] \in Nat
  BY DEF AheadInv
<1>7. /\ ahead' \in [Requests -> Nat]
      /\ \A r \in Requests : ahead[r] = 0 => ahead'[r] = 0
      /\ \A r \in Requests : \A n \in Nat :
            ahead[r] <= n + (IF IsEvent(Head(inbox)) THEN 1 ELSE 0) => ahead'[r] <= n + Writing'
  <2>1. CASE ~IsEvent(Head(inbox)) /\ UNCHANGED <<ahead, emitting>>
    BY <1>1, <1>5, <1>6, <2>1 DEF AheadInv
  <2>2. CASE emitting' # Nothing /\ UNCHANGED ahead
    BY <1>5, <1>6, <2>2 DEF AheadInv
  <2>3. CASE IsEvent(Head(inbox)) /\ Written /\ UNCHANGED emitting
    <3>1. \A r \in Requests : ahead'[r] = (IF ahead[r] = 0 THEN 0 ELSE ahead[r] - 1) /\ ahead'[r] \in Nat
      BY <1>6, <2>3 DEF Written
    <3>2. ahead' \in [Requests -> Nat]
      BY <1>6, <2>3 DEF Written
    <3> QED
      BY <1>1, <1>5, <1>6, <2>3, <3>1, <3>2
  <2> QED
    BY <2>1, <2>2, <2>3
<1>8. \A i \in DOMAIN inbox' : IsReply(inbox'[i]) => inbox'[i].what \in Requests
  <2>1. inbox' \in Seq(Messages)
    BY ReadsFacts
  <2>2. \A i \in DOMAIN inbox' : inbox'[i] \in Messages
    BY <2>1
  <2> QED
    BY <2>2, MessageFacts DEF IsReply
<1>9. \A i \in DOMAIN inbox' : IsReply(inbox'[i]) /\ pc[inbox'[i].what] = "sent" =>
          ahead'[inbox'[i].what] <= Cardinality(Before(inbox', i)) + Writing'
  <2> SUFFICES ASSUME NEW i \in DOMAIN inbox', IsReply(inbox'[i]), pc[inbox'[i].what] = "sent"
               PROVE  ahead'[inbox'[i].what] <= Cardinality(Before(inbox', i)) + Writing'
    OBVIOUS
  <2> DEFINE r == inbox'[i].what
             n == Cardinality(Before(inbox', i))
             e == IF IsEvent(Head(inbox)) THEN 1 ELSE 0
  <2>1. i + 1 \in DOMAIN inbox /\ inbox'[i] = inbox[i + 1] /\ r \in Requests /\ n \in Nat
    BY <1>2, <1>4, <1>8
  <2>2. ahead[r] <= Cardinality(Before(inbox, i + 1)) + Writing
    BY <2>1 DEF AheadInv
  <2>3. Cardinality(Before(inbox, i + 1)) = n + e
    BY <1>3
  <2> HIDE DEF n, r
  <2>4. e \in {0, 1}
    OBVIOUS
  <2>5. ahead[r] <= n + e
    BY <1>5, <2>1, <2>2, <2>3, <2>4
  <2>6. ahead'[r] <= n + Writing'
    BY <1>7, <2>1, <2>5
  <2> QED
    BY <2>6 DEF n, r
<1>10. EventsBeforeReply'
  BY <1>7 DEF AheadInv, EventsBeforeReply
<1>11. \A i, j \in DOMAIN inbox' :
          IsReply(inbox'[i]) /\ IsReply(inbox'[j]) /\ inbox'[i].what = inbox'[j].what => i = j
  BY <1>2 DEF AheadInv
<1>12. \A i \in DOMAIN inbox' : IsReply(inbox'[i]) =>
          /\ pc[inbox'[i].what] \in {"sent", "write", "done"}
          /\ \A c \in wire : c.by # inbox'[i].what
  BY <1>2 DEF AheadInv
<1> QED
  BY <1>7, <1>9, <1>10, <1>11, <1>12 DEF AheadInv

\* A request moves on, and neither sends nor takes a reply.
LEMMA AheadMoves ==
    ASSUME TypeOK, AheadInv, NEW r \in Requests, UNCHANGED <<wire, inbox, emitting>>,
           NEW p \in {"find", "child", "send", "write", "done"}, pc' = [pc EXCEPT ![r] = p],
           pc[r] \in {"sent", "write", "done"} => p \in {"write", "done"},
           p = "send" => result'[r] = "none",
           \A q \in Requests : q # r => result'[q] = result[q] /\ ahead'[q] = ahead[q],
           ahead' \in [Requests -> Nat],
           result'[r] \in {"none", "refused", "expired"}
    PROVE  AheadInv'
<1>1. \A q \in Requests : pc'[q] = IF q = r THEN p ELSE pc[q]
  BY DEF TypeOK
<1>2. \A c \in wire : c.by \in Requests
  BY DEF TypeOK, Commands
<1>3. \A i \in DOMAIN inbox : IsReply(inbox[i]) => inbox[i].what \in Requests
  <2>1. \A i \in DOMAIN inbox : inbox[i] \in Messages
    BY DEF TypeOK
  <2> QED
    BY <2>1, MessageFacts DEF IsReply
<1>4. \A c \in wire' : pc'[c.by] \in {"sent", "write", "done"}
  BY <1>1, <1>2 DEF AheadInv
<1>5. \A i \in DOMAIN inbox' : IsReply(inbox'[i]) =>
          /\ pc'[inbox'[i].what] \in {"sent", "write", "done"}
          /\ \A c \in wire' : c.by # inbox'[i].what
  BY <1>1, <1>3 DEF AheadInv
<1>6. \A i \in DOMAIN inbox' : IsReply(inbox'[i]) /\ pc'[inbox'[i].what] = "sent" =>
          ahead'[inbox'[i].what] <= Cardinality(Before(inbox', i)) + Writing'
  <2>1. Writing' = Writing
    BY DEF Writing
  <2>2. ASSUME NEW i \in DOMAIN inbox, IsReply(inbox[i]), pc'[inbox[i].what] = "sent"
        PROVE  pc[inbox[i].what] = "sent" /\ ahead'[inbox[i].what] = ahead[inbox[i].what]
    BY <1>1, <1>3, <2>2
  <2> QED
    BY <2>1, <2>2 DEF AheadInv
<1>7. \A q \in Requests : pc'[q] \in {"send", "sent"} => result'[q] = "none"
  BY <1>1 DEF AheadInv
<1>8. EventsBeforeReply'
  BY DEF AheadInv, EventsBeforeReply
<1> QED
  BY <1>4, <1>5, <1>6, <1>7, <1>8 DEF AheadInv

\* Replies, as requests await them.
LEMMA ReplyFacts ==
    ASSUME TypeOK
    PROVE  /\ \A c \in wire : c.by \in Requests
           /\ \A i \in DOMAIN inbox : IsReply(inbox[i]) => inbox[i].what \in Requests
           /\ \A i \in DOMAIN inbox : inbox[i] \in Messages
<1>1. \A c \in wire : c.by \in Requests
  BY DEF TypeOK, Commands
<1>2. \A i \in DOMAIN inbox : inbox[i] \in Messages
  BY DEF TypeOK
<1>3. \A i \in DOMAIN inbox : IsReply(inbox[i]) => inbox[i].what \in Requests
  BY <1>2, MessageFacts DEF IsReply
<1> QED
  BY <1>1, <1>2, <1>3

\* The reply that is read has no events ahead of it any more.
LEMMA AheadReplied == ASSUME TypeOK, AheadInv, NEW k \in {"ok", "error"}, Replied(k) PROVE AheadInv'
<1> DEFINE r == Head(inbox).what
<1>1. Reads(k) /\ UNCHANGED <<wire, emitting, ahead>>
  BY DEF Replied, historyVars
<1>2. /\ emitting = Nothing /\ r \in Requests /\ 1 \in DOMAIN inbox /\ inbox[1] = Head(inbox)
      /\ \A i \in DOMAIN inbox' : i \in Nat /\ i + 1 \in DOMAIN inbox /\ i + 1 # 1 /\ inbox'[i] = inbox[i + 1]
      /\ IsReply(Head(inbox)) /\ ~IsEvent(Head(inbox))
      /\ inbox \in Seq(Messages) /\ inbox # <<>> /\ inbox' = Tail(inbox)
  BY <1>1, ReadsFacts DEF IsReply, IsEvent, TypeOK, Reads
<1>3. \A i \in DOMAIN inbox' : Cardinality(Before(inbox, i + 1)) = Cardinality(Before(inbox', i)) + 0
  BY <1>2, BeforeTail
<1>4. \A i \in DOMAIN inbox' : Cardinality(Before(inbox', i)) \in Nat
  BY <1>2, BeforeFinite
<1>5. \A i \in DOMAIN inbox' : Cardinality(Before(inbox, i + 1)) = Cardinality(Before(inbox', i))
  BY <1>3, <1>4
<1>6. /\ \A q \in Requests : q # r => pc'[q] = pc[q] /\ result'[q] = result[q]
      /\ pc[r] = "sent" => pc'[r] = "write"
      /\ pc[r] # "sent" => pc'[r] = pc[r] /\ result'[r] = result[r]
  BY <1>2 DEF Replied, TypeOK
<1>7. pc[r] = "sent" => ahead[r] = 0
  <2>1. pc[r] = "sent" => ahead[r] <= Cardinality(Before(inbox, 1)) + Writing
    BY <1>2 DEF AheadInv
  <2>2. Before(inbox, 1) = {}
    BY DEF Before
  <2>3. Cardinality(Before(inbox, 1)) = 0
    BY <2>2, FS_EmptySet
  <2>4. ahead[r] \in Nat /\ Writing = 0
    BY <1>2 DEF AheadInv, Writing
  <2> QED
    BY <2>1, <2>3, <2>4
<1>8. EventsBeforeReply'
  BY <1>1, <1>6, <1>7 DEF AheadInv, EventsBeforeReply
<1>9. \A i \in DOMAIN inbox' : IsReply(inbox'[i]) => inbox'[i].what # r /\ inbox'[i].what \in Requests
  BY <1>2, ReplyFacts DEF AheadInv
<1> HIDE DEF r
<1>10. \A i \in DOMAIN inbox' : IsReply(inbox'[i]) =>
          /\ pc'[inbox'[i].what] \in {"sent", "write", "done"}
          /\ \A c \in wire : c.by # inbox'[i].what
  BY <1>2, <1>6, <1>9 DEF AheadInv
<1>11. \A i, j \in DOMAIN inbox' :
          IsReply(inbox'[i]) /\ IsReply(inbox'[j]) /\ inbox'[i].what = inbox'[j].what => i = j
  BY <1>2 DEF AheadInv
<1>12. \A i \in DOMAIN inbox' : IsReply(inbox'[i]) /\ pc'[inbox'[i].what] = "sent" =>
          ahead[inbox'[i].what] <= Cardinality(Before(inbox', i)) + Writing
  <2> SUFFICES ASSUME NEW i \in DOMAIN inbox', IsReply(inbox'[i]), pc'[inbox'[i].what] = "sent"
               PROVE  ahead[inbox'[i].what] <= Cardinality(Before(inbox', i)) + Writing
    OBVIOUS
  <2>1. inbox'[i] = inbox[i + 1] /\ i + 1 \in DOMAIN inbox /\ pc[inbox'[i].what] = "sent"
    BY <1>2, <1>6, <1>9
  <2>2. ahead[inbox'[i].what] <= Cardinality(Before(inbox, i + 1)) + Writing
    BY <2>1 DEF AheadInv
  <2> QED
    BY <1>5, <2>2
<1>13. Writing' = Writing
  BY <1>1 DEF Writing
<1>14. \A q \in Requests : pc'[q] \in {"send", "sent"} => result'[q] = "none"
  BY <1>2, <1>6 DEF AheadInv
<1>15. \A c \in wire : pc'[c.by] \in {"sent", "write", "done"}
  BY <1>2, <1>6, ReplyFacts DEF AheadInv
<1> QED
  BY <1>1, <1>8, <1>10, <1>11, <1>12, <1>13, <1>14, <1>15 DEF AheadInv

\* An event is written.
LEMMA AheadEmit == ASSUME TypeOK, AheadInv, Emit PROVE AheadInv'
<1>1. emitting # Nothing /\ emitting' = Nothing /\ UNCHANGED <<pc, result, wire, inbox>>
  BY DEF Emit, requestVars
<1>2. \A r \in Requests : ahead[r] \in Nat
  BY DEF AheadInv
<1>3. /\ ahead' \in [Requests -> Nat]
      /\ \A r \in Requests : ahead'[r] = IF ahead[r] = 0 THEN 0 ELSE ahead[r] - 1
  <2>1. ahead' = [r \in Requests |-> IF ahead[r] = 0 THEN 0 ELSE ahead[r] - 1]
    BY DEF Emit, Written
  <2> QED
    BY <1>2, <2>1
<1>4. Writing = 1 /\ Writing' = 0
  BY <1>1 DEF Writing
<1>5. \A i \in DOMAIN inbox : Cardinality(Before(inbox, i)) \in Nat
  BY BeforeFinite DEF TypeOK
<1>6. \A i \in DOMAIN inbox : IsReply(inbox[i]) /\ pc[inbox[i].what] = "sent" =>
          ahead'[inbox[i].what] <= Cardinality(Before(inbox, i)) + Writing'
  <2> SUFFICES ASSUME NEW i \in DOMAIN inbox, IsReply(inbox[i]), pc[inbox[i].what] = "sent"
               PROVE  ahead'[inbox[i].what] <= Cardinality(Before(inbox, i)) + Writing'
    OBVIOUS
  <2> DEFINE r == inbox[i].what
             n == Cardinality(Before(inbox, i))
  <2>1. r \in Requests /\ n \in Nat /\ ahead[r] <= n + Writing
    BY <1>5, ReplyFacts DEF AheadInv
  <2> HIDE DEF r, n
  <2>2. ahead'[r] <= n + Writing'
    BY <1>2, <1>3, <1>4, <2>1
  <2> QED
    BY <2>2 DEF r, n
<1>7. EventsBeforeReply'
  BY <1>1, <1>3 DEF AheadInv, EventsBeforeReply
<1> QED
  BY <1>1, <1>3, <1>6, <1>7 DEF AheadInv

\* A command is sent: the first of its request.
LEMMA AheadSend == ASSUME TypeOK, AheadInv, NEW r \in Requests, Send(r) PROVE AheadInv'
<1>1. /\ pc[r] = "send" /\ \A q \in Requests : pc'[q] = IF q = r THEN "sent" ELSE pc[q]
      /\ wire' = wire \cup {Command(r)} /\ Command(r).by = r
      /\ UNCHANGED <<result, inbox, emitting, ahead>>
  BY DEF Send, At, TypeOK, Command, historyVars
<1>2. \A c \in wire : c.by # r /\ c.by \in Requests
  BY <1>1, ReplyFacts DEF AheadInv
<1>3. \A i \in DOMAIN inbox : IsReply(inbox[i]) => inbox[i].what # r /\ inbox[i].what \in Requests
  BY <1>1, ReplyFacts DEF AheadInv
<1>4. \A c, d \in wire' : c.by = d.by => c = d
  BY <1>1, <1>2 DEF AheadInv
<1>5. \A i \in DOMAIN inbox : IsReply(inbox[i]) =>
          /\ pc'[inbox[i].what] \in {"sent", "write", "done"}
          /\ \A c \in wire' : c.by # inbox[i].what
  BY <1>1, <1>2, <1>3 DEF AheadInv
<1>6. \A i \in DOMAIN inbox : IsReply(inbox[i]) /\ pc'[inbox[i].what] = "sent" =>
          ahead[inbox[i].what] <= Cardinality(Before(inbox, i)) + Writing
  BY <1>1, <1>3 DEF AheadInv
<1>7. Writing' = Writing
  BY <1>1 DEF Writing
<1>8. \A c \in wire' : pc'[c.by] \in {"sent", "write", "done"}
  BY <1>1, <1>2 DEF AheadInv
<1>9. \A q \in Requests : pc'[q] \in {"send", "sent"} => result'[q] = "none"
  BY <1>1 DEF AheadInv
<1>10. EventsBeforeReply'
  BY <1>1 DEF AheadInv, EventsBeforeReply
<1> QED
  BY <1>1, <1>4, <1>5, <1>6, <1>7, <1>8, <1>9, <1>10 DEF AheadInv

\* Chrome replies, behind the events that it has sent.
LEMMA AheadExecute == ASSUME TypeOK, AheadInv, NEW c \in wire, Execute(c) PROVE AheadInv'
<1> DEFINE r == c.by
<1>1. PICK k \in {"ok", "error"} : inbox' = Append(inbox, Message(k, None, r))
  BY DEF Execute
<1> DEFINE m == Message(k, None, r)
<1>2. /\ r \in Requests /\ wire' = wire \ {c} /\ UNCHANGED <<pc, result, emitting>>
      /\ ahead' = IF pc[r] = "sent" THEN [ahead EXCEPT ![r] = EventsAhead] ELSE ahead
  BY ReplyFacts DEF Execute, requestVars
<1> HIDE DEF r
<1>3. m \in Messages /\ IsReply(m) /\ m.what = r /\ inbox \in Seq(Messages)
  BY <1>2 DEF Messages, IsReply, Message, TypeOK
<1> HIDE DEF m
<1>4. /\ \A i \in DOMAIN inbox' :
            \/ i \in DOMAIN inbox /\ inbox'[i] = inbox[i]
            \/ i = Len(inbox) + 1 /\ inbox'[i] = m
      /\ \A i \in DOMAIN inbox : i \in Nat /\ i < Len(inbox) + 1
      /\ Len(inbox) \in Nat
  <2>1. inbox' = Append(inbox, m)
    BY <1>1 DEF m
  <2> QED
    BY <1>3, <2>1, SaysFacts
<1>5. \A i \in DOMAIN inbox' : Before(inbox', i) = Before(inbox, i)
  <2>1. \A i \in DOMAIN inbox' : i \in 1 .. (Len(inbox) + 1)
    BY <1>3, <1>4
  <2>2. inbox' = Append(inbox, m)
    BY <1>1 DEF m
  <2> QED
    BY <1>3, <2>1, <2>2, BeforeAppend
<1>6. EventsAhead = Cardinality(Before(inbox, Len(inbox) + 1)) + Writing
  <2>1. {i \in DOMAIN inbox : IsEvent(inbox[i])} = Before(inbox, Len(inbox) + 1)
    BY <1>3 DEF Before
  <2> QED
    BY <2>1 DEF EventsAhead, Writing
<1>7. EventsAhead \in Nat
  <2>1. Cardinality(Before(inbox, Len(inbox) + 1)) \in Nat /\ Writing \in Nat
    BY <1>4, BeforeFinite DEF Writing
  <2> QED
    BY <1>6, <2>1
<1>8. \A i \in DOMAIN inbox : IsReply(inbox[i]) => inbox[i].what # r /\ inbox[i].what \in Requests
  BY ReplyFacts DEF AheadInv, r
<1>9. pc[r] \in {"sent", "write", "done"} /\ \A d \in wire' : d.by # r
  BY <1>2 DEF AheadInv, r
<1>10. Writing' = Writing
  BY <1>2 DEF Writing
<1>11. /\ ahead' \in [Requests -> Nat]
       /\ \A q \in Requests : ahead'[q] = IF q = r /\ pc[r] = "sent" THEN EventsAhead ELSE ahead[q]
  BY <1>2, <1>7 DEF AheadInv
<1>12. \A i \in DOMAIN inbox' : IsReply(inbox'[i]) /\ pc[inbox'[i].what] = "sent" =>
          ahead'[inbox'[i].what] <= Cardinality(Before(inbox', i)) + Writing'
  <2> SUFFICES ASSUME NEW i \in DOMAIN inbox', IsReply(inbox'[i]), pc[inbox'[i].what] = "sent"
               PROVE  ahead'[inbox'[i].what] <= Cardinality(Before(inbox', i)) + Writing'
    OBVIOUS
  <2>1. CASE i \in DOMAIN inbox /\ inbox'[i] = inbox[i]
    <3>1. ahead'[inbox'[i].what] = ahead[inbox[i].what]
      BY <1>8, <1>11, <2>1
    <3> QED
      BY <1>5, <1>10, <2>1, <3>1 DEF AheadInv
  <2>2. CASE i = Len(inbox) + 1 /\ inbox'[i] = m
    <3>1. ahead'[inbox'[i].what] = EventsAhead
      BY <1>2, <1>3, <1>11, <2>2
    <3>2. EventsAhead = Cardinality(Before(inbox', i)) + Writing'
      BY <1>5, <1>6, <1>10, <2>2
    <3> QED
      BY <1>7, <3>1, <3>2
  <2> QED
    BY <1>4, <2>1, <2>2
<1>13. \A i \in DOMAIN inbox' : IsReply(inbox'[i]) =>
          /\ pc[inbox'[i].what] \in {"sent", "write", "done"}
          /\ \A d \in wire' : d.by # inbox'[i].what
  BY <1>2, <1>3, <1>4, <1>9 DEF AheadInv
<1>14. \A i, j \in DOMAIN inbox' :
          IsReply(inbox'[i]) /\ IsReply(inbox'[j]) /\ inbox'[i].what = inbox'[j].what => i = j
  BY <1>3, <1>4, <1>8 DEF AheadInv
<1>15. EventsBeforeReply'
  <2>1. pc[r] = "sent" => result[r] = "none"
    BY <1>2 DEF AheadInv
  <2> QED
    BY <1>2, <1>11, <2>1 DEF AheadInv, EventsBeforeReply
<1> QED
  BY <1>2, <1>11, <1>12, <1>13, <1>14, <1>15 DEF AheadInv

LEMMA AheadNext == TypeOK /\ RequestInv /\ AheadInv /\ [Next]_vars => AheadInv'
<1> SUFFICES ASSUME TypeOK, RequestInv, AheadInv, [Next]_vars PROVE AheadInv'
  OBVIOUS
<1> USE DEF modelVars, attachVars, requestVars, chromeVars, historyVars
<1> HIDE DEF TypeOK
<1>1. ASSUME NEW t \in Tabs, Attach(t) PROVE AheadInv'
  <2> DEFINE m == Message("answer", t, None)
  <2>1. m \in Messages /\ ~IsReply(m)
    BY DEF Messages, Message, IsReply
  <2>2. inbox' = Append(inbox, m) /\ UNCHANGED <<pc, wire, ahead, result, emitting>>
    BY <1>1 DEF Attach
  <2> QED
    BY <2>1, <2>2, AheadSays
<1>2. CASE AttachAnswered
  <2>1. Reads("answer") /\ UNCHANGED <<pc, wire, result, ahead, emitting>>
    BY <1>2 DEF AttachAnswered
  <2>2. ~IsReply(Head(inbox)) /\ ~IsEvent(Head(inbox))
    BY <2>1 DEF Reads, IsReply, IsEvent
  <2> QED
    BY <2>1, <2>2, AheadReads
<1>3. ASSUME NEW k \in {"ok", "error"}, Replied(k) PROVE AheadInv'
  BY <1>3, AheadReplied
<1>4. CASE OnChildAttached
  <2>1. Reads("attached") /\ UNCHANGED <<pc, wire, result>>
    BY <1>4 DEF OnChildAttached
  <2>2. ~IsReply(Head(inbox)) /\ IsEvent(Head(inbox)) /\ Head(inbox) # Nothing
    BY <2>1 DEF Reads, IsReply, IsEvent, Nothing, Message
  <2>3. \/ Written /\ UNCHANGED emitting
        \/ emitting' = Head(inbox) /\ UNCHANGED ahead
    BY <1>4 DEF OnChildAttached
  <2> QED
    BY <2>1, <2>2, <2>3, AheadReads
<1>5. CASE OnChildDetached
  <2>1. Reads("detached") /\ UNCHANGED <<pc, wire, result>>
    BY <1>5 DEF OnChildDetached
  <2>2. ~IsReply(Head(inbox)) /\ IsEvent(Head(inbox)) /\ Head(inbox) # Nothing
    BY <2>1 DEF Reads, IsReply, IsEvent, Nothing, Message
  <2>3. \/ Written /\ UNCHANGED emitting
        \/ emitting' = Head(inbox) /\ UNCHANGED ahead
    BY <1>5 DEF OnChildDetached
  <2> QED
    BY <2>1, <2>2, <2>3, AheadReads
<1>6. CASE OnDetach
  <2>1. Reads("removed") /\ UNCHANGED <<pc, wire, result>>
    BY <1>6 DEF OnDetach
  <2>2. ~IsReply(Head(inbox)) /\ IsEvent(Head(inbox))
    BY <2>1 DEF Reads, IsReply, IsEvent
  <2>3. \/ Written /\ UNCHANGED emitting
        \/ emitting' # Nothing /\ UNCHANGED ahead
    BY <1>6 DEF OnDetach, Nothing, Message
  <2> QED
    BY <2>1, <2>2, <2>3, AheadReads
<1>7. CASE Emit
  BY <1>7, AheadEmit
<1>8. ASSUME NEW r \in Requests, FindAny(r) PROVE AheadInv'
  <2>1. /\ pc[r] = "find" /\ result[r] = "none" /\ ahead \in [Requests -> Nat]
        /\ UNCHANGED <<wire, inbox, emitting, ahead>>
    BY <1>8 DEF FindAny, RequestInv, AheadInv
  <2>2. CASE \E t \in Tabs : Finds(r, t, None) /\ UNCHANGED result
    <3>1. pc' = [pc EXCEPT ![r] = "send"] /\ result' = result
      BY <2>2 DEF Finds
    <3> QED
      BY <2>1, <3>1, AheadMoves
  <2>3. CASE Refuses(r)
    <3>1. pc' = [pc EXCEPT ![r] = "write"] /\ result' = [result EXCEPT ![r] = "refused"]
      BY <2>3 DEF Refuses
    <3>2. result'[r] = "refused" /\ \A q \in Requests : q # r => result'[q] = result[q]
      BY <3>1 DEF TypeOK
    <3> QED
      BY <2>1, <3>1, <3>2, AheadMoves
  <2> QED
    BY <1>8, <2>2, <2>3 DEF FindAny
<1>9. ASSUME NEW r \in Requests, FindSession(r) PROVE AheadInv'
  <2>1. /\ pc[r] = "find" /\ result[r] = "none" /\ ahead \in [Requests -> Nat]
        /\ UNCHANGED <<wire, inbox, emitting, ahead, result>>
    BY <1>9 DEF FindSession, RequestInv, AheadInv
  <2>2. pc' = [pc EXCEPT ![r] = "send"] \/ pc' = [pc EXCEPT ![r] = "child"]
    BY <1>9 DEF FindSession, Finds
  <2> QED
    BY <2>1, <2>2, AheadMoves
<1>10. ASSUME NEW r \in Requests, FindChild(r) PROVE AheadInv'
  <2>1. /\ pc[r] = "child" /\ result[r] = "none" /\ ahead \in [Requests -> Nat]
        /\ UNCHANGED <<wire, inbox, emitting, ahead>>
    BY <1>10 DEF FindChild, RequestInv, AheadInv
  <2>2. CASE \E t \in Tabs : Finds(r, t, names[r]) /\ UNCHANGED result
    <3>1. pc' = [pc EXCEPT ![r] = "send"] /\ result' = result
      BY <2>2 DEF Finds
    <3> QED
      BY <2>1, <3>1, AheadMoves
  <2>3. CASE Refuses(r)
    <3>1. pc' = [pc EXCEPT ![r] = "write"] /\ result' = [result EXCEPT ![r] = "refused"]
      BY <2>3 DEF Refuses
    <3>2. result'[r] = "refused" /\ \A q \in Requests : q # r => result'[q] = result[q]
      BY <3>1 DEF TypeOK
    <3> QED
      BY <2>1, <3>1, <3>2, AheadMoves
  <2> QED
    BY <1>10, <2>2, <2>3 DEF FindChild
<1>11. ASSUME NEW r \in Requests, Send(r) PROVE AheadInv'
  BY <1>11, AheadSend
<1>12. ASSUME NEW r \in Requests, Expires(r) PROVE AheadInv'
  <2>1. /\ pc[r] \in {"send", "sent"} /\ pc' = [pc EXCEPT ![r] = "write"] /\ ahead \in [Requests -> Nat]
        /\ result' = [result EXCEPT ![r] = "expired"] /\ UNCHANGED <<wire, inbox, emitting, ahead>>
    BY <1>12 DEF Expires, At, AheadInv
  <2>2. result'[r] = "expired" /\ \A q \in Requests : q # r => result'[q] = result[q]
    BY <2>1 DEF TypeOK
  <2> QED
    BY <2>1, <2>2, AheadMoves
<1>13. ASSUME NEW r \in Requests, Respond(r) PROVE AheadInv'
  <2>1. /\ pc[r] = "write" /\ pc' = [pc EXCEPT ![r] = "done"] /\ ahead \in [Requests -> Nat]
        /\ result' = [result EXCEPT ![r] = "none"] /\ ahead' = [ahead EXCEPT ![r] = 0]
        /\ UNCHANGED <<wire, inbox, emitting>>
    BY <1>13 DEF Respond, At, AheadInv
  <2>2. /\ result'[r] = "none" /\ \A q \in Requests : q # r => result'[q] = result[q] /\ ahead'[q] = ahead[q]
        /\ ahead' \in [Requests -> Nat]
    BY <2>1 DEF TypeOK
  <2> QED
    BY <2>1, <2>2, AheadMoves
<1>14. ASSUME NEW c \in wire, Execute(c) PROVE AheadInv'
  BY <1>14, AheadExecute
<1>15. ASSUME NEW t \in Tabs, Detaches(t) PROVE AheadInv'
  <2> DEFINE m == Message("removed", t, None)
  <2>1. m \in Messages /\ ~IsReply(m)
    BY DEF Messages, Message, IsReply
  <2>2. inbox' = Append(inbox, m) /\ UNCHANGED <<pc, wire, ahead, result, emitting>>
    BY <1>15 DEF Detaches
  <2> QED
    BY <2>1, <2>2, AheadSays
<1>16. ASSUME NEW t \in Tabs, NEW c \in Children, ChildAttaches(t, c) PROVE AheadInv'
  <2> DEFINE m == Message("attached", t, c)
  <2>1. m \in Messages /\ ~IsReply(m)
    BY DEF Messages, Events, Message, IsReply
  <2>2. inbox' = Append(inbox, m) /\ UNCHANGED <<pc, wire, ahead, result, emitting>>
    BY <1>16 DEF ChildAttaches
  <2> QED
    BY <2>1, <2>2, AheadSays
<1>17. ASSUME NEW c \in Children, ChildDetaches(c) PROVE AheadInv'
  <2> DEFINE m == Message("detached", home[c], c)
  <2>1. home[c] \in Tabs
    BY <1>17, RoutingAssumption DEF ChildDetaches, TypeOK, Named
  <2>2. m \in Messages /\ ~IsReply(m)
    BY <2>1 DEF Messages, Events, Message, IsReply
  <2>3. inbox' = Append(inbox, m) /\ UNCHANGED <<pc, wire, ahead, result, emitting>>
    BY <1>17 DEF ChildDetaches
  <2> QED
    BY <2>2, <2>3, AheadSays
<1>18. ASSUME NEW r \in Requests, NEW x \in Named \cup {None}, Asks(r, x) PROVE AheadInv'
  <2>1. /\ pc[r] = "idle" /\ pc' = [pc EXCEPT ![r] = "find"] /\ ahead \in [Requests -> Nat]
        /\ UNCHANGED <<wire, inbox, emitting, ahead, result>>
    BY <1>18 DEF Asks, At, AheadInv
  <2>2. result[r] = "none"
    BY <2>1 DEF RequestInv
  <2> QED
    BY <2>1, <2>2, AheadMoves
<1>19. CASE
         \/ \E t \in Tabs : Commit(t) \/ EmitAttached(t) \/ AttachToTarget(t)
         \/ UNCHANGED vars
  <2>1. UNCHANGED <<pc, wire, ahead, result, emitting, inbox>>
    BY <1>19 DEF Commit, EmitAttached, AttachToTarget, vars
  <2>2. UNCHANGED Writing
    BY <2>1 DEF Writing
  <2> QED
    BY <2>1, <2>2 DEF AheadInv, EventsBeforeReply
<1> QED
  BY <1>1, <1>2, <1>3, <1>4, <1>5, <1>6, <1>7, <1>8, <1>9, <1>10, <1>11, <1>12, <1>13, <1>14,
     <1>15, <1>16, <1>17, <1>18, <1>19 DEF Next, Reader, Serve, Chrome, Client


(***************************************************************************)
(* The implementation of SessionLife.                                      *)
(***************************************************************************)
LEMMA BoundInit == Init => BoundInv
<1> SUFFICES ASSUME Init PROVE BoundInv
  OBVIOUS
<1>1. Asked = {}
  BY DEF Init, Asked
<1>2. IsFiniteSet(Asked) /\ Cardinality(Asked) = 0
  BY <1>1, FS_EmptySet
<1> QED
  BY <1>2, RoutingAssumption DEF Init, BoundInv

LEMMA BoundNext == TypeOK /\ MakingInv /\ BoundInv /\ [Next]_vars => BoundInv'
<1> SUFFICES ASSUME TypeOK, MakingInv, BoundInv, [Next]_vars PROVE BoundInv'
  OBVIOUS
<1> USE DEF modelVars, attachVars, requestVars, chromeVars, historyVars
<1>1. ASSUME NEW t \in Tabs, Attach(t) PROVE BoundInv'
  <2>1. /\ making[t] = "no" /\ making' = [making EXCEPT ![t] = "asked"]
        /\ nextID + Cardinality(Asked) <= MaxSessions
        /\ UNCHANGED <<nextID, sid, sessions>>
    BY <1>1 DEF Attach, Asked
  <2>2. Asked' = Asked \cup {t} /\ t \notin Asked
    BY <2>1 DEF Asked, TypeOK
  <2>3. IsFiniteSet(Asked') /\ Cardinality(Asked') = Cardinality(Asked) + 1 /\ Cardinality(Asked) \in Nat
    BY <2>2, FS_AddElement, FS_CardinalityType DEF BoundInv
  <2> QED
    BY <2>1, <2>3, RoutingAssumption DEF BoundInv, TypeOK
<1>2. CASE AttachAnswered
  <2>1. Reads("answer")
    BY <1>2 DEF AttachAnswered
  <2> DEFINE t == Head(inbox).tab
  <2>2. t \in Tabs /\ making[t] = "asked" /\ nextID \in Nat \ {0}
    BY <2>1, ReadsFacts DEF MakingInv, TypeOK
  <2>3. /\ making' = [making EXCEPT ![t] = "commit"] /\ sid' = [sid EXCEPT ![t] = nextID]
        /\ nextID' = nextID + 1 /\ UNCHANGED sessions
    BY <1>2 DEF AttachAnswered, NewSession
  <2> HIDE DEF t
  <2>4. Asked' = Asked \ {t} /\ t \in Asked
    BY <2>2, <2>3 DEF Asked, TypeOK
  <2>5. IsFiniteSet(Asked') /\ Cardinality(Asked') = Cardinality(Asked) - 1 /\ Cardinality(Asked) \in Nat
    BY <2>4, FS_RemoveElement, FS_CardinalityType DEF BoundInv
  <2>6. Cardinality(Asked) # 0
    BY <2>4, FS_EmptySet DEF BoundInv
  <2>7. nextID \in Ids
    BY <2>2, <2>5, <2>6, RoutingAssumption DEF BoundInv, Ids
  <2> QED
    BY <2>2, <2>3, <2>5, <2>7, RoutingAssumption DEF BoundInv, TypeOK, Ids
<1>3. ASSUME NEW t \in Tabs, Commit(t) PROVE BoundInv'
  <2>1. /\ making[t] = "commit" /\ making' = [making EXCEPT ![t] = "emit"]
        /\ sessions' = [sessions EXCEPT ![t] = sid[t]] /\ UNCHANGED <<nextID, sid>>
    BY <1>3 DEF Commit
  <2>2. Asked' = Asked
    BY <2>1 DEF Asked, TypeOK
  <2> QED
    BY <2>1, <2>2 DEF BoundInv, TypeOK, Ids
<1>4. ASSUME NEW t \in Tabs, EmitAttached(t) PROVE BoundInv'
  <2>1. /\ making[t] = "emit" /\ making' = [making EXCEPT ![t] = "no"]
        /\ sid' = [sid EXCEPT ![t] = None] /\ UNCHANGED <<nextID, sessions>>
    BY <1>4 DEF EmitAttached
  <2>2. Asked' = Asked
    BY <2>1 DEF Asked, TypeOK
  <2> QED
    BY <2>1, <2>2 DEF BoundInv, TypeOK, Ids
<1>5. CASE OnDetach
  <2>1. UNCHANGED <<making, sid, nextID>> /\ (sessions' = sessions \/ sessions' = [sessions EXCEPT ![Head(inbox).tab] = None])
    BY <1>5 DEF OnDetach
  <2>2. Asked' = Asked
    BY <2>1 DEF Asked
  <2> QED
    BY <2>1, <2>2 DEF BoundInv, TypeOK, Ids
<1>6. CASE
         \/ OnChildAttached \/ OnChildDetached \/ Emit
         \/ \E t \in Tabs : Detaches(t) \/ AttachToTarget(t)
         \/ \E k \in {"ok", "error"} : Replied(k)
         \/ \E r \in Requests : FindAny(r) \/ FindSession(r) \/ FindChild(r) \/ Send(r) \/
                Expires(r) \/ Respond(r)
         \/ \E r \in Requests, x \in Named \cup {None} : Asks(r, x)
         \/ \E t \in Tabs, c \in Children : ChildAttaches(t, c)
         \/ \E c \in Children : ChildDetaches(c)
         \/ \E m \in wire : Execute(m)
         \/ UNCHANGED vars
  <2>1. UNCHANGED <<sessions, making, sid, nextID>>
    BY <1>6 DEF OnChildAttached, OnChildDetached, StoreChild, DropChild, Emit, Detaches, AttachToTarget,
       Replied, FindAny, FindSession, FindChild, Send, Expires, Respond, Asks, ChildAttaches,
       ChildDetaches, Execute, vars
  <2>2. Asked' = Asked
    BY <2>1 DEF Asked
  <2> QED
    BY <2>1, <2>2 DEF BoundInv, Ids
<1> QED
  BY <1>1, <1>2, <1>3, <1>4, <1>5, <1>6 DEF Next, Reader, Serve, Chrome, Client

LEMMA LifeInit == Init => Life!Init
  BY RoutingAssumption DEF Init, Life!Init, Lived, Ids

\* A commit begins a session, a loss finishes one; the client learns of it from
\* the emits, and from the answer to AttachToTarget.
LEMMA LifeStep ==
    ASSUME TypeOK, MakingInv, SessionInv, BoundInv, [Next]_vars
    PROVE  [Life!Next]_(Life!vars)
<1> USE DEF modelVars, attachVars, requestVars, chromeVars, historyVars
<1>1. ASSUME UNCHANGED sessions, Ids \cap removed' = Ids \cap removed PROVE Lived' = Lived
  BY <1>1 DEF Lived, Ids
<1>2. ASSUME UNCHANGED <<sessions, reported, ended>>, Ids \cap removed' = Ids \cap removed
      PROVE  [Life!Next]_(Life!vars)
  BY <1>1, <1>2 DEF Life!vars, Ids
<1>3. ASSUME NEW t \in Tabs, Commit(t) PROVE [Life!Next]_(Life!vars)
  <2>1. /\ making[t] = "commit" /\ sessions' = [sessions EXCEPT ![t] = sid[t]]
        /\ UNCHANGED <<reported, ended, removed>>
    BY <1>3 DEF Commit
  <2>2. /\ sessions[t] = None /\ sessions \in [Tabs -> Nat \cup {None}] /\ sid[t] \in Ids
        /\ sid[t] \notin removed /\ \A u \in Tabs : sessions[u] # sid[t]
    BY <2>1 DEF MakingInv, SessionInv, BoundInv, TypeOK
  <2>3. \A u \in Tabs : sessions'[u] = IF u = t THEN sid[t] ELSE sessions[u]
    BY <2>1, <2>2
  <2>4. None \notin Ids
    BY RoutingAssumption DEF Ids
  <2>5. Lived' = Lived \cup {sid[t]} /\ sid[t] \notin Lived \cup {None}
    BY <2>1, <2>2, <2>3, <2>4 DEF Lived, Ids
  <2>6. Life!Begins(t)
    BY <2>1, <2>2, <2>3, <2>5 DEF Life!Begins, Ids
  <2> QED
    BY <2>6 DEF Life!Next
<1>4. ASSUME NEW x \in Lived, UNCHANGED <<sessions, ended, removed>>, reported' = reported \cup {x}
      PROVE  [Life!Next]_(Life!vars)
  <2>1. Lived' = Lived /\ x \in Ids
    BY <1>1, <1>4 DEF Lived
  <2>2. Life!IsTold(x)
    BY <1>4, <2>1 DEF Life!IsTold, Ids
  <2> QED
    BY <2>2 DEF Life!Next
<1>5. ASSUME NEW t \in Tabs, EmitAttached(t) PROVE [Life!Next]_(Life!vars)
  <2>1. making[t] = "emit" /\ UNCHANGED <<sessions, ended, removed>> /\ reported' = reported \cup {sid[t]}
    BY <1>5 DEF EmitAttached
  <2>2. sid[t] \in Lived
    BY <2>1 DEF BoundInv, SessionInv, Lived
  <2> QED
    BY <1>4, <2>1, <2>2
<1>6. ASSUME NEW t \in Tabs, AttachToTarget(t) PROVE [Life!Next]_(Life!vars)
  <2>1. sessions[t] \in Lived
    BY <1>6 DEF AttachToTarget, BoundInv, Lived
  <2> QED
    BY <1>4, <1>6, <2>1 DEF AttachToTarget
<1>7. CASE OnChildDetached
  <2>1. UNCHANGED <<sessions, reported, ended>>
    BY <1>7 DEF OnChildDetached, DropChild
  <2>2. Ids \cap removed' = Ids \cap removed
    BY <1>7, ReadsFacts, RoutingAssumption DEF OnChildDetached, DropChild, Ids
  <2> QED
    BY <1>2, <2>1, <2>2
<1>8. CASE OnDetach
  <2> DEFINE t == Head(inbox).tab
  <2>1. t \in Tabs /\ UNCHANGED <<reported, ended>>
    BY <1>8, ReadsFacts DEF OnDetach
  <2>2. CASE sessions[t] = None
    BY <1>2, <1>8, <2>1, <2>2 DEF OnDetach
  <2>3. CASE sessions[t] # None
    <3>1. sessions' = [sessions EXCEPT ![t] = None] /\ removed' = removed \cup {sessions[t]} \cup children[t]
      BY <1>8, <2>3 DEF OnDetach
    <3> HIDE DEF t
    <3>2. \A u \in Tabs : sessions'[u] = IF u = t THEN None ELSE sessions[u]
      BY <2>1, <3>1 DEF TypeOK
    <3>3. Ids \cap children[t] = {} /\ None \notin Ids
      BY <2>1, RoutingAssumption DEF TypeOK, Ids
    <3>4. Lived' = Lived
      BY <2>1, <3>1, <3>2, <3>3 DEF Lived, Ids
    <3>5. Life!Finishes(t)
      BY <2>1, <3>1, <3>4 DEF Life!Finishes, Ids
    <3> QED
      BY <2>1, <3>5 DEF Life!Next
  <2> QED
    BY <2>2, <2>3
<1>9. CASE Emit
  <2>1. UNCHANGED <<sessions, removed>> /\ emitting \in Events \cup Endings
    BY <1>9 DEF Emit, TypeOK
  <2>2. Lived' = Lived
    BY <1>1, <2>1
  <2>3. emitting.kind # "removed" => emitting.what \in Children
    BY <2>1 DEF Events, Endings
  <2>4. CASE emitting.what \in Ids
    <3>1. emitting.kind = "removed" /\ emitting.what \in removed
      BY <2>3, <2>4, RoutingAssumption DEF SessionInv, Ids
    <3>2. emitting.what \in Lived /\ \A t \in Tabs : sessions[t] # emitting.what
      BY <2>4, <3>1 DEF SessionInv, Lived
    <3>3. Ids \cap Ends(emitting) = {emitting.what}
      BY <2>4, RoutingAssumption DEF Ends, Ids
    <3>4. Ids \cap reported' = Ids \cap reported /\ Ids \cap ended' = (Ids \cap ended) \cup {emitting.what}
      BY <1>9, <3>1, <3>3 DEF Emit
    <3>5. Life!IsOver(emitting.what)
      BY <2>1, <2>2, <3>2, <3>4 DEF Life!IsOver, Ids
    <3> QED
      BY <3>2, <3>5 DEF Life!Next
  <2>5. CASE emitting.what \notin Ids
    <3>1. Ids \cap Ends(emitting) = {}
      BY <2>5, RoutingAssumption DEF Ends, Ids
    <3>2. Ids \cap reported' = Ids \cap reported /\ Ids \cap ended' = Ids \cap ended
      BY <1>9, <2>5, <3>1 DEF Emit
    <3> QED
      BY <2>1, <2>2, <3>2 DEF Life!vars, Ids
  <2> QED
    BY <2>4, <2>5
<1>10. CASE
         \/ AttachAnswered \/ OnChildAttached
         \/ \E t \in Tabs : Attach(t) \/ Detaches(t)
         \/ \E k \in {"ok", "error"} : Replied(k)
         \/ \E r \in Requests : FindAny(r) \/ FindSession(r) \/ FindChild(r) \/ Send(r) \/
                Expires(r) \/ Respond(r)
         \/ \E r \in Requests, x \in Named \cup {None} : Asks(r, x)
         \/ \E t \in Tabs, c \in Children : ChildAttaches(t, c)
         \/ \E c \in Children : ChildDetaches(c)
         \/ \E m \in wire : Execute(m)
         \/ UNCHANGED vars
  <2>1. UNCHANGED <<sessions, reported, ended, removed>>
    BY <1>10 DEF AttachAnswered, OnChildAttached, StoreChild, Attach, Detaches, Replied, FindAny,
       FindSession, FindChild, Send, Expires, Respond, Asks, ChildAttaches, ChildDetaches, Execute, vars
  <2> QED
    BY <1>2, <2>1
<1> QED
  BY <1>3, <1>5, <1>6, <1>7, <1>8, <1>9, <1>10 DEF Next, Reader, Serve, Chrome, Client


LEMMA Invariance == Spec => []IInv
<1>1. Init => IInv
  BY TypeInit, HomeInit, RouteInit, MakingInit, InboxInit, ChildInit, SessionInit, RequestInit,
     AheadInit, BoundInit DEF IInv
<1>2. IInv /\ [Next]_vars => IInv'
  BY TypeNext, HomeNext, RouteNext, MakingNext, InboxNext, ChildNext, SessionNext, RequestNext,
     AheadNext, BoundNext DEF IInv
<1> QED
  BY <1>1, <1>2, PTL DEF Spec

\* Once the client has been told the end of a session, no command for it is sent:
\* neither by FindSession, to a tab attached anew, nor by FindChild.
THEOREM EndedRefuse == Spec => []EndedSessionsRefuse
<1>1. IInv => EndedSessionsRefuse
  BY DEF IInv, RequestInv
<1> QED
  BY <1>1, Invariance, PTL

\* A session the client has been told of is refused only after it was removed:
\* a session is announced when it is stored, a child session when its tab has it.
THEOREM ReportedServe == Spec => []ReportedSessionsServe
<1>1. IInv => ReportedSessionsServe
  BY DEF IInv, RequestInv
<1> QED
  BY <1>1, Invariance, PTL

\* No event that Chrome sent before its reply is left unwritten when the reply reaches
\* its request: the one reader takes both from the same queue, in order, and writes an
\* event before it goes on; a reply that comes after its deadline finds nobody.
THEOREM EventsFirst == Spec => []EventsBeforeReply
<1>1. IInv => EventsBeforeReply
  BY DEF IInv, AheadInv
<1> QED
  BY <1>1, Invariance, PTL

\* Routing keeps what SessionLife promises, as BrowserModel does: the sessions that
\* commands are sent to are named, announced and ended as the code of both modules has it.
THEOREM SessionsLiveOnce == Spec => ImplementsSessions
<1>1. IInv /\ [Next]_vars => [Life!Next]_(Life!vars)
  BY LifeStep DEF IInv
<1> QED
  BY <1>1, LifeInit, Invariance, PTL DEF Spec, ImplementsSessions, Life!Spec

==============================================================================
