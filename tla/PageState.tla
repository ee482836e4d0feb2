----------------------------- MODULE PageState -------------------------------
(***************************************************************************)
(* The state of one page (page_state.go) that Chrome's events and the      *)
(* tools of mcp_tools.go both write: the dialog on screen, and the element *)
(* references of the last snapshot.                                        *)
(*                                                                         *)
(* The listener and the tools take p.state.mu for one read or one write at *)
(* a time and never across a command, so that everything else can happen   *)
(* while a command is under way.  Chrome and the way to it are external:   *)
(* events arrive in order, and a reply after the events that precede it,   *)
(* but later events may overtake the reply (each CDP request is answered   *)
(* by a goroutine of its own).  A caller may give up a command at any      *)
(* time; it counts as under way until Chrome has executed it or never will.*)
(***************************************************************************)
EXTENDS Naturals, Sequences, FiniteSets

CONSTANTS
    Tools,           \* goroutines that call tools for this page
    Dialogs,         \* dialogs the page opens
    NoDialog,        \* no dialog
    Nodes,           \* elements of a document, numbered in document order
    MaxNavigations,  \* bound on the navigations of the main frame
    MaxEvents        \* bound on the events under way for a subframe to navigate

ASSUME PageAssumption ==
    /\ NoDialog \notin Dialogs
    /\ Nodes \subseteq Nat
    /\ MaxNavigations \in Nat
    /\ MaxEvents \in Nat

VARIABLES
    dialog,      \* s.dialog
    navigation,  \* s.navigation
    refs,        \* s.refs: reference ei is the i-th element
    pc,          \* where each tool is
    got,         \* the dialog, the elements or the element it works with
    ahead,       \* how many events will arrive before its reply
    shown,       \* Chrome: the dialog on screen
    document,    \* Chrome: how often the main frame has navigated
    marks,       \* Chrome: the data-pecdp-ref of each element of the document
    events,      \* Chrome: events under way to the listener
    opened,      \* history: the dialogs opened so far
    lostDialogs, \* history: the dialogs forgotten by a tool that answered another
    overtaken,   \* history: tools whose snapshot was under way at a navigation
    lateRefs,    \* history: refs was stored by one of them
    wrong        \* history: a tool has acted on another element than it was told

stateVars   == <<dialog, navigation, refs>>
toolVars    == <<pc, got, ahead>>
chromeVars  == <<shown, document, marks, events>>
historyVars == <<opened, lostDialogs, overtaken, lateRefs, wrong>>
vars == <<stateVars, toolVars, chromeVars, historyVars>>

\* An element is one of a document: Chrome gives no backend node id twice.
Elements == (0 .. MaxNavigations) \X Nodes

\* What a snapshot may list: its depth, its root and the page's own changes
\* decide which elements, their order is the document's.
Listings ==
    {s \in UNION {[1 .. n -> {document} \X Nodes] : n \in 0 .. Cardinality(Nodes)} :
        \A i, j \in DOMAIN s : i < j => s[i][2] < s[j][2]}

------------------------------------------------------------------------------
(* Chrome *)

Opens(d) ==
    /\ shown = NoDialog
    /\ d \notin opened
    /\ shown' = d
    /\ opened' = opened \cup {d}
    /\ events' = Append(events, <<"opening", d>>)
    /\ UNCHANGED <<stateVars, toolVars, document, marks, lostDialogs, overtaken, lateRefs, wrong>>

UserAnswers ==
    /\ shown # NoDialog
    /\ shown' = NoDialog
    /\ events' = Append(events, <<"closed", NoDialog>>)
    /\ UNCHANGED <<stateVars, toolVars, document, marks, historyVars>>

Navigates ==
    /\ shown = NoDialog
    /\ document < MaxNavigations
    /\ document' = document + 1
    /\ marks' = [n \in Nodes |-> 0]
    /\ events' = Append(events, <<"navigated", document'>>)
    /\ UNCHANGED <<stateVars, toolVars, shown, historyVars>>

SubframeNavigates ==
    /\ shown = NoDialog
    /\ Len(events) < MaxEvents
    /\ events' = Append(events, <<"subframe", document>>)
    /\ UNCHANGED <<stateVars, toolVars, shown, document, marks, historyVars>>

Chrome == UserAnswers \/ Navigates \/ SubframeNavigates \/ \E d \in Dialogs : Opens(d)

------------------------------------------------------------------------------
(* The listener of initObservers *)

\* The mutant: the references survive.
NavigatedWithRefs ==
    /\ navigation' = navigation + 1
    /\ lateRefs' = FALSE
    /\ overtaken' = {t \in Tools : pc[t] \in {"capture", "captured", "store"}}
    /\ UNCHANGED <<dialog, refs, lostDialogs>>

FrameNavigated ==
    /\ navigation' = navigation + 1
    /\ refs' = <<>>
    /\ lateRefs' = FALSE
    /\ overtaken' = {t \in Tools : pc[t] \in {"capture", "captured", "store"}}
    /\ UNCHANGED <<dialog, lostDialogs>>

\* e.Frame.ParentID # "".
SubframeNavigated == UNCHANGED <<stateVars, lostDialogs, overtaken, lateRefs>>

DialogOpening(d) == dialog' = d /\ UNCHANGED <<navigation, refs, lostDialogs, overtaken, lateRefs>>

\* The mutant: only an answer of BrowserHandleDialog makes p.state forget a dialog.
ClosedUnseen == UNCHANGED <<stateVars, lostDialogs, overtaken, lateRefs>>

DialogClosed == dialog' = NoDialog /\ UNCHANGED <<navigation, refs, lostDialogs, overtaken, lateRefs>>

Observe ==
    /\ events # <<>>
    /\ \/ Head(events)[1] = "navigated" /\ FrameNavigated
       \/ Head(events)[1] = "subframe" /\ SubframeNavigated
       \/ Head(events)[1] = "opening" /\ DialogOpening(Head(events)[2])
       \/ Head(events)[1] = "closed" /\ DialogClosed
    /\ events' = Tail(events)
    /\ ahead' = [t \in Tools |-> IF ahead[t] = 0 THEN 0 ELSE ahead[t] - 1]
    /\ UNCHANGED <<pc, got, shown, document, marks, opened, wrong>>

------------------------------------------------------------------------------
(* Tools *)

At(t, from, to) == pc[t] = from /\ pc' = [pc EXCEPT ![t] = to]

Gets(t, what) == got' = [got EXCEPT ![t] = what]

\* Chrome sends a reply to t: after the events sent so far, and perhaps the one
\* that the command causes.
Replies(t) == \E n \in {Len(events), Len(events')} : ahead' = [ahead EXCEPT ![t] = n]

\* The mutant: a tool that fails forgets the dialog, too.
FailsAndClears(t) ==
    /\ pc[t] \in {"answer", "answered", "capture", "captured", "mark", "marked", "act"}
    /\ pc' = [pc EXCEPT ![t] = "idle"]
    /\ ahead' = [ahead EXCEPT ![t] = 0]
    /\ dialog' = IF pc[t] \in {"answer", "answered"} THEN NoDialog ELSE dialog
    /\ UNCHANGED <<navigation, refs, got, chromeVars, historyVars>>

\* p.run returns an error.
Fails(t) ==
    /\ pc[t] \in {"answer", "answered", "capture", "captured", "mark", "marked", "act"}
    /\ pc' = [pc EXCEPT ![t] = "idle"]
    /\ ahead' = [ahead EXCEPT ![t] = 0]
    /\ UNCHANGED <<stateVars, got, chromeVars, historyVars>>

\* The reply of a command that succeeded reaches the tool.
Arrives(t) ==
    /\ ahead[t] = 0
    /\ \E step \in {<<"answered", "clear">>, <<"captured", "store">>, <<"marked", "act">>} :
          At(t, step[1], step[2])
    /\ UNCHANGED <<stateVars, got, ahead, chromeVars, historyVars>>

(* BrowserHandleDialog *)

HandleDialog(t) ==
    /\ dialog # NoDialog
    /\ At(t, "idle", "answer")
    /\ UNCHANGED <<stateVars, got, ahead, chromeVars, historyVars>>

\* Chrome answers whatever dialog is on screen, and refuses if there is none.
ExecuteAnswer(t) ==
    /\ shown # NoDialog
    /\ At(t, "answer", "answered")
    /\ Gets(t, shown)
    /\ shown' = NoDialog
    /\ events' = Append(events, <<"closed", NoDialog>>)
    /\ Replies(t)
    /\ UNCHANGED <<stateVars, document, marks, historyVars>>

ClearDialog(t) ==
    /\ At(t, "clear", "idle")
    /\ dialog' = NoDialog
    /\ lostDialogs' = IF dialog \in {NoDialog, got[t]} THEN lostDialogs ELSE lostDialogs \cup {dialog}
    /\ UNCHANGED <<navigation, refs, got, ahead, chromeVars, opened, overtaken, lateRefs, wrong>>

(* BrowserSnapshot *)

Snapshot(t) ==
    /\ At(t, "idle", "capture")
    /\ overtaken' = overtaken \ {t}
    /\ UNCHANGED <<stateVars, got, ahead, chromeVars, opened, lostDialogs, lateRefs, wrong>>

ExecuteCapture(t) ==
    /\ At(t, "capture", "captured")
    /\ \E listing \in Listings : Gets(t, listing)
    /\ UNCHANGED events
    /\ Replies(t)
    /\ UNCHANGED <<stateVars, shown, document, marks, historyVars>>

\* The references are numbered and stored when the text has been rendered.
StoreRefs(t) ==
    /\ At(t, "store", "idle")
    /\ refs' = got[t]
    /\ lateRefs' = (t \in overtaken)
    /\ UNCHANGED <<dialog, navigation, got, ahead, chromeVars, opened, lostDialogs, overtaken, wrong>>

(* targetSelector, and the tools that act on the selector that it returns *)

\* got holds the element and its reference.
Target(t, i) ==
    /\ i \in DOMAIN refs
    /\ At(t, "idle", "mark")
    /\ Gets(t, <<refs[i], i>>)
    /\ UNCHANGED <<stateVars, ahead, chromeVars, historyVars>>

\* ResolveNode fails for an element of an earlier document.
ExecuteMark(t) ==
    /\ At(t, "mark", "marked")
    /\ got[t][1][1] = document
    /\ marks' = [marks EXCEPT ![got[t][1][2]] = got[t][2]]
    /\ UNCHANGED <<stateVars, got, ahead, shown, document, events, historyVars>>

\* document.querySelector: the first element with the attribute.
Selected(ref) == CHOOSE n \in Nodes : marks[n] = ref /\ \A m \in Nodes : marks[m] = ref => n <= m

ExecuteAct(t) ==
    /\ At(t, "act", "idle")
    /\ \E n \in Nodes : marks[n] = got[t][2]
    /\ wrong' = (wrong \/ got[t][1] # <<document, Selected(got[t][2])>>)
    /\ UNCHANGED <<stateVars, got, ahead, chromeVars, opened, lostDialogs, overtaken, lateRefs>>

------------------------------------------------------------------------------

Init ==
    /\ dialog = NoDialog /\ navigation = 0 /\ refs = <<>>
    /\ pc = [t \in Tools |-> "idle"]
    /\ got = [t \in Tools |-> NoDialog]
    /\ ahead = [t \in Tools |-> 0]
    /\ shown = NoDialog /\ document = 0 /\ marks = [n \in Nodes |-> 0] /\ events = <<>>
    /\ opened = {} /\ lostDialogs = {} /\ overtaken = {} /\ lateRefs = FALSE /\ wrong = FALSE

DialogStep(t) == HandleDialog(t) \/ ExecuteAnswer(t) \/ ClearDialog(t)

SnapshotStep(t) == Snapshot(t) \/ ExecuteCapture(t) \/ StoreRefs(t)

TargetStep(t) == (\E i \in DOMAIN refs : Target(t, i)) \/ ExecuteMark(t) \/ ExecuteAct(t)

Next ==
    \/ Chrome
    \/ Observe
    \/ \E t \in Tools : Fails(t) \/ Arrives(t) \/ DialogStep(t) \/ SnapshotStep(t) \/ TargetStep(t)

Spec == Init /\ [][Next]_vars

------------------------------------------------------------------------------
(* Properties *)

\* When no event is under way, p.state has the dialog on screen and no other: the
\* closed event and BrowserHandleDialog's own clearing leave no ghost behind.  It
\* lacks the dialog only if a BrowserHandleDialog that had answered an earlier one
\* has forgotten it.
DialogFollows ==
    events = <<>> => dialog = shown \/ (dialog = NoDialog /\ shown \in lostDialogs)

\* The references are of the document last navigated to, unless they were stored
\* by a BrowserSnapshot that was under way when the navigation was seen.
RefsFollowNavigation == \A i \in DOMAIN refs : refs[i][1] = navigation \/ lateRefs

\* The dialog on screen is known to p.state when no event is under way and no
\* tool is at work: "Dialog state is captured via CDP event listeners".
DialogCaptured ==
    (events = <<>> /\ \A t \in Tools : pc[t] = "idle") => dialog = shown

\* A tool that is given a reference acts on the element that the reference stood
\* for when it was looked up.
ReferenceIsTarget == ~wrong
==============================================================================
