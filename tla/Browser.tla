------------------------------ MODULE Browser --------------------------------
(***************************************************************************)
(* The Go API of api.go: New, NewPage, Page.run, Page.Close, Browser.Close *)
(* and watchDisconnect, with BrowserNavigate and BrowserTabs of            *)
(* mcp_tools.go, which share b.current and b.pageOrder with them.          *)
(*                                                                         *)
(* Callers are goroutines of the program; each may call one operation      *)
(* after the other.  A section under b.mu or p.mu is one action, and so is *)
(* each call into chromedp, which is external: it may fail at any time,    *)
(* and succeeds only while its contexts live and the extension is there.   *)
(***************************************************************************)
EXTENDS SequencesExt

CONSTANTS
    Callers,     \* goroutines that use the API
    Pages,       \* page objects, one for each NewPage that gets to make one
    Operations,  \* what callers call, a subset of AllOperations
    NoPage       \* no page

AllOperations == {"NewPage", "Navigate", "run", "ClosePage", "Close", "Tabs"}

ASSUME BrowserAssumption ==
    /\ NoPage \notin Pages
    /\ Operations \subseteq AllOperations

VARIABLES
    new,        \* how far New has come
    ready,      \* handler.Ready is closed
    done,       \* handler.Done is closed
    closed,     \* b.closed
    lost,       \* b.lost
    watching,   \* watchDisconnect waits
    pages,      \* b.pages
    pageOrder,  \* b.pageOrder
    current,    \* b.current
    pageClosed, \* the pages with p.closed
    cancelled,  \* the pages whose context is cancelled
    down,       \* what of the allocator, the root context and the server is gone
    pc,         \* where each caller is
    target,     \* the page it works on
    then,       \* where it goes on when that has succeeded
    todo,       \* the pages that Browser.Close has still to close
    list,       \* the pages that tabInfo has still to ask
    made,       \* history: the page objects made so far
    handed,     \* history: those that have been in b.pages
    told,       \* history: the session errors that callers were given
    late        \* history: the callers that began after a session error was given

newVars  == <<new, ready, done>>
flagVars == <<closed, lost, watching>>
tabVars  == <<pages, pageOrder, current>>
goneVars == <<pageClosed, cancelled, down>>
workVars == <<target, then, todo, list>>
callVars == <<pc, workVars>>
historyVars == <<made, handed, told, late>>
vars == <<newVars, flagVars, tabVars, goneVars, callVars, historyVars>>

------------------------------------------------------------------------------
(* New *)

\* server.Start has been called; browserlauncher.Launch starts the browser.
Launch ==
    /\ new = "start"
    /\ new' \in {"wait", "cleanup"}
    /\ UNCHANGED <<ready, done, flagVars, tabVars, goneVars, callVars, historyVars>>

\* WaitReady: the select takes either channel when both are closed, and the
\* timeout or the caller's context may come first.
WaitReady ==
    /\ new = "wait"
    /\ \/ ready /\ new' = "init"
       \/ new' = "cleanup"
    /\ UNCHANGED <<ready, done, flagVars, tabVars, goneVars, callVars, historyVars>>

\* chromedp.Run(rootCtx) fails, or is given up with rootCancel.
InitFails ==
    /\ new = "init"
    /\ \E root \in {{}, {"root"}} : down' = down \cup root \cup {"allocator"}
    /\ new' = "cleanup"
    /\ UNCHANGED <<ready, done, flagVars, tabVars, pageClosed, cancelled, callVars, historyVars>>

\* The mutant: nobody starts watchDisconnect.
InitUnwatched ==
    /\ new = "init"
    /\ ~done
    /\ new' = "up"
    /\ UNCHANGED <<ready, done, flagVars, tabVars, goneVars, callVars, historyVars>>

InitSucceeds ==
    /\ new = "init"
    /\ ~done
    /\ new' = "up"
    /\ watching' = TRUE
    /\ UNCHANGED <<ready, done, closed, lost, tabVars, goneVars, callVars, historyVars>>

\* The deferred server.Close.
Cleanup ==
    /\ new = "cleanup"
    /\ new' = "failed"
    /\ down' = down \cup {"server"}
    /\ UNCHANGED <<ready, done, flagVars, tabVars, pageClosed, cancelled, callVars, historyVars>>

NewStep == Launch \/ WaitReady \/ InitFails \/ InitSucceeds \/ Cleanup

------------------------------------------------------------------------------
(* Callers *)

At(c, from, to) == pc[c] = from /\ pc' = [pc EXCEPT ![c] = to]

StateError == IF closed THEN "closed" ELSE IF lost THEN "lost" ELSE "ok"

\* Caller c calls an operation, which starts with step to.
Calls(c, operation, to) ==
    /\ new = "up"
    /\ operation \in Operations
    /\ At(c, "idle", to)
    /\ late' = IF told = {} THEN late \ {c} ELSE late \cup {c}

\* The operation of c returns the session error.
Tells(c, error) ==
    /\ pc' = [pc EXCEPT ![c] = "idle"]
    /\ told' = told \cup {error}

\* stateError, at the start of NewPage and in Page.run.
StateRefuses(c) ==
    /\ pc[c] \in {"newpage", "state"}
    /\ StateError # "ok"
    /\ Tells(c, StateError)
    /\ UNCHANGED <<newVars, flagVars, tabVars, goneVars, workVars, made, handed, late>>

\* A part of the operation of c has succeeded.
Succeeds(c) == pc' = [pc EXCEPT ![c] = then[c]]

\* p.mu has been taken for target[c], in Page.run or Page.Close.
Closed(c) == target[c] \in pageClosed

------------------------------------------------------------------------------
(* NewPage *)

CallNewPage(c) ==
    /\ \E operation \in {"NewPage", "Tabs"} :
          /\ Calls(c, operation, "newpage")
          /\ then' = [then EXCEPT ![c] = IF operation = "Tabs" THEN "list" ELSE "idle"]
    /\ UNCHANGED <<newVars, flagVars, tabVars, goneVars, target, todo, list, made, handed, told>>

NewPageBegins(c, p) ==
    /\ p \in Pages \ made
    /\ StateError = "ok"
    /\ At(c, "newpage", "creating")
    /\ target' = [target EXCEPT ![c] = p]
    /\ made' = made \cup {p}
    /\ UNCHANGED <<newVars, flagVars, tabVars, goneVars, then, todo, list, handed, told, late>>

\* runWithCancellation returns an error, of chromedp or of the caller's context.
CreateFails(c) ==
    /\ At(c, "creating", "idle")
    /\ cancelled' = cancelled \cup {target[c]}
    /\ UNCHANGED <<newVars, flagVars, tabVars, pageClosed, down, workVars, historyVars>>

CreateSucceeds(c) ==
    /\ down = {} /\ ~done
    /\ At(c, "creating", "created")
    /\ UNCHANGED <<newVars, flagVars, tabVars, goneVars, workVars, historyVars>>

RegisterPage(c) ==
    /\ pages' = pages \cup {target[c]}
    /\ pageOrder' = Append(pageOrder, target[c])
    /\ current' = target[c]
    /\ handed' = handed \cup {target[c]}
    /\ Succeeds(c)

\* The mutants: the section checks nothing, or handler.Done instead of b.lost.
FinishUnchecked(c) ==
    /\ pc[c] = "created"
    /\ RegisterPage(c)
    /\ UNCHANGED <<newVars, flagVars, goneVars, workVars, made, told, late>>

FinishOnDone(c) ==
    /\ pc[c] = "created"
    /\ IF ~closed /\ ~done
       THEN RegisterPage(c)
       ELSE pc' = [pc EXCEPT ![c] = "refused"] /\ UNCHANGED <<tabVars, handed>>
    /\ UNCHANGED <<newVars, flagVars, goneVars, workVars, made, told, late>>

\* The second section of NewPage.
FinishNewPage(c) ==
    /\ pc[c] = "created"
    /\ IF StateError = "ok"
       THEN RegisterPage(c)
       ELSE pc' = [pc EXCEPT ![c] = "refused"] /\ UNCHANGED <<tabVars, handed>>
    /\ UNCHANGED <<newVars, flagVars, goneVars, workVars, made, told, late>>

\* The mutant: the page is not cancelled.
RefuseOnly(c) ==
    /\ pc[c] = "refused"
    /\ Tells(c, StateError)
    /\ UNCHANGED <<newVars, flagVars, tabVars, goneVars, workVars, made, handed, late>>

\* The page is cancelled, and stateError asked again: an error of "ok" would be
\* a NewPage that returns neither a page nor an error.
Refuse(c) ==
    /\ pc[c] = "refused"
    /\ cancelled' = cancelled \cup {target[c]}
    /\ Tells(c, StateError)
    /\ UNCHANGED <<newVars, flagVars, tabVars, pageClosed, down, workVars, made, handed, late>>

------------------------------------------------------------------------------
(* Page.run, and the tools that call it for the current page *)

\* An operation of a page that the caller has been given.
CallRun(c, p) ==
    /\ p \in handed
    /\ Calls(c, "run", "run")
    /\ target' = [target EXCEPT ![c] = p]
    /\ then' = [then EXCEPT ![c] = "idle"]
    /\ UNCHANGED <<newVars, flagVars, tabVars, goneVars, todo, list, made, handed, told>>

\* currentPage: BrowserNavigate makes a page if there is none.
CallNavigate(c) ==
    /\ StateError = "ok"
    /\ Calls(c, "Navigate", IF current = NoPage THEN "newpage" ELSE "run")
    /\ target' = [target EXCEPT ![c] = current]
    /\ then' = [then EXCEPT ![c] = "idle"]
    /\ UNCHANGED <<newVars, flagVars, tabVars, goneVars, todo, list, made, handed, told>>

NavigateRefused(c) ==
    /\ StateError # "ok"
    /\ Calls(c, "Navigate", "idle")
    /\ told' = told \cup {StateError}
    /\ UNCHANGED <<newVars, flagVars, tabVars, goneVars, workVars, made, handed>>

\* p.closed: ErrPageClosed is not a session error.
RunChecksPage(c) ==
    /\ At(c, "run", IF Closed(c) THEN "idle" ELSE "state")
    /\ UNCHANGED <<newVars, flagVars, tabVars, goneVars, workVars, historyVars>>

\* The mutant: run leaves it to chromedp to find the session gone.
RunRegardless(c) ==
    /\ At(c, "state", "running")
    /\ UNCHANGED <<newVars, flagVars, tabVars, goneVars, workVars, historyVars>>

RunBegins(c) ==
    /\ StateError = "ok"
    /\ At(c, "state", "running")
    /\ UNCHANGED <<newVars, flagVars, tabVars, goneVars, workVars, historyVars>>

RunSucceeds(c) ==
    /\ pc[c] = "running"
    /\ down = {} /\ ~done /\ target[c] \notin cancelled
    /\ Succeeds(c)
    /\ UNCHANGED <<newVars, flagVars, tabVars, goneVars, workVars, historyVars>>

RunFails(c) ==
    /\ At(c, "running", "failing")
    /\ UNCHANGED <<newVars, flagVars, tabVars, goneVars, workVars, historyVars>>

\* The error is replaced by the session's, if there is one by now.
RunReturns(c) ==
    /\ pc[c] = "failing"
    /\ IF StateError = "ok"
       THEN pc' = [pc EXCEPT ![c] = "idle"] /\ UNCHANGED told
       ELSE Tells(c, StateError)
    /\ UNCHANGED <<newVars, flagVars, tabVars, goneVars, workVars, made, handed, late>>

------------------------------------------------------------------------------
(* Page.Close *)

CallClosePage(c, p) ==
    /\ p \in handed
    /\ Calls(c, "ClosePage", "close")
    /\ target' = [target EXCEPT ![c] = p]
    /\ then' = [then EXCEPT ![c] = "idle"]
    /\ UNCHANGED <<newVars, flagVars, tabVars, goneVars, todo, list, made, handed, told>>

\* The mutant: Close does not look whether the page is closed.
CloseAgain(c) ==
    /\ At(c, "close", "cancel")
    /\ pageClosed' = pageClosed \cup {target[c]}
    /\ UNCHANGED <<newVars, flagVars, tabVars, cancelled, down, workVars, historyVars>>

ClosePage(c) ==
    /\ pc[c] = "close"
    /\ IF Closed(c) THEN Succeeds(c) ELSE pc' = [pc EXCEPT ![c] = "cancel"]
    /\ pageClosed' = pageClosed \cup {target[c]}
    /\ UNCHANGED <<newVars, flagVars, tabVars, cancelled, down, workVars, historyVars>>

CancelPage(c) ==
    /\ At(c, "cancel", "remove")
    /\ cancelled' = cancelled \cup {target[c]}
    /\ UNCHANGED <<newVars, flagVars, tabVars, pageClosed, down, workVars, historyVars>>

\* The mutants: the current page stays; Browser.Close holds b.mu while it closes
\* the pages, so that removePage has to wait for it.
RemoveKeepsCurrent(c) ==
    /\ pc[c] = "remove"
    /\ pages' = pages \ {target[c]}
    /\ pageOrder' = RemoveFirst(pageOrder, target[c])
    /\ Succeeds(c)
    /\ UNCHANGED <<newVars, flagVars, current, goneVars, workVars, historyVars>>

RemoveLocked(c) ==
    /\ closed => down # {}
    /\ pc[c] = "remove"
    /\ pages' = pages \ {target[c]}
    /\ pageOrder' = RemoveFirst(pageOrder, target[c])
    /\ current' = IF current # target[c] THEN current
                  ELSE IF pageOrder' = <<>> THEN NoPage ELSE Last(pageOrder')
    /\ Succeeds(c)
    /\ UNCHANGED <<newVars, flagVars, goneVars, workVars, historyVars>>

RemovePage(c) ==
    /\ pc[c] = "remove"
    /\ pages' = pages \ {target[c]}
    /\ pageOrder' = RemoveFirst(pageOrder, target[c])
    /\ current' = IF current # target[c] THEN current
                  ELSE IF pageOrder' = <<>> THEN NoPage ELSE Last(pageOrder')
    /\ Succeeds(c)
    /\ UNCHANGED <<newVars, flagVars, goneVars, workVars, historyVars>>

------------------------------------------------------------------------------
(* Browser.Close *)

CallClose(c) ==
    /\ Calls(c, "Close", IF closed THEN "idle" ELSE "closing")
    /\ closed' = TRUE
    /\ todo' = IF closed THEN todo ELSE pages
    /\ UNCHANGED <<newVars, lost, watching, tabVars, goneVars, target, then, list, made, handed, told>>

\* The pages are closed in the map's order, which is any order.
CloseNext(c, p) ==
    /\ p \in todo
    /\ At(c, "closing", "close")
    /\ todo' = todo \ {p}
    /\ target' = [target EXCEPT ![c] = p]
    /\ then' = [then EXCEPT ![c] = "closing"]
    /\ UNCHANGED <<newVars, flagVars, tabVars, goneVars, list, historyVars>>

\* rootCancel, allocatorCancel and server.Close, once the pages are closed.
CloseDown(c) ==
    /\ \E step \in {<<"closing", "root", "allocating">>, <<"allocating", "allocator", "serving">>,
                    <<"serving", "server", "idle">>} :
          /\ At(c, step[1], step[3])
          /\ step[1] = "closing" => todo = {}
          /\ down' = down \cup {step[2]}
    /\ UNCHANGED <<newVars, flagVars, tabVars, pageClosed, cancelled, workVars, historyVars>>

------------------------------------------------------------------------------
(* BrowserTabs: new is CallNewPage *)

\* The tab of an index, or the current one without.
TabsClose(c, p) ==
    /\ p \in ToSet(pageOrder) \cup {current}
    /\ Calls(c, "Tabs", "close")
    /\ target' = [target EXCEPT ![c] = p]
    /\ then' = [then EXCEPT ![c] = "list"]
    /\ UNCHANGED <<newVars, flagVars, tabVars, goneVars, todo, list, made, handed, told>>

TabsSelect(c, p) ==
    /\ p \in ToSet(pageOrder)
    /\ Calls(c, "Tabs", "run")
    /\ current' = p
    /\ target' = [target EXCEPT ![c] = p]
    /\ then' = [then EXCEPT ![c] = "list"]
    /\ UNCHANGED <<newVars, flagVars, pages, pageOrder, goneVars, todo, list, made, handed, told>>

TabsList(c) ==
    /\ Calls(c, "Tabs", "list")
    /\ UNCHANGED <<newVars, flagVars, tabVars, goneVars, workVars, made, handed, told>>

\* tabInfo copies the tabs and asks each of them.
ListBegins(c) ==
    /\ At(c, "list", "listing")
    /\ list' = [list EXCEPT ![c] = pageOrder]
    /\ UNCHANGED <<newVars, flagVars, tabVars, goneVars, target, then, todo, historyVars>>

ListNext(c) ==
    /\ list[c] # <<>>
    /\ At(c, "listing", "run")
    /\ target' = [target EXCEPT ![c] = Head(list[c])]
    /\ then' = [then EXCEPT ![c] = "listing"]
    /\ list' = [list EXCEPT ![c] = Tail(@)]
    /\ UNCHANGED <<newVars, flagVars, tabVars, goneVars, todo, historyVars>>

ListReturns(c) ==
    /\ list[c] = <<>>
    /\ At(c, "listing", "idle")
    /\ UNCHANGED <<newVars, flagVars, tabVars, goneVars, workVars, historyVars>>

------------------------------------------------------------------------------
(* The session *)

\* The extension reports that it is initialized, which may be one that connects
\* after the first is lost; the first is lost, or goes with the server.
ExtensionReady ==
    /\ ~ready /\ "server" \notin down
    /\ ready' = TRUE
    /\ UNCHANGED <<new, done, flagVars, tabVars, goneVars, callVars, historyVars>>

ExtensionLost ==
    /\ ~done
    /\ done' = TRUE
    /\ UNCHANGED <<new, ready, flagVars, tabVars, goneVars, callVars, historyVars>>

WatchDisconnect ==
    /\ watching /\ done
    /\ watching' = FALSE
    /\ lost' = ~closed
    /\ UNCHANGED <<newVars, closed, tabVars, goneVars, callVars, historyVars>>

------------------------------------------------------------------------------

Init ==
    /\ new = "start" /\ ready = FALSE /\ done = FALSE
    /\ closed = FALSE /\ lost = FALSE /\ watching = FALSE
    /\ pages = {} /\ pageOrder = <<>> /\ current = NoPage
    /\ pageClosed = {} /\ cancelled = {} /\ down = {}
    /\ pc = [c \in Callers |-> "idle"]
    /\ target = [c \in Callers |-> NoPage]
    /\ then = [c \in Callers |-> "idle"]
    /\ todo = {}
    /\ list = [c \in Callers |-> <<>>]
    /\ made = {} /\ handed = {} /\ told = {} /\ late = {}

Calling(c) ==
    \/ CallNewPage(c) \/ CallNavigate(c) \/ NavigateRefused(c) \/ CallClose(c) \/ TabsList(c)
    \/ \E p \in Pages : CallRun(c, p) \/ CallClosePage(c, p) \/ TabsClose(c, p) \/ TabsSelect(c, p)

NewPageStep(c) ==
    \/ StateRefuses(c) \/ \E p \in Pages : NewPageBegins(c, p)
    \/ CreateFails(c) \/ CreateSucceeds(c) \/ FinishNewPage(c) \/ Refuse(c)

RunStep(c) ==
    \/ RunChecksPage(c) \/ RunBegins(c)
    \/ RunSucceeds(c) \/ RunFails(c) \/ RunReturns(c)

ListStep(c) == ListBegins(c) \/ ListNext(c) \/ ListReturns(c)

\* The steps of Page.Close and Browser.Close.
ClosingStep(c) ==
    \/ ClosePage(c) \/ CancelPage(c) \/ RemovePage(c)
    \/ CloseDown(c) \/ \E p \in Pages : CloseNext(c, p)

Next ==
    \/ NewStep \/ ExtensionReady \/ ExtensionLost \/ WatchDisconnect
    \/ \E c \in Callers : Calling(c) \/ NewPageStep(c) \/ RunStep(c) \/ ListStep(c) \/ ClosingStep(c)

Spec == Init /\ [][Next]_vars

\* Goroutines that can run do, and the cancel functions of chromedp return.
Fairness == WF_vars(WatchDisconnect) /\ \A c \in Callers : WF_vars(ClosingStep(c))

FairSpec == Spec /\ Fairness

------------------------------------------------------------------------------
(* Properties *)

\* b.pages, b.pageOrder and b.current, which NewPage, removePage and BrowserTabs
\* update under b.mu, describe the same tabs: each page is listed once, and
\* there is a current page, one of them, whenever there is a page at all.
TabsAgree ==
    /\ ToSet(pageOrder) = pages
    /\ Len(pageOrder) = Cardinality(pages)
    /\ IF pages = {} THEN current = NoPage ELSE current \in pages

\* A page that is closed and still listed is about to be taken out by one
\* caller, and by no other (Page.Close, whoever calls it).
ClosedPagesLeave ==
    \A p \in pages \cap pageClosed :
       Cardinality({c \in Callers : pc[c] \in {"cancel", "remove"} /\ target[c] = p}) = 1

\* Browser.Close misses no page, one that NewPage is making included: a listed
\* page of a closed browser is closed, or is one that Close has yet to come to.
CloseMissesNoPage ==
    closed => \A p \in pages \ pageClosed :
       p \in todo \/ \E c \in Callers : pc[c] = "close" /\ then[c] = "closing" /\ target[c] = p

\* Every tab that chromedp was asked for is listed, is being made, or has had its
\* context cancelled, so that none is left behind in the browser (NewPage's
\* error paths, Page.Close).
NoTabLeaked ==
    \A p \in made \ (pages \cup cancelled) :
       \E c \in Callers : pc[c] \in {"creating", "created", "refused"} /\ target[c] = p

\* Whoever is refused is told why, also when NewPage's second section refuses the
\* page and asks stateError only after the unlock; and once some caller has been
\* told that the session is closed or lost, no operation begun later gets as far
\* as chromedp.
SessionErrorsAreFinal ==
    /\ "ok" \notin told
    /\ \A c \in late : pc[c] \notin {"creating", "created", "running"}

\* A session that is lost while New returns or later is found out by
\* watchDisconnect, unless the browser is closed first.
LossIsNoticed == (new = "up" /\ done) ~> (lost \/ closed)

\* Browser.Close brings everything down, and a closed page leaves the tabs.
CloseFinishes ==
    /\ closed ~> down = {"root", "allocator", "server"}
    /\ \A p \in Pages : p \in pageClosed ~> p \notin pages
==============================================================================
