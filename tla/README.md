# Verification of playwright-extension-bridge-go

This directory holds TLA+ models of the bridge, the TLC configurations that check
them on small instances, and theorems about them that TLAPS proves for every
instance. `PROJECT.json` maps every definition to the lines of the source it models,
and lists the runs, the hazards they are for, the findings and the theorems.

## 1. The system

The bridge lets a Go program drive a real Edge or Chrome through the Playwright
browser extension.

    Go program ── Browser, Page, MCP tools ── chromedp (CDP client)
                                                 │ websocket /cdp
                                            relay.Server ── protocol.Handler ── BrowserModel
                                                 │ websocket /extension (relay.ExtensionConn)
                                            Playwright extension ── chrome.debugger, chrome.tabs

`New` starts the relay, opens the browser on the extension's page, waits for the
extension to dial in and connects chromedp to the relay's other endpoint. From then
on CDP commands go down through the handler, which answers some itself and sends the
others to the extension, and events come up.

| Component | State | Operations | Interacts with |
|---|---|---|---|
| `ExtensionConn` (internal/relay/extension_conn.go) | pending requests by id, closed and done, two mutexes | Send, Run, deliverResponse, Close, shutdown | called by the handler (Send) and the server (Run, Close); calls back onEvent and onClose |
| `BrowserModel` (browser_model.go) | known tabs, sessions by tab and by id, attaches under way, autoAttach | OnTabCreated/Removed, OnDebuggerDetach/Event, EnableAutoAttach, CreateTarget, CloseTarget, Forward | sends commands through `ExtensionConn.Send`, emits CDP events |
| `Handler` (handler.go) | sender, emit, ready, done | SetExtension, ExtensionDisconnected, SetCDPEmitter, HandleCDP, HandleExtensionEvent, IsReady | called from Run's goroutine and from one goroutine per CDP request |
| `Server` (server.go) | closed, extensionConn, cdpConn | handleExtension, handleCDP, onExtensionClosed, Close | registers connections with the handler under a second lock |
| `Browser`, `Page` (api.go) | pages, pageOrder, current, closed, lost; p.closed | New, NewPage, Page.run, Page.Close, Close, watchDisconnect | chromedp; the handler's Done |
| `pageState` (page_state.go) | dialog, file chooser, refs, navigation, console, requests | the listener of a page's CDP events | written by chromedp's goroutine and by the tools |
| MCP tools (mcp_tools.go) | none of their own | the 24 tools | Browser, Page and pageState |
| launcher, wire types | none | - | - |

What is hard about it, component by component, and the properties that make it right:

* **ExtensionConn**: answers that are late or come twice, contexts that expire while
  the answer is being delivered, three goroutines that reach `shutdown` at once,
  channels filled with a mutex held. An answer must belong to its request, nobody may
  block for good, no request may leak, `onClose` runs once.
* **BrowserModel**: several goroutines want the same tab attached, while the reader
  removes and detaches it; a command is answered with success when its tab is already
  gone; a command expires here and succeeds in the browser. One attach at a time,
  sessions that agree with what the client was told and with the browser's debuggers,
  no tab forgotten. A command is looked up under the lock and sent after it: it must
  not reach the tab that has come in the place of the one it names.
* **Handler and Server**: two locks register the same two connections, and nothing
  holds both all the time; connections are accepted while others are torn down and
  while the server closes. Registrations that agree, nothing left open, no client
  without its extension. Replies and events are written by different goroutines:
  a reply must not pass the events that came before it.
* **Browser and Page**: pages are made, closed and selected while the browser closes or
  the session is lost. One view of the tabs, no tab left behind, errors that are final.
* **pageState**: everything is read under a lock, used without it and written later,
  when a newer event may have been handled; redirects share one request id.
* **MCP tools**: windows clipped and merged at the edges; polls that take time, against
  two deadlines.

## 2. The modules

| Module | Models | Checked by | Theorems |
|---|---|---|---|
| `RequestReply` | the abstract request/reply service of `Send` | refinement from `ExtensionConn` | |
| `SessionLife` | the abstract life of sessions, as the CDP client may rely on it | refinement from `BrowserModel` and from `Routing` | |
| `ExtensionConn` | extension_conn.go | run as it is (2 runs) | `ExtensionConnProofs` |
| `BrowserModel` | attaching, detaching and auto-attach of browser_model.go, the commands and events of handler.go that change it, the browser | `MCBrowserModel` (2 runs) | `BrowserModelProofs` |
| `Routing` | `Forward`, `AttachToTarget` and `OnDebuggerEvent` of browser_model.go, the dispatch and emitCDP of handler.go, the goroutine of each CDP request in server.go | run as it is | `RoutingProofs` |
| `Relay` | server.go and the registration part of handler.go | `MCRelay` (2 runs) | `RelayProofs` |
| `Browser` | api.go and BrowserNavigate, BrowserTabs | `MCBrowser` (2 runs) | `BrowserProofs` |
| `PageState` | the dialog and the references of page_state.go and the tools that use them | `MCPage`, `MCPageState` (2 runs) | `PageStateProofs` |
| `FileChooser` | the file chooser of page_state.go and BrowserFileUpload | `MCPage` | `ListenerProofs` |
| `NetworkLog` | the network and console events of page_state.go | `MCPage` | `ListenerProofs` |
| `FindWindows` | the loop of BrowserFind that gathers windows of lines | `MCPage` | `ToolProofs` |
| `WaitFor` | BrowserWaitFor, waitForPageText | `MCPage` | `ToolProofs` |

In all of them a critical section of a mutex is one action, as is a call into a library,
a send on or a receive from a channel, and every return path is an action or a disjunct.
Program counters carry the names of the steps. Definitions marked *mutant* in a comment
belong to no specification: they are the faulty versions of the code that each property
must tell from the real one. Variables marked *history* only record what happened and
guard nothing.

**ExtensionConn.** Callers run `Send` (Register under `c.mu`, `write` under
`c.writeMu`, the `select` over context, done and the one-slot channel), one goroutine
runs `Run`, closers run `Close`. `shutdown` closes the pending channels with `c.mu`
held and notifies afterwards. The websocket may break at any time, the extension may
answer a request several times, or send events and garbage. `RequestReply` has only
the calls, which of them are answered, and how they ended; `ImplementsService` maps
the one to the other.

**BrowserModel.** Workers are the goroutines that `OnTabCreated` starts, clients the
goroutines of CDP requests (`EnableAutoAttach`, `CreateTarget`, `CloseTarget`), the
reader is Run's goroutine. The browser's side (open tabs, attached debuggers, the
ordered messages to the reader) is external. A command is sent, executed and answered
in three steps; with `Expires` the caller gives up and the browser may still execute.

**Routing.** It has the requests that `Forward` serves. One looks its session up under `m.mu` (`FindAny`, `FindSession`,
`FindChild`; Forward takes the lock once for each of them) and is sent after the unlock.
The extension's messages form one queue, `inbox`, which the reader handles one after the
other; it writes an event to the client itself (`emitting`), and does not read on until
that is written. Replies are handed to the goroutine that waits, which writes them on its
own. Chrome executes the commands in any order, creates and ends child sessions and
detaches tabs. The attaching of a tab, which BrowserModel has in detail, is three steps
here (`Attach`, `Commit`, `EmitAttached`) by one goroutine per tab, as
`OneAttachPerTab` allows. Every error of `Send` is one outcome of the request
(`Expires`): that the connection is closed, cannot be written to, or is lost while it
waits differs from a timeout in nothing but that no command gets to Chrome, or no
reply comes any more. What the client knows (`reported`, `ended`) is history, and
the properties are about that knowledge.

**SessionLife.** The four steps in the life of a session, without a goroutine, a lock or a
message: a tab that has none gets one, with an id never used before (`Begins`); the tab
has none again (`Finishes`); the client is told of it (`IsTold`), and of its end
(`IsOver`), which needs that no tab has it. The last two are steps of their own because
the code emits after the unlock; for the same reason it is not promised that the beginning
is told first: the reader may report the end of a session while the goroutine that has
stored it has yet to report the beginning. BrowserModel and Routing both implement it, the
one with all goroutines that attach a tab, the other with one per tab and with the client
that asks by AttachToTarget. Both keep the same promises about the sessions: so far are
the three attaching steps of Routing shown to stand for attachTab.

**Relay.** Every dialled websocket has a goroutine, each caller of `Server.Close` or of
`Send`, and the listener, have theirs. `s.mu` sections that call the handler take `h.mu` within and are
one action; `ExtensionDisconnected`, `ClearCDPEmitter` and the `s.mu` sections after
them are separate ones. An ExtensionConn is what `ExtensionConn` proves of it: `onClose`
runs once, in the goroutine that shuts it down first. That may be Run, a Close, or a
`Send` that has copied the handler's sender (`TakeSender`) and fails to write
(`SendFails`), whose goroutine then goes through onExtensionClosed while Run reads on; a
`Send` that does not fail changes nothing here. The websocket library's close
handshake is one step. `http.Shutdown`, the last call of `Server.Close`, ends with its
context, touches neither websocket, and is left out; a further call of `Server.Close`
returns at once. What the code does with a websocket that `SetExtension` or
`SetCDPEmitter` refuses is left out, because `RegistrationsAgree` shows there is none.

**Browser.** Callers call any operation of the API, again and again. `then` says where a
caller goes on when a nested call (Page.Close within Browser.Close, run within tabInfo)
has succeeded. chromedp is external: a call may fail at any time, and succeeds only
while its contexts live, nothing is down and the extension is there.

**PageState.** Chrome's events arrive in order; a reply arrives after the events before
it, but later events may overtake it, because each CDP request is answered by a
goroutine of its own (server.go, handleCDP; Routing's `EventsBeforeReply`). `Listings`
stands for the rendering of the accessibility tree: which elements get references e1,
e2, ... depends on depth, root and page, so any increasing choice is possible.

**FileChooser.** BrowserFileUpload takes the chooser, sets the files and forgets it, in
three steps; choosers may open, and documents go, in between. A failed command may have
been executed.

**NetworkLog.** Chrome's side is the log as it should be: `hops` has one entry for each
request and each redirect of it, `said` the document that wrote each message. Its events
reach the listener in order, and the listener's `requests`, `requestByID` and `console`
are compared with it. Some requests began before the observers were set up.

**FindWindows** is the loop over the matches, any set of lines. **WaitFor** is one call
with a clock: the sleep, the polls that the relay may take `CommandTimeout` to answer,
the deadline of the loop and the deadline of the caller.

**MCPage** instantiates the five parts of a page. They share no variable, so that
checking them side by side shows nothing more than checking them one at a time:
`part` picks one, and the others stay at their first state. `PageInit` keeps the
inputs of the parts that do not run at one value.

## 3. The runs

| Run | Instance | Shows |
|---|---|---|
| conn_safety | 2 callers, 1 closer, 2 ids, each answered up to twice | `NoBlockedSender`, `NoLeak`, `ShutdownIsFinal`, and the refinement of `RequestReply`: `ImplementsService` |
| conn_live | the same, answered once | `ImplementsFairService`, `LossIsHandled`, each with and without a Run that may be held up for good |
| model_two_tabs | 2 tabs, 1 client with 2 commands, 3 workers, 1 detach by the user | `SingleFlight`, `EventsAgree`, `NoTabMissed`, and the refinement of `SessionLife`: `ImplementsSessions` |
| model_one_tab | 1 tab, 2 clients with 1 command each, 2 workers, 1 expiring command, 1 detach | `SessionsAreReal`, `NoDebuggerLeak`, `OnlyLostSessionsEnd`, `AttachReturns` |
| routing | 2 tabs, 2 sessions, 1 child session, 1 request | `RoutedToOwner`, `EndedSessionsRefuse`, `ReportedSessionsServe`, `EventsBeforeReply`, `AnswersAreReady`, and the refinement of `SessionLife`: `ImplementsSessions` |
| relay_safety | 2 extensions, 2 clients, 2 closers, 1 Send | `RegistrationsAgree`, `CloseIsFinal`, `OneBrowser` |
| relay_live | 1 extension, 2 clients, 1 closer, 1 Send | `LossBringsDownBoth`, `CloseTerminates` |
| browser_calls | 2 callers, 2 pages, all operations | `TabsAgree`, `SessionErrorsAreFinal`, `CloseMissesNoPage`, `NoTabLeaked` |
| browser_close | 3 callers, 1 page, the operations that make and close | `ClosedPagesLeave`, `LossIsNoticed`, `CloseFinishes` |
| page_parts | 2 tools, 2 dialogs, 1 navigation; 2 uploads, 3 choosers; 2 requests, one begun unseen, 4 hops, 1 message; 11 lines; a sleep of 2, 3 units for a text, polled every 2, answered within 2 | `DialogFollows`, `RefsFollowNavigation`; `ChooserFollows`; `LogTellsTruth`; `WindowsAreExact`; `WaitKeepsItsTimes` |
| page_dialog_lost | 1 tool, 2 dialogs | `DialogCaptured` is violated |
| page_wrong_target | 1 tool, 2 elements | `ReferenceIsTarget` is violated |

Each property is stated in words above its definition. Every run but page_dialog_lost
and page_wrong_target passes. The bounds are those at which every race of the component
can happen: two goroutines on each side of each lock and a third party that ends things;
a second request, tab, dialog, chooser or snapshot, so that something old can be taken
for something new; one expiry or detach, because a second one meets no state the first
has not made possible for a tab; one Send that fails, because an extension is shut down
once. In particular: two tabs that may be attached anew, with
two ids, are what it takes to mistake one session for another, and one child session
can outlive, follow or precede the session of its tab; one request is enough because requests share no state but
the model, which only the reader and the attaching goroutines change. Four hops allow
a request with two redirects beside another one. Eleven lines hold a window that is
clipped at the start, two that touch or lie one line apart, and one that is clipped at
the end. The times of WaitFor are the smallest at which a poll can be late for either
deadline and the interval does not divide the limit. Symmetry is used where no liveness
is checked; `SessionLife` treats all tabs alike, too. Deadlock is not checked: in every model everything may end
closed, or everybody may be idle.

The bounded counters (`MaxID`, `MaxAnswers`, `MaxOps`, `MaxTimeouts`, `MaxDetaches`,
`MaxSessions`, `MaxNavigations`, `MaxEvents`, `MaxHops`, `MaxSaid`, `MaxLoaded`,
`MaxLines`) are in guards or in `Init`. The proofs hold for all of their values.

**Fairness.** Goroutines that can run do: weak fairness for the steps of each. In
ExtensionConn `RunReads` has strong fairness, because a response is read from a FIFO
socket on which events also arrive, and so is not passed over forever. No fairness is
given to `RunEventDone`: onEvent writes events to the CDP client without a deadline
(server.go, cdpWriter.Write), so that a client that does not read may hold Run up for
good. The two liveness properties say what is promised even then, and what only if
`EventsReturn`, that Run is not held up for good; that is a premise of the property,
and no assumption about the program. In BrowserModel
a command is answered or expires, since handler.go gives it `extensionCommandTimeout`
(30 s); that its emits go on (`EmitAttached`, `EmitDetached`) is assumed there. Relay
assumes nothing of Run at all, only that onExtensionClosed, the closing goroutines and a
client's reading goroutine go on. In Routing writes to
the client are not fair, and `AnswersAreReady` shows that a client that does not read
holds the reader up and still keeps no command waiting beyond its timeout. Nothing is
assumed about users, callers, the extension or the network: connections need not break,
answers need not come. Browser assumes that chromedp's cancel functions return.

## 4. What the checks say about the code

Two properties that its documents state do not hold.

* **A dialog can be forgotten** (`page_dialog_lost`). `BrowserHandleDialog` clears
  `p.state.dialog` when its command has returned. The listener has done that already,
  and if the page opens its next dialog at once, as two `alert` calls in a row do,
  the listener may have stored that one: it is cleared, stays on screen, and each
  later call returns "no dialog visible". `DialogFollows` shows that this is the only
  way to lose a dialog.
* **A reference can select the wrong element** (`page_wrong_target`).
  `targetSelector` sets `data-pecdp-ref="e1"` on the element and nobody removes it.
  After another snapshot e1 may be another element; then two elements have the mark
  and `document.querySelector` takes the first. One goroutine is enough.

The other properties hold, some only with an exception that the property names, and
these exceptions are worth knowing:

* `SessionsAreReal`: a tab that is removed or detached after its last answer and before
  the session is stored gets a session that stays for good (variable `missed`).
* `NoTabMissed`: an attach that failed or came undone is not tried again (variable `gaveUp`).
* `NoDebuggerLeak`, `OnlyLostSessionsEnd`: an expired attach or detach may leave the
  debugger attached without a session (variable `unsure`).
* `OneBrowser`: handleCDP reads IsReady before it takes `s.mu`, so that a client can be
  accepted after its extension is lost and is then not closed (`home` is unset).
* `CloseIsFinal`: a Run that gives up on a message, and a Send that fails before its
  write has begun (its context expires while it waits for `writeMu`), shut the connection
  down and leave the websocket open. It is unregistered, so that `Server.Close` does not
  find it; after a failed Send, Run even reads on.
* `LossIsHandled`, `ImplementsFairService`: as long as the CDP client does not read, Run may
  be held up in onEvent. Then a websocket that breaks is not found out, unless a Send
  fails on it or someone closes, and an answer that has come is not delivered: the
  callers wait until `extensionCommandTimeout`.
* `RoutedToOwner`: a command that was looked up before its tab is detached and is sent
  after the tab is attached anew reaches the tab's new session.
* `RefsFollowNavigation`: a snapshot that was under way at a navigation stores
  references of the old document (variable `lateRefs`).
* `ChooserFollows`: an upload that is answered after the next chooser has opened forgets
  that one (`forgotten`), and an upload that fails after Chrome has set the files leaves
  a chooser that has been served (`unsure`).

`missed`, `unsure`, `gaveUp`, `home`, `lateRefs`, `lostDialogs` and `forgotten` stand for
just these races: a property with such an exception does not rule its race out, which
the code has, but says that there is no other. The hazards in `PROJECT.json` say so, too.

## 5. What is proved

The proof modules extend the models and assume only the constants' assumptions stated
there (finite or infinite sets of goroutines, tabs, connections; any bounds). Each
proves an inductive invariant, action by action, and derives the properties from it.

* **ExtensionConnProofs**: `IInv == TypeOK /\ CloseInv /\ IdInv /\ PairInv`. `CloseInv`
  ties `closed` to an empty `pending`, to the shutdown errors in the channels and to the
  one goroutine that owes the call of onClose;
  `IdInv` says that an id is used once and that the channel of a pending request is
  empty; `PairInv` that each answer, wherever it is on its way, is filed under the id of
  the request it answers. The properties alone are not inductive: that an answer is
  returned to its caller needs to be known of the wire, of Run's hands and of the
  channel. From it follow `NeverBlocks`, `PendingOwned`, `ClosedOnce`, and
  `Refinement`: every step is a step of `RequestReply` or a stutter.
* **BrowserModelProofs**: `IInv == TypeOK /\ AttachInv /\ SidInv /\ EventsAgree /\
  NoTabMissed /\ DebugInv /\ EndInv`. `AttachInv` says that the goroutine in `attaching[t]` and the
  goroutine that attaches t are the same one; `SidInv` that ids in use are below `nextID`
  and belong to one tab or one goroutine. They give `OneAttachPerTab`, `FreshSessions`,
  `ViewAgrees` and `AllTabsCaredFor`. `DebugInv` relates the sessions to the browser's
  debuggers, and has to speak about all that is under way between the two. `CallInv`: a
  goroutine has one call under way, which is either a command to execute, or a reply in
  the queue, or what its wait returned; a command that nobody waits for any more is for a
  tab in `unsure`. `CallerInv` and `AnswerInv` say what the caller, or the reply that is on
  its way to it, knows of the tab. The core of it is the order of the queue: when an
  attach has succeeded, every loss of an earlier debugger of that tab is before the reply,
  so that the reader has read it before the session is stored; a loss behind the reply is
  of this debugger, which is then gone. `SessionInv` is the same of stored sessions. They
  give `SessionsHaveDebuggers`, `DebuggersHaveSessions` and `LateLossesHarmless`.
  `SessionsLiveOnce` is the refinement of `SessionLife`: a commit is `Begins`, because the id
  is held by one goroutine and has never been reported; a loss is `Finishes`; the emits are
  `IsTold` and `IsOver`, all other steps stutter. `EndInv` (what the reader still has to
  report as detached has lived) and `EventsAgree` are what `IsOver` needs.
* **RoutingProofs**: `IInv` has nine parts besides TypeOK. `HomeInv` says that an id,
  wherever it is found (in the model, in a message, in the reader's hands), belongs to
  the tab it was made for, and `RouteInv` that a request on its way carries that tab:
  together they give `Routed`. Two other theorems are about what the client has been
  told, and so need the order of the messages: `MakingInv` (a tab is attached by one
  goroutine and its answer comes once), `InboxInv` and `ChildInv` (each child session is
  announced once, before its end, and is in the model exactly between the two),
  `SessionInv` (a session is reported after it is stored and ended after it is removed),
  `RequestInv` (a request for an ended session has been refused or will be). They give
  `EndedRefuse` and `ReportedServe`. `AheadInv` counts: a request has one command or one
  reply under way, and the events that Chrome sent before the reply and that the client
  has not got are those at smaller places of the queue, and the one being written. With
  it, `EventsFirst`: nothing but the queue's order and the reader's blocking write is
  needed for a reply to come after its events. `SessionsLiveOnce` is the refinement of
  `SessionLife`, from `MakingInv`, `SessionInv` and `BoundInv`: the attaches under way have
  their ids reserved, so that no id is beyond `MaxSessions`, the bound of the model.
* **RelayProofs**: `IInv == TypeOK /\ RegInv /\ SocketInv /\ HomeInv`. `RegInv` says
  what is registered in each step of accepting and tearing down; `SocketInv` who still
  has to close each open websocket, if not its Run or a Send has abandoned it; `HomeInv` follows a client and the extension it was
  accepted for. They give `RegistrationsMatch`, `ClosedForGood` and `CommandsStayHome`.
* **BrowserProofs**: `IInv` joins `ErrorInv` (b.lost is set by one step, and whoever is
  refused is refused for a flag that stays), `PageInv` (a page is in the hands of the one
  caller that makes it until it is in b.pages, and leaves that only when it is closed),
  `OrderInv` (b.pageOrder lists each page once; `TabsAgree` follows because a sequence
  without repetition is a bijection onto its elements), `LeaveInv` (the one caller that
  closed a page takes it out, after it has cancelled it), `CloseMissesNoPage` and
  `NoTabLeaked`, which are inductive given those. `RemoveFirstFacts` and `RemovedFacts`
  say what removePage does to the order. Six theorems.
* **PageStateProofs**: the events under way are a queue, so that the invariants say what
  the queue will do to p.state: `NavigationInv` (navigations follow one another without a
  gap up to the document on screen), `RefsInv` (a snapshot on its way is of that
  document, or has a navigation before it), `DialogInv` (the last dialog event under way
  is what is on screen). They give `RefsFollow` and `DialogKnown`.
* **ListenerProofs**, of the file chooser: `OnceInv` (a chooser is announced once, before
  it can be chosen) and `LatestInv` give `ChooserKnown`. Of the log: `Places` are the
  places in the queue at which the things numbered n + 1 to m are announced, one each and
  in order. `AnnouncedInv` says that the hops not yet logged have such places, and that
  only the first hop of an id is announced without a redirect; `ConsoleInv` the same of
  messages and navigations, and that a navigation is announced before a message exactly
  if the message was written after it. `HopsInv` is Chrome's side: all hops of an id but
  the last are redirects. `OutcomeInv` says that what becomes of a request is sent behind
  all its hops, `FoundInv` that `requestByID` finds the last entry of an id, and
  `EntriesInv` that an entry says nothing that is not so, and lacks of the last hop only
  what is under way. The point of the argument is in `NetLogged` and `NetApplied`: the
  entry that a redirect settles is of a hop that is no longer the last, and the entry that
  an answer is stored in is of the last hop, because no hop of that id is announced
  behind it. They give `LogIsTrue`.
* **ToolProofs**: `Exact`, for snapshots of any length. The invariant says that the
  matches are taken in order and that the last window ends with the surroundings of a
  match already taken, which is why extending it is enough. `WaitInTime`: `MetInv` says
  that what is no longer left has been seen, `PaceInv` that the sleep, and the time that
  the texts still to wait for may take (`Budget`), fit into the time of the call, and how
  late a poll that is under way can be. The times of the model are integers, and its clock
  does not pass a timer that is due: the theorem is about what the code allows itself, not
  about how punctual the scheduler is.

The type invariants of ExtensionConn, Routing, Browser and PageState are proved with the
inductive invariants and are no properties of a run; nor is that of `FreshSessions`, of
which the refinement of SessionLife says more.

**Only model-checked**: the liveness properties `ImplementsFairService`, `LossIsHandled`,
`AttachReturns`, `AnswersAreReady`, `LossBringsDownBoth`, `CloseTerminates`, `LossIsNoticed`
and `CloseFinishes`, because the prover has no rule for fairness or ENABLED. Every
invariant, every action property and every refinement without fairness that the passing
runs check is a theorem.

## 6. What is not modelled

* Tables and formatting of the tools: key names and modifiers, regular expression flags,
  the rendering of snapshots and logs. They keep no state.
* Dispatch of mouse and key events, screenshots, evaluation of scripts: calls into
  Chrome; for the API they are all `CallRun`.
* The bodies of requests. NetworkLog has the entries; GetResponseBody is asked by id and
  so gives the body of the last hop whichever entry is named.
* The tools that list the console and the network log (BrowserConsoleMessages,
  networkRequests): they only read what NetworkLog keeps.
* The CDP commands that the handler answers with constants, and the lookups of
  BrowserModel that only read (GetTargetInfo, GetTargets, IsTopLevelSession,
  EmitTargetCreatedEvents): they change no state.
* The launcher (looks up a profile, formats a URL and starts a process) and the type
  declarations.

## 7. Plan

Done: RequestReply and ExtensionConn, SessionLife, BrowserModel, Routing, Relay, Browser, PageState,
FileChooser, NetworkLog, FindWindows and WaitFor, with their runs and with the proofs of
all their safety properties and refinements. Left, in this order:

1. **Compositions**: Relay with ExtensionConn in place of its `loss` variable; BrowserModel
   over `RequestReply`; the tab-level events of Routing read from BrowserModel's queue.
2. **WaitFor**: that the call returns, with time that goes on.
