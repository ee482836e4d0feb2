----------------------------- MODULE FileChooser -----------------------------
(***************************************************************************)
(* The file chooser of a page: the listener of initObservers (page_state)  *)
(* notes the input element of the last one, BrowserFileUpload (mcp_tools)  *)
(* gives it the files and forgets it.                                      *)
(*                                                                         *)
(* Chooser dialogs are intercepted, so that Chrome shows none and sends no *)
(* event when one is over.  A navigation does away with the elements of    *)
(* its document, and p.state is not told of choosers then.  An answer may  *)
(* reach its caller after any later events.                                *)
(***************************************************************************)
EXTENDS Sequences

CONSTANTS
    Uploads,    \* goroutines that call BrowserFileUpload
    Choosers,   \* choosers that the page opens, each for an element of its own
    NoChooser   \* no chooser

ASSUME ChooserAssumption == NoChooser \notin Choosers

VARIABLES
    chooser,    \* s.fileChooser
    step,       \* where each call is
    chosen,     \* the chooser that each call has found
    latest,     \* Chrome: the chooser opened last
    asked,      \* Chrome: the choosers opened so far
    gone,       \* Chrome: those whose document is gone
    notices,    \* Chrome: events under way to the listener
    served,     \* history: choosers whose element has been given files
    unsure,     \* history: those of which a call has failed after that
    forgotten   \* history: choosers that a call for another one has forgotten

chooserVars ==
    <<chooser, step, chosen, latest, asked, gone, notices, served, unsure, forgotten>>

------------------------------------------------------------------------------
(* Chrome, and the listener *)

Chooses(f) ==
    /\ f \notin asked
    /\ asked' = asked \cup {f}
    /\ latest' = f
    /\ notices' = Append(notices, f)
    /\ UNCHANGED <<chooser, step, chosen, gone, served, unsure, forgotten>>

Leaves ==
    /\ gone' = asked
    /\ UNCHANGED <<chooser, step, chosen, latest, asked, notices, served, unsure, forgotten>>

FileChooserOpened ==
    /\ notices # <<>>
    /\ chooser' = Head(notices)
    /\ notices' = Tail(notices)
    /\ UNCHANGED <<step, chosen, latest, asked, gone, served, unsure, forgotten>>

------------------------------------------------------------------------------
(* BrowserFileUpload *)

Moves(u, from, to) == step[u] = from /\ step' = [step EXCEPT ![u] = to]

FileUpload(u) ==
    /\ chooser # NoChooser
    /\ Moves(u, "idle", "set")
    /\ chosen' = [chosen EXCEPT ![u] = chooser]
    /\ UNCHANGED <<chooser, latest, asked, gone, notices, served, unsure, forgotten>>

\* Dom.setFileInputFiles, external: the element must still be there.
ExecuteSet(u) ==
    /\ Moves(u, "set", "answered")
    /\ chosen[u] \notin gone
    /\ served' = served \cup {chosen[u]}
    /\ UNCHANGED <<chooser, chosen, latest, asked, gone, notices, unsure, forgotten>>

\* Mutant: the chooser is forgotten whatever comes of the command.
UploadFailsAndForgets(u) ==
    /\ Moves(u, "set", "idle") \/ Moves(u, "answered", "idle")
    /\ chooser' = NoChooser
    /\ unsure' = IF step[u] = "answered" THEN unsure \cup {chosen[u]} ELSE unsure
    /\ UNCHANGED <<chosen, latest, asked, gone, notices, served, forgotten>>

UploadFails(u) ==
    /\ Moves(u, "set", "idle") \/ Moves(u, "answered", "idle")
    /\ unsure' = IF step[u] = "answered" THEN unsure \cup {chosen[u]} ELSE unsure
    /\ UNCHANGED <<chooser, chosen, latest, asked, gone, notices, served, forgotten>>

ForgetChooser(u) ==
    /\ Moves(u, "answered", "idle")
    /\ chooser' = NoChooser
    /\ forgotten' = IF chooser \in {NoChooser, chosen[u]} THEN forgotten ELSE forgotten \cup {chooser}
    /\ UNCHANGED <<chosen, latest, asked, gone, notices, served, unsure>>

------------------------------------------------------------------------------

ChooserInit ==
    /\ chooser = NoChooser
    /\ step = [u \in Uploads |-> "idle"]
    /\ chosen = [u \in Uploads |-> NoChooser]
    /\ latest = NoChooser /\ asked = {} /\ gone = {} /\ notices = <<>>
    /\ served = {} /\ unsure = {} /\ forgotten = {}

ChooserNext ==
    \/ Leaves \/ FileChooserOpened
    \/ \E f \in Choosers : Chooses(f)
    \/ \E u \in Uploads : FileUpload(u) \/ ExecuteSet(u) \/ UploadFails(u) \/ ForgetChooser(u)

ChooserSpec == ChooserInit /\ [][ChooserNext]_chooserVars

------------------------------------------------------------------------------
(* Properties *)

\* When no event is under way, the chooser that BrowserFileUpload serves is the
\* last one opened.  There is none only if that one has been served, or if a
\* call that served an earlier one has forgotten it.  And a chooser that has been
\* served is offered no more than to the end of the call, unless the call failed.
ChooserFollows ==
    /\ notices = <<>> =>
          chooser = latest \/ (chooser = NoChooser /\ latest \in served \cup forgotten)
    /\ chooser \in served \ unsure =>
          \E u \in Uploads : step[u] = "answered" /\ chosen[u] = chooser
==============================================================================
