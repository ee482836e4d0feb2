------------------------------- MODULE MCPage --------------------------------
(***************************************************************************)
(* A small instance of each part of a page, for TLC: its dialog and its    *)
(* references, its file chooser, its network log, the windows of           *)
(* BrowserFind and the wait of BrowserWaitFor.  The parts share no         *)
(* variable, so that a behaviour takes one of them and leaves the others   *)
(* at their first state.                                                   *)
(***************************************************************************)
EXTENDS PageState, FileChooser, NetworkLog, FindWindows, WaitFor, TLC

VARIABLE part

pageVars == <<vars, chooserVars, logVars, findVars, waitVars, part>>

PageInit ==
    /\ part \in {"state", "chooser", "log", "find", "wait"}
    /\ Init /\ ChooserInit /\ LogInit /\ FindInit /\ WaitInit
    /\ part # "find" => lines = 1 /\ matched = {}
    /\ part # "wait" => sleep = 0 /\ wants = {} /\ ends = Never /\ holds = {}

StateStep ==
    part = "state" /\ Next /\ UNCHANGED <<chooserVars, logVars, findVars, waitVars, part>>

ChooserStep ==
    part = "chooser" /\ ChooserNext /\ UNCHANGED <<vars, logVars, findVars, waitVars, part>>

LogStep ==
    part = "log" /\ LogNext /\ UNCHANGED <<vars, chooserVars, findVars, waitVars, part>>

FindStep ==
    part = "find" /\ FindNext /\ UNCHANGED <<vars, chooserVars, logVars, waitVars, part>>

WaitStep ==
    part = "wait" /\ WaitNext /\ UNCHANGED <<vars, chooserVars, logVars, findVars, part>>

PageNext == StateStep \/ ChooserStep \/ LogStep \/ FindStep \/ WaitStep

PageSpec == PageInit /\ [][PageNext]_pageVars

\* Tools, and dialogs, differ only in their names.
Symmetry == Permutations(Tools) \cup Permutations(Dialogs)

==============================================================================
