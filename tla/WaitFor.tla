------------------------------- MODULE WaitFor -------------------------------
(***************************************************************************)
(* BrowserWaitFor and waitForPageText (mcp_tools.go): one call, the page   *)
(* that changes under it, and the time that passes.                        *)
(*                                                                         *)
(* A poll is a command: Chrome evaluates it at some moment while it is     *)
(* under way, and the relay gives it up after extensionCommandTimeout      *)
(* (handler.go).  Time is counted in units of a fraction of Interval.      *)
(***************************************************************************)
EXTENDS Naturals

CONSTANTS
    MaxTime,         \* the longest sleep, 30 s
    Limit,           \* the time given to one text, 30 s
    Interval,        \* the time between two polls, 100 ms
    CommandTimeout,  \* extensionCommandTimeout
    Never            \* no deadline

ASSUME WaitAssumption ==
    /\ {MaxTime, Limit, Interval, CommandTimeout} \subseteq Nat \ {0}
    /\ Never \notin Nat

VARIABLES
    now,       \* the time since the call
    sleep,     \* params.Time
    wants,     \* which of params.TextGone and params.Text are given
    ends,      \* the deadline of the caller's context
    holds,     \* the page: the conditions that hold now
    at,        \* where the call is
    left,      \* the conditions it has still to see
    deadline,  \* the deadline of the loop
    timer,     \* when the timer fires, or when the command was sent
    found,     \* what Chrome has answered
    outcome,   \* how the call has returned
    polled,    \* history: when Chrome has last evaluated a condition
    met        \* history: the conditions found to hold

callVars  == <<at, left, deadline, timer, outcome>>
inputVars == <<sleep, wants, ends>>
waitVars  == <<now, inputVars, holds, callVars, found, polled, met>>

Conditions == {"textGone", "text"}
Shorter(a, b) == IF a < b THEN a ELSE b

\* params.TextGone is waited for before params.Text.
Waiting == IF "textGone" \in left THEN "textGone" ELSE "text"

------------------------------------------------------------------------------
(* The page, and the clock: what is due is done before time goes on. *)

PageChanges ==
    /\ at # "returned"
    /\ \E c \in Conditions : holds' = (holds \ {c}) \cup ({c} \ holds)
    /\ UNCHANGED <<now, inputVars, callVars, found, polled, met>>

Due ==
    \/ at \in {"start", "next", "decide", "returned"}
    \/ now = ends
    \/ at \in {"sleep", "delay"} /\ now = timer
    \/ at \in {"poll", "polled"} /\ now = timer + CommandTimeout

Tick ==
    /\ ~Due
    /\ now' = now + 1
    /\ UNCHANGED <<inputVars, holds, callVars, found, polled, met>>

------------------------------------------------------------------------------
(* The call *)

Goes(from, to) == at = from /\ at' = to

Returns(how) == at' = "returned" /\ outcome' = how /\ UNCHANGED <<left, deadline, timer>>

\* Without a time and a text, or without a current page, the call fails; a time
\* is cut to MaxTime.
Start ==
    /\ at = "start"
    /\ \/ Returns("error")
       \/ /\ sleep > 0
          /\ at' = "sleep" /\ timer' = Shorter(sleep, MaxTime)
          /\ UNCHANGED <<left, deadline, outcome>>
       \/ sleep = 0 /\ wants # {} /\ at' = "next" /\ UNCHANGED <<left, deadline, timer, outcome>>
    /\ UNCHANGED <<now, inputVars, holds, found, polled, met>>

SleepEnds ==
    /\ Goes("sleep", "next")
    /\ now = timer
    /\ UNCHANGED <<now, inputVars, holds, left, deadline, timer, outcome, found, polled, met>>

\* The deadline of one text: Limit, or the context's if that comes first.
DeadlineFromNow == IF ends = Never THEN now + Limit ELSE Shorter(ends, now + Limit)

WaitForPageText ==
    /\ at = "next"
    /\ \/ left = {} /\ Returns("ok")
       \/ /\ left # {}
          /\ at' = "poll" /\ timer' = now /\ deadline' = DeadlineFromNow
          /\ UNCHANGED <<left, outcome>>
    /\ UNCHANGED <<now, inputVars, holds, found, polled, met>>

\* Chrome evaluates the condition; its answer takes its time.
Evaluate ==
    /\ Goes("poll", "polled")
    /\ found' = (Waiting \in holds)
    /\ polled' = now
    /\ met' = IF Waiting \in holds THEN met \cup {Waiting} ELSE met
    /\ UNCHANGED <<now, inputVars, holds, left, deadline, timer, outcome>>

Answer ==
    /\ Goes("polled", "decide")
    /\ UNCHANGED <<now, inputVars, holds, left, deadline, timer, outcome, found, polled, met>>

\* The condition holds, or time is up, or the next poll is a delay away.
Met == found /\ at' = "next" /\ left' = left \ {Waiting} /\ UNCHANGED <<deadline, timer, outcome>>

\* Mutants: time is up before a last poll; the last delay is a whole Interval.
TimesOutEarly == ~found /\ now + Interval >= deadline /\ Returns("timeout")

TimesOut == ~found /\ now >= deadline /\ Returns("timeout")

DelayUncut ==
    /\ ~found /\ now < deadline
    /\ at' = "delay" /\ timer' = now + Interval
    /\ UNCHANGED <<left, deadline, outcome>>

Delay ==
    /\ ~found /\ now < deadline
    /\ at' = "delay" /\ timer' = Shorter(now + Interval, deadline)
    /\ UNCHANGED <<left, deadline, outcome>>

Decide ==
    /\ at = "decide"
    /\ Met \/ TimesOut \/ Delay
    /\ UNCHANGED <<now, inputVars, holds, found, polled, met>>

DelayEnds ==
    /\ at = "delay" /\ now = timer
    /\ at' = "poll"
    /\ UNCHANGED <<now, inputVars, holds, left, deadline, timer, outcome, found, polled, met>>

\* The context is done, or the poll fails, at the latest when it expires.
Cancelled ==
    /\ at \in {"sleep", "delay", "poll", "polled"}
    /\ now = ends
    /\ Returns("cancelled")
    /\ UNCHANGED <<now, inputVars, holds, found, polled, met>>

PollFails ==
    /\ at \in {"poll", "polled"}
    /\ Returns("error")
    /\ UNCHANGED <<now, inputVars, holds, found, polled, met>>

------------------------------------------------------------------------------

WaitInit ==
    /\ now = 0
    /\ sleep \in 0 .. MaxTime + 1
    /\ wants \in SUBSET Conditions
    /\ ends \in (0 .. MaxTime + 2 * Limit) \cup {Never}
    /\ holds \in SUBSET Conditions
    /\ at = "start" /\ left = wants /\ deadline = 0 /\ timer = 0
    /\ found = FALSE /\ outcome = "none" /\ polled = 0 /\ met = {}

WaitNext ==
    \/ PageChanges \/ Tick
    \/ Start \/ SleepEnds \/ WaitForPageText \/ Evaluate \/ Answer \/ Decide \/ DelayEnds
    \/ Cancelled \/ PollFails

WaitSpec == WaitInit /\ [][WaitNext]_waitVars

------------------------------------------------------------------------------
(* Properties *)

\* The call keeps to its times, whatever the page does and however slowly polls
\* are answered: it sleeps no longer than MaxTime and waits for each text no longer
\* than Limit and the one poll under way then; it succeeds only after the sleep,
\* with each condition seen to hold since; and it gives a text up only at its
\* deadline, after a poll that was still under way then or begun at it.
WaitKeepsItsTimes ==
    LET slept == Shorter(sleep, MaxTime)
        texts == IF wants = Conditions THEN 2 ELSE IF wants = {} THEN 0 ELSE 1
    IN  /\ now <= slept + texts * (Limit + CommandTimeout)
        /\ ends # Never => now <= ends
        /\ outcome = "ok" => now >= slept /\ met = wants
        /\ outcome = "timeout" => now >= deadline /\ polled + CommandTimeout >= deadline
==============================================================================
