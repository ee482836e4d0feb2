----------------------------- MODULE FindWindows -----------------------------
(***************************************************************************)
(* The loop of BrowserFind (mcp_tools.go) that gathers the lines around    *)
(* the matches into windows.  Lines are numbered from 0, as in the code;   *)
(* which of them match the text or the expression is up to the snapshot.   *)
(***************************************************************************)
EXTENDS Integers, Sequences

CONSTANT MaxLines  \* bound on the lines of a snapshot

ASSUME FindAssumption == MaxLines \in Nat

VARIABLES
    lines,    \* len(lines), at least 1: strings.Split of any text has one part
    matched,  \* the lines that match
    todo,     \* those the loop has yet to come to
    windows   \* the windows so far, each with its first and last line

findVars == <<lines, matched, todo, windows>>

\* How many lines before and after a match belong to its window.
Around == 3

Least(s) == CHOOSE i \in s : \A j \in s : i <= j
AtLeast(a, b) == IF a > b THEN a ELSE b
AtMost(a, b) == IF a < b THEN a ELSE b

\* Mutants: a window is not cut at the last line; windows that only touch are
\* kept apart.
LastUncut(i) == i + Around

First(i) == AtLeast(0, i - Around)
Last(i) == AtMost(lines - 1, i + Around)

Overlaps(i) == windows # <<>> /\ First(i) <= windows[Len(windows)][2]

\* The window of i overlaps the last one, or begins right after it.
Joins(i) == windows # <<>> /\ First(i) <= windows[Len(windows)][2] + 1

Extend(i) ==
    [windows EXCEPT ![Len(windows)] = <<@[1], AtLeast(@[2], Last(i))>>]

Gather ==
    /\ todo # {}
    /\ LET i == Least(todo)
       IN  /\ todo' = todo \ {i}
           /\ windows' = IF Joins(i) THEN Extend(i) ELSE Append(windows, <<First(i), Last(i)>>)
    /\ UNCHANGED <<lines, matched>>

FindInit ==
    /\ lines \in 1 .. MaxLines
    /\ matched \in SUBSET (0 .. lines - 1)
    /\ todo = matched
    /\ windows = <<>>

FindNext == Gather

FindSpec == FindInit /\ [][FindNext]_findVars

------------------------------------------------------------------------------
(* Properties *)

\* The lines of the windows so far, and the lines that should be in them.
Shown == {l \in 0 .. lines - 1 :
             \E k \in DOMAIN windows : windows[k][1] <= l /\ l <= windows[k][2]}

Wanted == {l \in 0 .. lines - 1 :
              \E i \in matched \ todo : i - Around <= l /\ l <= i + Around}

\* The windows show each line around a match once and no other line: they lie
\* within the snapshot, in order, and at least one line apart, so that what is
\* joined by "----" really is a gap.
WindowsAreExact ==
    /\ Shown = Wanted
    /\ \A k \in DOMAIN windows :
           0 <= windows[k][1] /\ windows[k][1] <= windows[k][2] /\ windows[k][2] < lines
    /\ \A j, k \in DOMAIN windows : j < k => windows[j][2] + 1 < windows[k][1]
==============================================================================
