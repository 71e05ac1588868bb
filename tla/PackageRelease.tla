--------------------------- MODULE PackageRelease ---------------------------
(***************************************************************************)
(* What a replay package promises while a road graph is attached to it: a  *)
(* reader finds the package without the graph or with all of it, nothing   *)
(* in between, and once a build has reported success the graph stays.      *)
(***************************************************************************)
VARIABLES
    shown,      \* what a reader of the package finds
    released    \* a build reported success

Init == shown = "plain" /\ released = FALSE

Attach == shown = "plain" /\ shown' = "extended" /\ UNCHANGED released

\* A crash or a refused build may undo what was not reported yet.
Undo == shown = "extended" /\ ~released /\ shown' = "plain" /\ UNCHANGED released

Report == shown = "extended" /\ released' = TRUE /\ UNCHANGED shown

\* Somebody writes into the package past its lock: nothing is promised of it.
Tamper == shown' = "tampered" /\ UNCHANGED released

Untrusted == shown = "tampered" /\ UNCHANGED shown

Next == Attach \/ Undo \/ Report \/ Tamper \/ Untrusted

Spec == Init /\ [][Next]_<<shown, released>>
=============================================================================
