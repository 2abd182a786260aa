------------------------------- MODULE LossyLog -------------------------------
(***************************************************************************)
(* What the audit trail promises its readers: events are numbered in the   *)
(* order in which they are emitted; the log holds some of them, in that    *)
(* order and each once; it grows at its end, never changes what it holds,  *)
(* and gives up its oldest lines first.                                    *)
(***************************************************************************)
EXTENDS Integers

VARIABLES
    emitted,   \* how many events there have been
    log        \* log[x]: the number of the event at place x, <<volume, line>>

Precedes(x, y) == x[1] < y[1] \/ (x[1] = y[1] /\ x[2] < y[2])

Increasing(l) == \A x, y \in DOMAIN l : Precedes(x, y) => l[x] < l[y]

AInit == emitted = 0 /\ DOMAIN log = {}

Emitted == emitted' = emitted + 1 /\ UNCHANGED log

\* The oldest lines go, and newer ones come.
Move ==
    /\ emitted' = emitted
    /\ \A x \in DOMAIN log \cap DOMAIN log' : log'[x] = log[x]
    /\ \A x \in DOMAIN log \ DOMAIN log', y \in DOMAIN log' : Precedes(x, y)
    /\ \A x \in DOMAIN log, y \in DOMAIN log' \ DOMAIN log : Precedes(x, y) /\ log[x] < log'[y]
    /\ Increasing(log')
    /\ \A x \in DOMAIN log' : log'[x] \in 1..emitted

ASpec == AInit /\ [][Emitted \/ Move]_<<emitted, log>>
=============================================================================
