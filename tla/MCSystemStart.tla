--------------------------- MODULE MCSystemStart ---------------------------
(***************************************************************************)
(* SystemStart on the repository's boards, with two threads.               *)
(***************************************************************************)
EXTENDS SystemStart, BoardClocks

AllBoards == DOMAIN BoardClock
TwoThreads == {"main", "worker"}

=============================================================================
