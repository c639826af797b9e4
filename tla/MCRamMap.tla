------------------------------ MODULE MCRamMap ------------------------------
(***************************************************************************)
(* RamMap on the layouts of the repository's boards.                       *)
(***************************************************************************)
EXTENDS RamMap

SoundBoards == {"F446ZE", "F746ZG", "F767ZI", "F413ZH"}
OverlappingBoard == {"F412ZG"}

=============================================================================
