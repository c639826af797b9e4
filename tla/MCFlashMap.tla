----------------------------- MODULE MCFlashMap -----------------------------
(***************************************************************************)
(* FlashMap on the layouts of the repository's boards.                     *)
(***************************************************************************)
EXTENDS FlashMap

SoundBoards == {"F446ZE", "F767ZI", "F412ZG", "F413ZH"}
OverlappingBoard == {"F746ZG"}

=============================================================================
