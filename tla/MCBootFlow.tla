----------------------------- MODULE MCBootFlow -----------------------------
(***************************************************************************)
(* BootFlow on the boards whose kernel starts behind the pages.            *)
(***************************************************************************)
EXTENDS BootFlow

SoundBoards == {"F446ZE", "F767ZI", "F412ZG", "F413ZH"}
SomeSigners == Known \cup {"another"}

=============================================================================
