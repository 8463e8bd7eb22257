---------------------------- MODULE MCFolderPages ----------------------------
(* Four items and a shortcut, pages of one or two. *)
EXTENDS FolderPages, TLC

ItemSymmetry == Permutations(Items \ Unsafe)
=============================================================================
