----------------------------- MODULE MCRomFsTree -----------------------------
(* Three directory names, two deep, two file names, up to six entries. *)
EXTENDS RomFsTree
=============================================================================
