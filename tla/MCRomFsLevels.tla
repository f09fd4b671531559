---------------------------- MODULE MCRomFsLevels ----------------------------
(* Up to three files, blocks of four cells that hold two hashes, and metadata that *)
(* ends within a block or at its end.                                              *)
EXTENDS RomFsLevels
=============================================================================
