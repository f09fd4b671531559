-------------------------------- MODULE MCNcsd --------------------------------
(* Three partitions of no, one or five bytes; a media unit is two or four bytes, a *)
(* block four; cards of 16 and 32 bytes, the first partition at 8.                 *)
EXTENDS Ncsd
=============================================================================
