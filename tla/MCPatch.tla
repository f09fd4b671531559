------------------------------- MODULE MCPatch -------------------------------
(* Three parts, as plain region, ExeFS and RomFS of an NCCH: the first is not
   covered by a hash in the header.  Cards of up to three partitions, each
   without parts, with some or with all. *)
EXTENDS Patch

Layout(a, b, c) == [i \in Parts |-> IF i = 0 THEN a ELSE IF i = 1 THEN b ELSE c]

MCCards ==
  {[p \in Partitions |-> IF p = 0 THEN first ELSE IF p = 1 THEN second ELSE third] :
     first  \in {Layout(0, 0, 0), Layout(0, 2, 0), Layout(2, 2, 2)},
     second \in {Layout(0, 0, 0), Layout(0, 0, 2), Layout(0, 2, 2)},
     third  \in {Layout(0, 0, 0), Layout(0, 0, 2)}}
=============================================================================
