-------------------------------- MODULE Coder --------------------------------
(***************************************************************************)
(* What the coders of --compress and --uncompress share: compressFile and  *)
(* uncompressFile of 3dstool.cpp, the header with the uncompressed size,   *)
(* the size of the output buffer and the padding to --compress-align.  A   *)
(* file is a sequence of bytes, and a byte a natural number: how a coder's *)
(* fields share a byte is left out, their order and number of bytes kept.  *)
(***************************************************************************)
EXTENDS Integers, Sequences

CONSTANTS
    Inputs,     \* what the tool is run on: records of type, data and align
    MaxShort    \* the largest size the short header holds, 0xFFFFFF

ASSUME CoderAssumption ==
    /\ MaxShort \in Nat
    /\ \A x \in Inputs : x.data \in Seq(Nat) /\ x.align \in Nat \ {0}

VARIABLES
    type,       \* m_eCompressType
    data,       \* the file to compress
    align,      \* m_nCompressAlign
    phase,      \* what the tool is doing
    file,       \* the compressed file
    dest,       \* the uncompressed file
    whole,      \* FALSE when the compressed file has been cut short
    pos         \* how many bytes of file have been read

CoderVars == <<type, data, align, phase, file, dest, whole, pos>>
Given == <<type, data, align>>

RoundUp(n, a) == ((n + a - 1) \div a) * a
Fill(n) == [i \in 1 .. n |-> 0]

(* The compressed file starts with its kind and the uncompressed size: in  *)
(* 24 bits, or, for 0 and what 24 bits cannot hold, in a second word.      *)
HeaderSize(n) ==
    IF type = "yaz0" THEN 16 ELSE IF n # 0 /\ n <= MaxShort THEN 4 ELSE 8

Header(n) ==
    [i \in 1 .. HeaderSize(n) |->
        IF i = (IF HeaderSize(n) = 8 THEN 5 ELSE 1) THEN n ELSE 0]

(* GetUncompressedSize: -1 when the file does not hold its header. *)
HeaderRead(f) ==
    LET n == IF type # "yaz0" /\ Len(f) >= 8 /\ f[1] = 0 THEN f[5] ELSE f[1]
        header == IF type = "yaz0" THEN 16 ELSE IF f[1] = 0 THEN 8 ELSE 4
        needed == IF type \in {"h4", "h8"} THEN header + 1 ELSE header
    IN  IF Len(f) < 4 \/ Len(f) < needed
        THEN [size |-> -1, header |-> 0]
        ELSE [size |-> n, header |-> header]

(* Padding comes last, when the buffer has room for it. *)
Padded(f, capacity) ==
    LET size == RoundUp(Len(f), align)
    IN  IF size > capacity
        THEN phase' = "refused" /\ UNCHANGED file
        ELSE phase' = "packed" /\ file' = f \o Fill(size - Len(f))

CoderInit ==
    /\ \E x \in Inputs : type = x.type /\ data = x.data /\ align = x.align
    /\ phase = "raw"
    /\ file = << >>
    /\ dest = << >>
    /\ whole = TRUE
    /\ pos = 0

(* A file may reach uncompressFile without its end.  Left out are blz,     *)
(* whose footer is the end, so that other numbers would stand in its place *)
(* and rl, whose Uncompress only looks for the end before a block.         *)
CutShort ==
    /\ phase = "packed" /\ type \notin {"blz", "rl"}
    /\ \E n \in 0 .. Len(file) - 1 : file' = SubSeq(file, 1, n)
    /\ whole' = FALSE
    /\ phase' = "damaged"

Failed == phase' = "error" /\ dest' = << >>
=============================================================================
