----------------------------- MODULE Compression -----------------------------
(***************************************************************************)
(* compressFile and uncompressFile (3dstool.cpp) with all of their coders, *)
(* on one file: it is compressed, may lose its end on the way, and is      *)
(* uncompressed.                                                           *)
(***************************************************************************)
EXTENDS LzCoder, RunLength, Huffman

AllTypes == LzTypes \cup HuffmanTypes \cup {"rl"}

LzOwn == <<LzVars, SlideWindowVars>>

compressionVars == <<CoderVars, LzOwn, RunLengthVars, HuffmanVars>>

CompressionInit == CoderInit /\ LzInit /\ RunLengthInit /\ HuffmanInit

CompressionNext ==
    \/ LzNext /\ UNCHANGED <<RunLengthVars, HuffmanVars>>
    \/ RunLengthNext /\ UNCHANGED <<LzOwn, HuffmanVars>>
    \/ HuffmanNext /\ UNCHANGED <<LzOwn, RunLengthVars>>
    \/ CutShort /\ UNCHANGED <<dest, Given, pos, LzOwn, RunLengthVars, HuffmanVars>>

CompressionSpec == CompressionInit /\ [][CompressionNext]_compressionVars

-----------------------------------------------------------------------------
(* A coder at work has not answered yet; a coder whose behaviour is not    *)
(* defined never answers.                                                  *)
CodecState ==
    CASE phase \in {"raw", "packing", "trimming", "merging", "placing",
                    "undefined"} -> "raw"
      [] phase \in {"packed", "damaged", "unpacking"} ->
             IF whole THEN "packed" ELSE "damaged"
      [] OTHER -> phase

CodecResult ==
    IF phase # "restored" THEN << >>
    ELSE IF type = "blz" THEN Reverse(dest) ELSE dest

Promise == INSTANCE Codec WITH
    Formats <- AllTypes, Refusing <- {"blz"}, Whole <- {"blz", "rl"},
    format <- type, given <- data, state <- CodecState, result <- CodecResult

(* Every coder keeps the promise: what it compresses it restores, byte for *)
(* byte, only blz refuses, and a file without its end is never taken for   *)
(* another.                                                                *)
ImplementsCodec == Promise!Spec
=============================================================================
