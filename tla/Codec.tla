-------------------------------- MODULE Codec --------------------------------
(***************************************************************************)
(* What --compress and --uncompress promise: the file is compressed, or    *)
(* refused where the format may refuse it, and what was compressed is      *)
(* uncompressed to the same bytes.  A compressed file that has lost its    *)
(* end is reported, unless only padding was lost and the bytes are all     *)
(* there; it never yields other bytes.                                     *)
(***************************************************************************)
EXTENDS Naturals, Sequences

CONSTANTS
    Formats,    \* the compression types
    Refusing,   \* those that may refuse a file that does not get smaller
    Whole       \* those that are not given files without their end

VARIABLES
    format,     \* the type in use
    given,      \* the file to compress
    state,      \* "raw", "packed", "refused", "damaged", "restored" or "error"
    result      \* the uncompressed file

CodecVars == <<format, given, state, result>>

Init ==
    /\ format \in Formats
    /\ given \in Seq(Nat)
    /\ state = "raw"
    /\ result = << >>

Compress ==
    /\ state = "raw"
    /\ \/ state' = "packed"
       \/ state' = "refused" /\ format \in Refusing
    /\ UNCHANGED <<format, given, result>>

LoseEnd ==
    /\ state = "packed" /\ format \notin Whole
    /\ state' = "damaged"
    /\ UNCHANGED <<format, given, result>>

Restore ==
    /\ state \in {"packed", "damaged"}
    /\ state' = "restored"
    /\ result' = given
    /\ UNCHANGED <<format, given>>

Report ==
    /\ state = "damaged"
    /\ state' = "error"
    /\ UNCHANGED <<format, given, result>>

Next == Compress \/ LoseEnd \/ Restore \/ Report

Spec == Init /\ [][Next]_CodecVars
=============================================================================
