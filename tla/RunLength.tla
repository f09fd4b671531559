------------------------------ MODULE RunLength ------------------------------
(***************************************************************************)
(* The run length coder (CRunLength).  The code is a sequence of blocks:   *)
(* a count and as many bytes as they are, or a count and the byte that is  *)
(* repeated.  A step of the model is one turn of the coder's loop.         *)
(***************************************************************************)
EXTENDS Coder, FiniteSetsExt

CONSTANT BlockSize      \* 128, one more than a count of 7 bits holds

ASSUME RunLengthAssumption == BlockSize \in Nat \ {0}

VARIABLES
    done,       \* how many bytes of the data are coded
    size        \* the size to uncompress to

RunLengthVars == <<done, size>>

RunLengthCapacity == RoundUp(HeaderSize(Len(data)) + Len(data) * 2, align)

RlStartPacking ==
    /\ phase = "raw" /\ type = "rl"
    /\ phase' = "packing"
    /\ file' = Header(Len(data))
    /\ UNCHANGED <<Given, dest, whole, pos, RunLengthVars>>

(* n bytes from here three equal bytes follow: a run is worth its block. *)
TripleAt(n) ==
    /\ done + n + 3 <= Len(data)
    /\ \A k \in 2 .. 3 : data[done + n + k] = data[done + n + 1]

(* Bytes up to the next run, or up to the end, or as many as a block has   *)
(* room for, and then the run.                                             *)
RlPut ==
    /\ phase = "packing" /\ type = "rl" /\ done < Len(data)
    /\ LET left == Len(data) - done
           plain == Min({n \in 0 .. left : n = left \/ TripleAt(n)} \cup {BlockSize})
           isRun == plain < BlockSize /\ TripleAt(plain)
           byte == data[done + plain + 1]
           run == Max({n \in 3 .. Min({left - plain, BlockSize + 2}) :
                         \A k \in 1 .. n : data[done + plain + k] = byte})
           code == (IF plain = 0 THEN << >>
                    ELSE <<plain - 1>> \o SubSeq(data, done + 1, done + plain))
                   \o (IF isRun THEN <<BlockSize + run - 3, byte>> ELSE << >>)
       IN  IF Len(file \o code) > RunLengthCapacity
           THEN phase' = "refused" /\ UNCHANGED <<file, done>>
           ELSE /\ file' = file \o code
                /\ done' = done + plain + (IF isRun THEN run ELSE 0)
                /\ UNCHANGED phase
    /\ UNCHANGED <<Given, dest, whole, pos, size>>

RlFinishPacking ==
    /\ phase = "packing" /\ type = "rl" /\ done = Len(data)
    /\ Padded(file, RunLengthCapacity)
    /\ done' = 0
    /\ UNCHANGED <<Given, dest, whole, pos, size>>

RlStartUnpacking ==
    /\ phase = "packed" /\ type = "rl"
    /\ LET h == HeaderRead(file)
       IN  IF h.size < 0
           THEN Failed /\ UNCHANGED <<pos, size>>
           ELSE /\ phase' = IF h.size = 0 THEN "restored" ELSE "unpacking"
                /\ pos' = h.header
                /\ size' = h.size
                /\ UNCHANGED dest
    /\ UNCHANGED <<Given, file, whole, done>>

RlTake ==
    /\ phase = "unpacking" /\ type = "rl"
    /\ IF pos = Len(file)
       THEN Failed /\ UNCHANGED pos
       ELSE LET isRun == file[pos + 1] >= BlockSize
                n == (file[pos + 1] % BlockSize) + (IF isRun THEN 3 ELSE 1)
            IN  IF n > size - Len(dest)
                THEN Failed /\ UNCHANGED pos
                ELSE /\ dest' = dest \o [k \in 1 .. n |->
                                  file[pos + 1 + (IF isRun THEN 1 ELSE k)]]
                     /\ pos' = pos + 1 + (IF isRun THEN 1 ELSE n)
                     /\ phase' = IF Len(dest') < size THEN "unpacking"
                                                      ELSE "restored"
    /\ UNCHANGED <<Given, file, whole, RunLengthVars>>

RunLengthInit == done = 0 /\ size = 0

RunLengthNext ==
    RlStartPacking \/ RlPut \/ RlFinishPacking \/ RlStartUnpacking \/ RlTake
=============================================================================
