------------------------------- MODULE LzCoder -------------------------------
(***************************************************************************)
(* The LZ coders: CLz77 ("lz", and "lzex" with long matches), CYaz0        *)
(* ("yaz0") and CBackwardLz77 ("blz").  A step of the model is one token:  *)
(* a byte of its own or a match, that is a copy of bytes seen before.      *)
(* CBackwardLz77 reads and writes from the end of the buffers; the model   *)
(* reverses its data, its file and its buffer, so that all grow forward.   *)
(***************************************************************************)
EXTENDS Coder, SlideWindow, SequencesExt, FiniteSetsExt

CONSTANTS
    NibbleCodes,    \* the values of the size field, 16
    GroupSize,      \* the tokens one flag byte stands for, 8
    FooterSize,     \* sizeof(CompFooter), 8
    WordSize,       \* the alignment of the footer, 4
    MaxTop          \* the largest size the footer holds, 0xFFFFFF

ASSUME LzAssumption ==
    /\ NibbleCodes \in Nat \ 0 .. 2 /\ GroupSize \in Nat \ {0}
    /\ FooterSize \in Nat \ 0 .. 2 /\ WordSize \in Nat \ {0}
    /\ MaxTop \in Nat

VARIABLES
    src,        \* how many bytes of the data are coded; while trimming
                \* uOrigSize, the bytes that the rest of the code stands for;
                \* CBackwardLz77::Uncompress: how many bytes are written
    count,      \* tokens of the current group so far
    flag,       \* pFlag, where the flag byte of the group is; when reading
                \* uFlag, its value
    last,       \* CYaz0: the match found one byte ahead
    end         \* the size to uncompress to; CBackwardLz77: where the code ends

LzVars == <<src, count, flag, last, end>>

LzTypes == {"lz", "lzex", "yaz0", "blz"}

raw == IF type = "blz" THEN Reverse(data) ELSE data

(* What a distance of 0 in a match stands for, and how many there are. *)
Bias == IF type = "blz" THEN 3 ELSE 1
OffsetCodes == WindowSize + 1 - Bias
MinDistance == CASE type = "blz" -> 3 [] type = "yaz0" -> 1 [] OTHER -> 2

(* A slip: the sizes of a match start at 3, and are counted from 4. *)
nMaxSizeMutant ==
    LET N == NibbleCodes
    IN  CASE type = "lzex" -> (N * N * N * N - 1) + (N * N - 1) + (N - 1) + 3
          [] type = "yaz0" -> (N * N - 1) + (N - 1) + 3
          [] OTHER -> N + 3

nMaxSize ==
    LET N == NibbleCodes
    IN  CASE type = "lzex" -> (N * N * N * N - 1) + (N * N - 1) + (N - 1) + 3
          [] type = "yaz0" -> (N * N - 1) + (N - 1) + 3
          [] OTHER -> N - 1 + 3

LzCapacity ==
    IF type = "blz" THEN Len(data)
    ELSE RoundUp(HeaderSize(Len(data))
                 + ((Len(data) + GroupSize - 1) \div GroupSize) * (GroupSize + 1),
                 align)

NoMatch == [size |-> 0, offset |-> 0, on |-> FALSE]

-----------------------------------------------------------------------------
(* search *)

(* The slots of the window that hold b, in the order they are tried: CLz77 *)
(* goes from the oldest to the newest, the others back.                    *)
Walk(w, b) ==
    LET first == IF type \in {"lz", "lzex"} THEN w.ByteTable[b]
                                            ELSE w.EndTable[b]
        next == IF type \in {"lz", "lzex"} THEN w.OffsetTable
                                           ELSE w.ReversedOffsetTable
        slot[i \in 1 .. WindowSize] ==
            IF i = 1 THEN first
            ELSE IF slot[i - 1] = NoSlot THEN NoSlot ELSE next[slot[i - 1]]
    IN  SelectSeq([i \in 1 .. WindowSize |-> slot[i]], LAMBDA s : s # NoSlot)

(* How many bytes from p on repeat those d before; the chain vouches for   *)
(* the first, which is not compared.                                       *)
MatchSize(p, d, max) ==
    Max({0} \cup {k \in 1 .. max :
                    /\ type = "blz" => k <= d
                    /\ \A j \in 2 .. k : raw[p + j] = raw[p + j - d]})

(* The longest match of three bytes and more, the first that is met. *)
Search(w, p) ==
    LET max == Min({nMaxSize, Len(raw) - p}
                   \cup IF type = "blz" THEN {p} ELSE {})
        tried == Walk(w, raw[p + 1])
        size(i) == IF Distance(w, tried[i]) < MinDistance THEN 0
                   ELSE MatchSize(p, Distance(w, tried[i]), max)
        longest == Max({0} \cup {size(i) : i \in DOMAIN tried})
        found == Min({i \in DOMAIN tried : size(i) = longest})
    IN  IF max < 3 \/ longest < 3 THEN NoMatch
        ELSE [size |-> longest, offset |-> Distance(w, tried[found]),
              on |-> TRUE]

-----------------------------------------------------------------------------
(* How a match is written: its size in one to three fields around the last *)
(* byte, which holds the distance.                                         *)
MatchBytes(m) ==
    LET N == NibbleCodes
        offset == (m.offset - Bias) % OffsetCodes
        medium == m.size - (N + 1)
        long == m.size - (N * N + N + 1)
    IN  CASE type = "lzex" /\ m.size >= N * N + N + 1 ->
                <<N + ((long \div (N * N * N)) % N), (long \div N) % (N * N),
                  (long % N) * N, offset>>
          [] type = "lzex" /\ m.size >= N + 1 /\ m.size < N * N + N + 1 ->
                <<(medium \div N) % N, (medium % N) * N, offset>>
          [] type = "lzex" /\ m.size < N + 1 ->
                <<((m.size - 1) % N) * N, offset>>
          [] type = "yaz0" /\ m.size >= N + 2 ->
                <<0, offset, (m.size - (N + 2)) % (N * N)>>
          [] type = "yaz0" /\ m.size < N + 2 ->
                <<((m.size - 2) % N) * N, offset>>
          [] OTHER -> <<((m.size - 3) % N) * N, offset>>

(* How a match is read: f is what is left of the file.  "bytes" is how     *)
(* many bytes it takes, which are checked for before they are read.        *)
MatchRead(f) ==
    LET N == NibbleCodes
        nibble == f[1] \div N
        low == f[1] % N
        lzex == type = "lzex"
        bytes == CASE lzex /\ nibble = 1 -> 4
                   [] lzex /\ nibble = 0 -> 3
                   [] type = "yaz0" /\ nibble = 0 -> 3
                   [] OTHER -> 2
        size == CASE lzex /\ nibble = 1 ->
                       low * N * N * N + f[2] * N + f[3] \div N
                           + (N * N + N + 1)
                  [] lzex /\ nibble = 0 ->
                       low * N + f[2] \div N + (N + 1)
                  [] lzex /\ nibble > 1 -> nibble + 1
                  [] type = "yaz0" /\ nibble = 0 -> f[3] + (N + 2)
                  [] type = "yaz0" /\ nibble # 0 -> nibble + 2
                  [] OTHER -> nibble + 3
    IN  IF Len(f) < bytes THEN [bytes |-> bytes, size |-> 0, offset |-> 0]
        ELSE [bytes |-> bytes, size |-> size,
              offset |-> Bias + (IF type = "yaz0" THEN f[2] ELSE f[bytes])]

(* The bits of a flag byte, the first is the highest. *)
FlagBit[i \in 1 .. GroupSize] == IF i = GroupSize THEN 1 ELSE 2 * FlagBit[i + 1]
IsSet(flags, i) == (flags \div FlagBit[i]) % 2 = 1

(* In a Yaz0 file a set bit is a byte of its own, elsewhere a match. *)
IsMatch(flags, i) == IsSet(flags, i) # (type = "yaz0")

(* The next token opens a group when the last one is full. *)
Opens == count = GroupSize
Turn == (count % GroupSize) + 1

(* A token goes to the file if the buffer has room for all of its bytes. *)
Put(token, isMatch) ==
    LET at == IF Opens THEN Len(file) + 1 ELSE flag
        opened == IF Opens THEN Append(file, 0) ELSE file
        bit == IF isMatch # (type = "yaz0") THEN FlagBit[Turn] ELSE 0
        written == [opened EXCEPT ![at] = @ + bit] \o token
    IN  IF Len(written) > LzCapacity
        THEN phase' = "refused" /\ UNCHANGED <<file, flag, count>>
        ELSE /\ file' = written
             /\ flag' = at
             /\ count' = Turn
             /\ UNCHANGED phase

SlideBy(n) ==
    LET more == SubSeq(raw, src + 1, src + n)
    IN  /\ info' = Slide(info, slid, more)
        /\ slid' = slid \o more
        /\ src' = src + n

-----------------------------------------------------------------------------
(* Compress *)

StartPacking ==
    /\ phase = "raw" /\ type \in LzTypes
    /\ IF type = "blz" /\ Len(data) <= FooterSize
       THEN phase' = "refused" /\ UNCHANGED file
       ELSE /\ phase' = "packing"
            /\ file' = IF type = "blz" THEN << >> ELSE Header(Len(data))
    /\ count' = GroupSize
    /\ UNCHANGED <<Given, dest, whole, pos, src, flag, last, end,
                   SlideWindowVars>>

Coding == phase = "packing" /\ type \in LzTypes

(* CBackwardLz77::Compress stops without an error when a group has filled  *)
(* the buffer.                                                             *)
Exhausted == type = "blz" /\ Opens /\ Len(file) = LzCapacity

Here == IF last.on THEN last ELSE Search(info, src)

(* CYaz0 looks for a longer match one byte ahead before it takes one. *)
Ahead == IF type = "yaz0" /\ Here.on
         THEN Search(SlideByte(info, slid, raw[src + 1]), src + 1)
         ELSE NoMatch

PutByte ==
    /\ Coding /\ src < Len(raw) /\ ~Exhausted
    /\ ~Here.on \/ Ahead.size > Here.size
    /\ Put(<<raw[src + 1]>>, FALSE)
    /\ SlideBy(1)
    /\ last' = Ahead
    /\ UNCHANGED <<Given, dest, whole, pos, end>>

PutMatch ==
    /\ Coding /\ src < Len(raw) /\ ~Exhausted
    /\ Here.on /\ Ahead.size <= Here.size
    /\ Put(MatchBytes(Here), TRUE)
    /\ SlideBy(Here.size)
    /\ last' = NoMatch
    /\ UNCHANGED <<Given, dest, whole, pos, end>>

(* The window is given up with the work memory. *)
GiveUpWindow == info' = InitTable /\ slid' = << >>

FinishPacking ==
    /\ Coding /\ type # "blz" /\ src = Len(raw)
    /\ Padded(file, LzCapacity)
    /\ src' = 0 /\ count' = 0 /\ flag' = 0 /\ last' = NoMatch
    /\ GiveUpWindow
    /\ UNCHANGED <<Given, dest, whole, pos, end>>

StartTrimming ==
    /\ Coding /\ type = "blz" /\ (src = Len(raw) \/ Exhausted)
    /\ phase' = "trimming"
    /\ src' = Len(data)
    /\ count' = GroupSize
    /\ GiveUpWindow
    /\ UNCHANGED <<Given, file, dest, whole, pos, flag, last, end>>

(* The code from codeSafe bytes before its end on, and the first origSafe  *)
(* bytes as they are, in the reversed order: footer, padding, code, bytes. *)
Trimmed(origSafe, codeSafe) ==
    LET code == Len(file) - codeSafe
        pad == RoundUp(origSafe + code, WordSize) - (origSafe + code)
        size == origSafe + code + pad + FooterSize
        footer == <<size - origSafe, pad + FooterSize, Len(data) - size>>
                      \o Fill(FooterSize - 3)
    IN  /\ IF size >= Len(data) \/ size - origSafe > MaxTop
           THEN phase' = "refused" /\ UNCHANGED file
           ELSE /\ phase' = "packed"
                /\ file' = footer \o Fill(pad) \o SubSeq(file, 1, code)
                               \o SubSeq(raw, Len(raw) - origSafe + 1, Len(raw))
        /\ src' = 0 /\ pos' = 0 /\ count' = 0 /\ flag' = 0

(* A slip: the match itself is counted as code that is left. *)
OvertakenMutant(origSize, left) == origSize + 2 < left

(* Fewer bytes are left to write than code is left to read. *)
Overtaken(origSize, left) == origSize < left

(* The second pass reads the code as Uncompress will, up to the first      *)
(* match after which the bytes to write are fewer than the code to read.   *)
Trim ==
    /\ phase = "trimming" /\ pos < Len(file)
    /\ LET p == IF Opens THEN pos + 1 ELSE pos
           flags == IF Opens THEN file[pos + 1] ELSE flag
           match == IsMatch(flags, Turn)
           origSize == IF match THEN src - (file[p + 1] \div NibbleCodes + 3)
                                ELSE src - 1
           read == IF match THEN p + 2 ELSE p + 1
       IN  IF match /\ Overtaken(origSize, Len(file) - read)
           THEN Trimmed(origSize, Len(file) - read)
           ELSE IF origSize = 0 THEN Trimmed(0, 0)
           ELSE /\ src' = origSize /\ pos' = read
                /\ count' = Turn /\ flag' = flags
                /\ UNCHANGED <<phase, file>>
    /\ UNCHANGED <<Given, dest, whole, last, end, SlideWindowVars>>

(* pCompressBuffer[--uCompressBufferSize] with nothing left to read: what  *)
(* the program does then is anyone's guess, and the model stops.           *)
TrimPastCode ==
    /\ phase = "trimming" /\ pos = Len(file)
    /\ phase' = "undefined"
    /\ UNCHANGED <<Given, file, dest, whole, pos, LzVars, SlideWindowVars>>

-----------------------------------------------------------------------------
(* Uncompress *)

Copied(d, m) ==
    [k \in 1 .. Len(d) + m.size |->
        IF k <= Len(d) THEN d[k]
        ELSE d[Len(d) - m.offset + 1 + ((k - Len(d) - 1) % m.offset)]]

StartUnpacking ==
    /\ phase \in {"packed", "damaged"} /\ type \in LzTypes \ {"blz"}
    /\ LET h == HeaderRead(file)
       IN  IF h.size < 0
           THEN Failed /\ UNCHANGED <<pos, end>>
           ELSE /\ phase' = IF h.size = 0 THEN "restored" ELSE "unpacking"
                /\ pos' = h.header
                /\ end' = h.size
                /\ UNCHANGED dest
    /\ count' = GroupSize
    /\ UNCHANGED <<Given, file, whole, src, flag, last, SlideWindowVars>>

(* More bytes are there, and read are used up. *)
Grow(bytes, read) ==
    /\ dest' = bytes
    /\ pos' = read
    /\ phase' = IF Len(bytes) < end THEN "unpacking" ELSE "restored"

Take ==
    /\ phase = "unpacking" /\ type \in LzTypes \ {"blz"}
    /\ LET opened == Opens /\ pos < Len(file)
           p == IF opened THEN pos + 1 ELSE pos
           flags == IF opened THEN file[pos + 1] ELSE flag
           rest == SubSeq(file, p + 1, Len(file))
           m == MatchRead(rest)
       IN  /\ IF rest = << >>
              THEN Failed /\ UNCHANGED pos
              ELSE IF ~IsMatch(flags, Turn)
              THEN Grow(Append(dest, rest[1]), p + 1)
              ELSE IF \/ Len(rest) < m.bytes
                      \/ m.size > end - Len(dest)
                      \/ m.offset > Len(dest)
              THEN Failed /\ UNCHANGED pos
              ELSE Grow(Copied(dest, m), p + m.bytes)
           /\ flag' = flags
    /\ count' = Turn
    /\ UNCHANGED <<Given, file, whole, src, last, end, SlideWindowVars>>

(* CBackwardLz77::Uncompress copies the file to the start of the buffer,   *)
(* here the end, and writes over it.                                       *)
StartUnpackingBlz ==
    /\ phase = "packed" /\ type = "blz"
    /\ LET top == file[1]
           bottom == file[2]
           more == file[3]
       IN  IF /\ bottom >= FooterSize /\ bottom < FooterSize + WordSize
              /\ top >= bottom /\ top <= Len(file)
           THEN /\ phase' = "unpacking"
                /\ dest' = Fill(more) \o file
                /\ pos' = more + bottom
                /\ end' = more + top
           ELSE Failed /\ UNCHANGED <<pos, end>>
    /\ count' = GroupSize
    /\ UNCHANGED <<Given, file, whole, src, flag, last, SlideWindowVars>>

TakeBlz ==
    /\ phase = "unpacking" /\ type = "blz"
    /\ LET p == IF Opens THEN pos + 1 ELSE pos
           flags == IF Opens THEN dest[pos + 1] ELSE flag
           match == IsMatch(flags, Turn)
           m == MatchRead(SubSeq(dest, p + 1, Len(dest)))
           written == IF match THEN Copied(SubSeq(dest, 1, src), m)
                               ELSE SubSeq(dest, 1, src) \o <<dest[p + 1]>>
       IN  IF \/ ~match /\ (src >= end \/ p >= end)
              \/ match /\ (\/ p + 2 > end \/ m.size > end - src
                           \/ m.offset > src)
           THEN Failed /\ UNCHANGED <<pos, src, flag>>
           ELSE /\ dest' = written \o SubSeq(dest, Len(written) + 1, Len(dest))
                /\ src' = Len(written)
                /\ pos' = IF match THEN p + 2 ELSE p + 1
                /\ flag' = flags
                /\ phase' = IF pos' < end THEN "unpacking" ELSE "restored"
    /\ count' = Turn
    /\ UNCHANGED <<Given, file, whole, last, end, SlideWindowVars>>

-----------------------------------------------------------------------------
LzInit ==
    /\ src = 0 /\ count = 0 /\ flag = 0 /\ last = NoMatch /\ end = 0
    /\ SlideWindowInit

LzNext ==
    \/ StartPacking \/ PutByte \/ PutMatch \/ FinishPacking
    \/ StartTrimming \/ Trim \/ TrimPastCode
    \/ StartUnpacking \/ Take \/ StartUnpackingBlz \/ TakeBlz

-----------------------------------------------------------------------------
(* CBackwardLz77::Uncompress never writes over code it has yet to read:    *)
(* while code is left, what it has written ends before it.  This is what   *)
(* the second pass of Compress trims the file for.                         *)
InPlaceKeepsInput ==
    phase = "unpacking" /\ type = "blz" /\ pos < end => src <= pos

(* "compress the target file", or "ERROR: compress file failed": whatever  *)
(* the file, --compress answers, and CBackwardLz77::Compress stays inside  *)
(* its buffers.                                                            *)
CompressStaysInBuffer == phase # "undefined"
=============================================================================
