----------------------------- MODULE SlideWindow -----------------------------
(***************************************************************************)
(* The search window of the LZ coders (SCompressInfo of lz77.h, yaz0.h and *)
(* backwardlz77.h).  The last WindowSize bytes lie in a ring of slots; the *)
(* slots that hold the same byte form a chain, from the oldest slot of the *)
(* byte (ByteTable) to the newest (EndTable), linked by OffsetTable and,   *)
(* backwards, by ReversedOffsetTable, which CLz77 does without.  The three *)
(* classes share the algorithm; CBackwardLz77 runs it from the end of the  *)
(* buffer, that is on the reversed data.                                   *)
(***************************************************************************)
EXTENDS Integers, Sequences

CONSTANTS
    WindowSize,     \* 4096; 4098 for CBackwardLz77
    Bytes,          \* the values of a byte
    Uninitialised   \* what the link tables hold before they are written

Slots == 0 .. WindowSize - 1
NoSlot == -1
Links == Slots \cup {NoSlot}

ASSUME WindowAssumption ==
    /\ WindowSize \in Nat \ {0}
    /\ Uninitialised \in [Slots -> Links]

VARIABLES
    slid,   \* every byte that has been slid in, the oldest first
    info    \* the window: SCompressInfo

SlideWindowVars == <<slid, info>>

(* The link tables are not initialised: the work memory is not cleared. *)
InitTable ==
    [WindowPos |-> 0, WindowLen |-> 0,
     OffsetTable |-> Uninitialised, ReversedOffsetTable |-> Uninitialised,
     ByteTable |-> [b \in Bytes |-> NoSlot],
     EndTable |-> [b \in Bytes |-> NoSlot]]

(* How many bytes a slot lies before the next byte to slide in. *)
Distance(w, s) ==
    IF s < w.WindowPos THEN w.WindowPos - s
                       ELSE w.WindowLen + w.WindowPos - s

InsertOffset(w) == IF w.WindowLen = WindowSize THEN w.WindowPos
                                               ELSE w.WindowLen

(* A slip: the new head keeps its way back to the slot that is reused. *)
DroppedMutant(w, out) ==
    LET head == w.OffsetTable[w.ByteTable[out]]
    IN  IF head = NoSlot
        THEN [w EXCEPT !.ByteTable[out] = NoSlot, !.EndTable[out] = NoSlot]
        ELSE [w EXCEPT !.ByteTable[out] = head]

(* The oldest byte leaves: the head of its chain moves on. *)
Dropped(w, out) ==
    LET head == w.OffsetTable[w.ByteTable[out]]
    IN  IF head = NoSlot
        THEN [w EXCEPT !.ByteTable[out] = NoSlot, !.EndTable[out] = NoSlot]
        ELSE [w EXCEPT !.ByteTable[out] = head,
                       !.ReversedOffsetTable[head] = NoSlot]

(* The new byte goes behind the newest slot of its chain. *)
Entered(w, slot, in) ==
    LET end == w.EndTable[in]
        byteTable == IF end = NoSlot THEN [w.ByteTable EXCEPT ![in] = slot]
                                     ELSE w.ByteTable
        linked == IF end = NoSlot THEN w.OffsetTable
                                  ELSE [w.OffsetTable EXCEPT ![end] = slot]
    IN  [w EXCEPT !.ByteTable = byteTable,
                  !.EndTable[in] = slot,
                  !.OffsetTable = [linked EXCEPT ![slot] = NoSlot],
                  !.ReversedOffsetTable[slot] = end]

Advanced(w) ==
    IF w.WindowLen = WindowSize
    THEN [w EXCEPT !.WindowPos = (w.WindowPos + 1) % WindowSize]
    ELSE [w EXCEPT !.WindowLen = @ + 1]

(* The window after in, when before is what was slid in so far. *)
SlideByte(w, before, in) ==
    LET kept == IF w.WindowLen = WindowSize
                THEN Dropped(w, before[Len(before) + 1 - WindowSize])
                ELSE w
    IN  Advanced(Entered(kept, InsertOffset(w), in))

(* slide: the bytes of more enter one after the other. *)
Slide(w, before, more) ==
    LET after[i \in 0 .. Len(more)] ==
            IF i = 0 THEN w
            ELSE SlideByte(after[i - 1], before \o SubSeq(more, 1, i - 1),
                           more[i])
    IN  after[Len(more)]

SlideWindowInit == slid = << >> /\ info = InitTable

SlideWindowNext ==
    \E b \in Bytes :
        /\ info' = SlideByte(info, slid, b)
        /\ slid' = Append(slid, b)

SlideWindowSpec == SlideWindowInit /\ [][SlideWindowNext]_SlideWindowVars

-----------------------------------------------------------------------------
(* The place in slid of the byte that a slot holds. *)
Place(s) == Len(slid) + 1 - Distance(info, s)

Live == {s \in Slots : s < info.WindowLen}
Chain(b) == {s \in Live : slid[Place(s)] = b}
Older(s) == {t \in Chain(slid[Place(s)]) : Place(t) < Place(s)}
Newer(s) == {t \in Chain(slid[Place(s)]) : Place(s) < Place(t)}

IsNewest(s, S) == s \in S /\ \A t \in S : Place(t) <= Place(s)
IsOldest(s, S) == s \in S /\ \A t \in S : Place(s) <= Place(t)

WindowInPlace ==
    /\ info.WindowLen = IF Len(slid) < WindowSize THEN Len(slid) ELSE WindowSize
    /\ info.WindowPos \in Slots
    /\ info.WindowLen < WindowSize => info.WindowPos = 0

ChainsHaveEnds ==
    \A b \in Bytes :
        IF Chain(b) = {}
        THEN info.ByteTable[b] = NoSlot /\ info.EndTable[b] = NoSlot
        ELSE IsOldest(info.ByteTable[b], Chain(b))
             /\ IsNewest(info.EndTable[b], Chain(b))

SlotsAreLinked ==
    \A s \in Live :
        /\ IF Newer(s) = {} THEN info.OffsetTable[s] = NoSlot
                            ELSE IsOldest(info.OffsetTable[s], Newer(s))
        /\ IF Older(s) = {} THEN info.ReversedOffsetTable[s] = NoSlot
                            ELSE IsNewest(info.ReversedOffsetTable[s], Older(s))

(* The chains hold exactly the window: following ByteTable and OffsetTable *)
(* (CLz77::search), or EndTable and ReversedOffsetTable (CYaz0, CBackward- *)
(* Lz77), visits every slot of the last WindowSize bytes that holds the    *)
(* byte, in order, none that has left and none twice.  slideByte must drop *)
(* a byte's oldest slot at the very slide that reuses it.                  *)
ChainsHoldWindow == WindowInPlace /\ ChainsHaveEnds /\ SlotsAreLinked
=============================================================================
