-------------------------- MODULE CompressionProofs --------------------------
(***************************************************************************)
(* Two proofs about the compressors: the chains of SlideWindow hold the    *)
(* window, and CBackwardLz77::Uncompress keeps the code it has yet to      *)
(* read, for every size of the window and the fields, every set of bytes   *)
(* and files of any length.                                                *)
(***************************************************************************)
EXTENDS Compression, SequenceTheorems, WellFoundedInduction, TLAPS

-----------------------------------------------------------------------------
(* The chains of the window.  A slide drops the oldest slot from its chain *)
(* and enters the same slot at the end of another: the argument treats the *)
(* two on any set of slots K with a place P and a byte V for each, and     *)
(* then shows that Place gives every slot but the new one the place it had.*)


WindowTables == [WindowPos : Slots, WindowLen : 0 .. WindowSize,
           OffsetTable : [Slots -> Links], ReversedOffsetTable : [Slots -> Links],
           ByteTable : [Bytes -> Links], EndTable : [Bytes -> Links]]

(* The ends of the chains over the slots K. *)
Ends(w, K, P, V) ==
    \A c \in Bytes :
        LET first == w.ByteTable[c]
            newest == w.EndTable[c]
        IN  \/ /\ first = NoSlot /\ newest = NoSlot
               /\ \A s \in K : V[s] # c
            \/ /\ first \in K /\ V[first] = c
               /\ newest \in K /\ V[newest] = c
               /\ \A s \in K : V[s] = c => P[first] <= P[s] /\ P[s] <= P[newest]

(* The link of s to the next slot of its chain, or to none. *)
Forward(w, K, P, V, s) ==
    LET next == w.OffsetTable[s]
    IN  \/ next = NoSlot /\ \A t \in K : V[t] = V[s] => P[t] <= P[s]
        \/ /\ next \in K /\ V[next] = V[s] /\ P[s] < P[next]
           /\ \A t \in K : V[t] = V[s] /\ P[s] < P[t] => P[next] <= P[t]

Backward(w, K, P, V, s) ==
    LET next == w.ReversedOffsetTable[s]
    IN  \/ next = NoSlot /\ \A t \in K : V[t] = V[s] => P[s] <= P[t]
        \/ /\ next \in K /\ V[next] = V[s] /\ P[next] < P[s]
           /\ \A t \in K : V[t] = V[s] /\ P[t] < P[s] => P[t] <= P[next]

Linked(w, K, P, V) ==
    /\ Ends(w, K, P, V)
    /\ \A s \in K : Forward(w, K, P, V, s) /\ Backward(w, K, P, V, s)

(* Slots in K have places of their own. *)
Placement(K, P, V) ==
    /\ K \subseteq Slots
    /\ P \in [Slots -> Int]
    /\ \A s \in K : V[s] \in Bytes
    /\ \A s, t \in K : P[s] = P[t] => s = t

LEMMA SlotFacts == /\ WindowSize \in Nat \ {0}
                   /\ Slots \subseteq Nat
                   /\ NoSlot \notin Slots /\ NoSlot \in Links
                   /\ Slots \subseteq Links
  BY WindowAssumption DEF Slots, NoSlot, Links

-----------------------------------------------------------------------------
(* The oldest slot leaves *)

LEMMA DroppedFields ==
  ASSUME NEW w \in WindowTables, NEW out \in Bytes, w.ByteTable[out] \in Slots
  PROVE  LET head == w.OffsetTable[w.ByteTable[out]]
             d == Dropped(w, out)
         IN  /\ d \in WindowTables
             /\ d.WindowPos = w.WindowPos /\ d.WindowLen = w.WindowLen
             /\ d.OffsetTable = w.OffsetTable
             /\ head = NoSlot =>
                  /\ d.ByteTable = [w.ByteTable EXCEPT ![out] = NoSlot]
                  /\ d.EndTable = [w.EndTable EXCEPT ![out] = NoSlot]
                  /\ d.ReversedOffsetTable = w.ReversedOffsetTable
             /\ head # NoSlot =>
                  /\ head \in Slots
                  /\ d.ByteTable = [w.ByteTable EXCEPT ![out] = head]
                  /\ d.EndTable = w.EndTable
                  /\ d.ReversedOffsetTable =
                         [w.ReversedOffsetTable EXCEPT ![head] = NoSlot]
<1> DEFINE head == w.OffsetTable[w.ByteTable[out]]
<1>1. head \in Links
  BY DEF WindowTables
<1>2. CASE head = NoSlot
  BY <1>2, SlotFacts DEF Dropped, WindowTables
<1>3. CASE head # NoSlot
  <2>1. head \in Slots
    BY <1>1, <1>3 DEF Links
  <2> QED
    BY <1>3, <2>1, SlotFacts DEF Dropped, WindowTables
<1> QED
  BY <1>2, <1>3

LEMMA DropKeepsLinks ==
  ASSUME NEW w \in WindowTables, NEW K, NEW P, NEW V, Placement(K, P, V), Linked(w, K, P, V),
         NEW o \in K, \A t \in K : P[o] <= P[t]
  PROVE  /\ Dropped(w, V[o]) \in WindowTables
         /\ Linked(Dropped(w, V[o]), K \ {o}, P, V)
<1> DEFINE out == V[o]
           d == Dropped(w, out)
           head == w.OffsetTable[o]
           L == K \ {o}
<1>1. /\ K \subseteq Slots /\ out \in Bytes
      /\ \A s \in K : P[s] \in Int /\ V[s] \in Bytes /\ s \in Slots /\ s # NoSlot
      /\ \A s, t \in K : P[s] = P[t] => s = t
  BY SlotFacts DEF Placement
<1>2. w.ByteTable[out] = o
  BY <1>1 DEF Linked, Ends
<1>3. /\ d \in WindowTables
      /\ d.OffsetTable = w.OffsetTable
      /\ head = NoSlot =>
           /\ d.ByteTable = [w.ByteTable EXCEPT ![out] = NoSlot]
           /\ d.EndTable = [w.EndTable EXCEPT ![out] = NoSlot]
           /\ d.ReversedOffsetTable = w.ReversedOffsetTable
      /\ head # NoSlot =>
           /\ d.ByteTable = [w.ByteTable EXCEPT ![out] = head]
           /\ d.EndTable = w.EndTable
           /\ d.ReversedOffsetTable = [w.ReversedOffsetTable EXCEPT ![head] = NoSlot]
  BY <1>1, <1>2, DroppedFields
<1>4. /\ w.ByteTable \in [Bytes -> Links] /\ w.EndTable \in [Bytes -> Links]
      /\ w.ReversedOffsetTable \in [Slots -> Links]
  BY DEF WindowTables
<1>5. Forward(w, K, P, V, o)
  BY DEF Linked
<1>6. CASE head = NoSlot
  <2>1. \A t \in L : V[t] # out
    BY <1>1, <1>5, <1>6 DEF Forward
  <2>2. Ends(d, L, P, V)
    <3> SUFFICES ASSUME NEW c \in Bytes
                 PROVE  \/ /\ d.ByteTable[c] = NoSlot /\ d.EndTable[c] = NoSlot
                           /\ \A s \in L : V[s] # c
                        \/ /\ d.ByteTable[c] \in L /\ V[d.ByteTable[c]] = c
                           /\ d.EndTable[c] \in L /\ V[d.EndTable[c]] = c
                           /\ \A s \in L : V[s] = c => /\ P[d.ByteTable[c]] <= P[s]
                                                       /\ P[s] <= P[d.EndTable[c]]
      BY DEF Ends
    <3>1. CASE c = out
      BY <1>3, <1>4, <1>6, <2>1, <3>1
    <3>2. CASE c # out
      <4>1. d.ByteTable[c] = w.ByteTable[c] /\ d.EndTable[c] = w.EndTable[c]
        BY <1>3, <1>4, <1>6, <3>2
      <4>2. Ends(w, K, P, V)
        BY DEF Linked
      <4> QED
        BY <4>1, <4>2, <3>2 DEF Ends
    <3> QED
      BY <3>1, <3>2
  <2>3. ASSUME NEW s \in L
        PROVE  Forward(d, L, P, V, s) /\ Backward(d, L, P, V, s)
    <3>1. Forward(w, K, P, V, s) /\ Backward(w, K, P, V, s) /\ V[s] # out
      BY <2>1 DEF Linked
    <3>2. d.OffsetTable[s] = w.OffsetTable[s]
          /\ d.ReversedOffsetTable[s] = w.ReversedOffsetTable[s]
      BY <1>3, <1>6
    <3> QED
      BY <3>1, <3>2 DEF Forward, Backward
  <2> QED
    BY <1>3, <2>2, <2>3 DEF Linked
<1>7. CASE head # NoSlot
  <2>1. /\ head \in L /\ V[head] = out /\ P[o] < P[head]
        /\ \A t \in L : V[t] = out => P[head] <= P[t]
    BY <1>1, <1>5, <1>7 DEF Forward
  <2>2. Ends(d, L, P, V)
    <3> SUFFICES ASSUME NEW c \in Bytes
                 PROVE  \/ /\ d.ByteTable[c] = NoSlot /\ d.EndTable[c] = NoSlot
                           /\ \A s \in L : V[s] # c
                        \/ /\ d.ByteTable[c] \in L /\ V[d.ByteTable[c]] = c
                           /\ d.EndTable[c] \in L /\ V[d.EndTable[c]] = c
                           /\ \A s \in L : V[s] = c => /\ P[d.ByteTable[c]] <= P[s]
                                                       /\ P[s] <= P[d.EndTable[c]]
      BY DEF Ends
    <3>1. Ends(w, K, P, V) /\ d.EndTable[c] = w.EndTable[c]
      BY <1>3, <1>7 DEF Linked
    <3>2. CASE c = out
      <4>1. d.ByteTable[c] = head
        BY <1>3, <1>4, <1>7, <3>2
      <4>2. /\ w.EndTable[c] \in K /\ V[w.EndTable[c]] = c
            /\ \A s \in K : V[s] = c => P[s] <= P[w.EndTable[c]]
        BY <1>1, <3>1, <3>2 DEF Ends
      <4>3. w.EndTable[c] # o
        BY <1>1, <2>1, <3>2, <4>2
      <4> QED
        BY <2>1, <3>1, <3>2, <4>1, <4>2, <4>3
    <3>3. CASE c # out
      <4>1. d.ByteTable[c] = w.ByteTable[c]
        BY <1>3, <1>4, <1>7, <3>3
      <4> QED
        BY <3>1, <3>3, <4>1 DEF Ends
    <3> QED
      BY <3>2, <3>3
  <2>3. ASSUME NEW s \in L
        PROVE  Forward(d, L, P, V, s)
    <3>1. Forward(w, K, P, V, s) /\ d.OffsetTable[s] = w.OffsetTable[s]
      BY <1>3 DEF Linked
    <3>2. w.OffsetTable[s] # o
      BY <1>1, <3>1 DEF Forward
    <3> QED
      BY <3>1, <3>2 DEF Forward
  <2>4. ASSUME NEW s \in L
        PROVE  Backward(d, L, P, V, s)
    <3>1. Backward(w, K, P, V, s) /\ s \in Slots
      BY <1>1 DEF Linked
    <3>2. CASE s = head
      <4>1. d.ReversedOffsetTable[s] = NoSlot
        BY <1>3, <1>4, <1>7, <3>1, <3>2
      <4> QED
        BY <2>1, <3>2, <4>1 DEF Backward
    <3>3. CASE s # head /\ V[s] = out
      <4>1. d.ReversedOffsetTable[s] = w.ReversedOffsetTable[s]
        BY <1>3, <1>4, <1>7, <3>1, <3>3
      <4>2. P[head] < P[s]
        BY <1>1, <2>1, <3>3
      <4>3. w.ReversedOffsetTable[s] # NoSlot /\ w.ReversedOffsetTable[s] # o
        BY <1>1, <2>1, <3>1, <3>3, <4>2 DEF Backward
      <4> QED
        BY <3>1, <4>1, <4>3 DEF Backward
    <3>4. CASE s # head /\ V[s] # out
      <4>1. d.ReversedOffsetTable[s] = w.ReversedOffsetTable[s]
        BY <1>3, <1>4, <1>7, <3>1, <3>4
      <4> QED
        BY <3>1, <3>4, <4>1 DEF Backward
    <3> QED
      BY <3>2, <3>3, <3>4
  <2> QED
    BY <1>3, <2>2, <2>3, <2>4 DEF Linked
<1> QED
  BY <1>6, <1>7
-----------------------------------------------------------------------------
(* A slot enters behind the newest of its chain *)

LEMMA EnteredInPlace ==
  ASSUME NEW w \in WindowTables, NEW i \in Slots, NEW in \in Bytes
  PROVE  LET e == Entered(w, i, in)
         IN  /\ e \in WindowTables
             /\ e.WindowPos = w.WindowPos /\ e.WindowLen = w.WindowLen
<1>1. w.EndTable[in] \in Links
  BY DEF WindowTables
<1>2. CASE w.EndTable[in] = NoSlot
  BY <1>2, SlotFacts DEF Entered, WindowTables
<1>3. CASE w.EndTable[in] # NoSlot
  <2>1. w.EndTable[in] \in Slots
    BY <1>1, <1>3 DEF Links
  <2> QED
    BY <1>3, <2>1, SlotFacts DEF Entered, WindowTables
<1> QED
  BY <1>2, <1>3

LEMMA EnterKeepsLinks ==
  ASSUME NEW w \in WindowTables, NEW K, NEW P, NEW V, Placement(K, P, V), Linked(w, K, P, V),
         NEW i \in Slots \ K, NEW in \in Bytes, NEW Q, NEW U,
         Placement(K \cup {i}, Q, U),
         \A s \in K : Q[s] = P[s] /\ U[s] = V[s] /\ Q[s] < Q[i],
         U[i] = in
  PROVE  /\ Entered(w, i, in) \in WindowTables
         /\ Linked(Entered(w, i, in), K \cup {i}, Q, U)
<1> DEFINE e == Entered(w, i, in)
           tail == w.EndTable[in]
           M == K \cup {i}
<1>1. /\ \A s \in M : Q[s] \in Int /\ U[s] \in Bytes /\ s \in Slots /\ s # NoSlot
      /\ \A s, t \in M : Q[s] = Q[t] => s = t
  BY SlotFacts DEF Placement
<1>2. /\ w.ByteTable \in [Bytes -> Links] /\ w.EndTable \in [Bytes -> Links]
      /\ w.OffsetTable \in [Slots -> Links]
      /\ w.ReversedOffsetTable \in [Slots -> Links]
  BY DEF WindowTables
<1>3. /\ e \in WindowTables
      /\ e.EndTable = [w.EndTable EXCEPT ![in] = i]
      /\ e.ReversedOffsetTable = [w.ReversedOffsetTable EXCEPT ![i] = tail]
      /\ tail = NoSlot =>
           /\ e.ByteTable = [w.ByteTable EXCEPT ![in] = i]
           /\ e.OffsetTable = [w.OffsetTable EXCEPT ![i] = NoSlot]
      /\ tail # NoSlot =>
           /\ e.ByteTable = w.ByteTable
           /\ e.OffsetTable = [[w.OffsetTable EXCEPT ![tail] = i] EXCEPT ![i] = NoSlot]
  <2>1. i \in Slots /\ tail \in Links
    BY <1>2
  <2>2. CASE tail = NoSlot
    BY <2>1, <2>2, SlotFacts DEF Entered, WindowTables
  <2>3. CASE tail # NoSlot
    <3>1. tail \in Slots
      BY <2>1, <2>3 DEF Links
    <3> QED
      BY <2>1, <2>3, <3>1, SlotFacts DEF Entered, WindowTables
  <2> QED
    BY <2>2, <2>3
<1>4. \/ /\ w.ByteTable[in] = NoSlot /\ tail = NoSlot
         /\ \A s \in K : V[s] # in
      \/ /\ w.ByteTable[in] \in K /\ V[w.ByteTable[in]] = in
         /\ tail \in K /\ V[tail] = in
         /\ \A s \in K : V[s] = in => /\ P[w.ByteTable[in]] <= P[s]
                                      /\ P[s] <= P[tail]
  BY DEF Linked, Ends
<1>5. Ends(e, M, Q, U)
  <2> SUFFICES ASSUME NEW c \in Bytes
               PROVE  \/ /\ e.ByteTable[c] = NoSlot /\ e.EndTable[c] = NoSlot
                         /\ \A s \in M : U[s] # c
                      \/ /\ e.ByteTable[c] \in M /\ U[e.ByteTable[c]] = c
                         /\ e.EndTable[c] \in M /\ U[e.EndTable[c]] = c
                         /\ \A s \in M : U[s] = c => /\ Q[e.ByteTable[c]] <= Q[s]
                                                     /\ Q[s] <= Q[e.EndTable[c]]
    BY DEF Ends
  <2>1. CASE c # in
    <3>1. e.EndTable[c] = w.EndTable[c] /\ e.ByteTable[c] = w.ByteTable[c]
      BY <1>2, <1>3, <2>1
    <3>2. Ends(w, K, P, V)
      BY DEF Linked
    <3> QED
      BY <1>1, <2>1, <3>1, <3>2 DEF Ends
  <2>2. CASE c = in /\ tail = NoSlot
    <3>1. e.EndTable[c] = i /\ e.ByteTable[c] = i /\ \A s \in K : V[s] # in
      BY <1>1, <1>2, <1>3, <1>4, <2>2
    <3> QED
      BY <1>1, <2>2, <3>1
  <2>3. CASE c = in /\ tail # NoSlot
    <3>1. /\ e.EndTable[c] = i /\ e.ByteTable[c] = w.ByteTable[in]
          /\ w.ByteTable[in] \in K /\ V[w.ByteTable[in]] = in
          /\ \A s \in K : V[s] = in => P[w.ByteTable[in]] <= P[s]
      BY <1>1, <1>2, <1>3, <1>4, <2>3
    <3> QED
      BY <1>1, <2>3, <3>1
  <2> QED
    BY <2>1, <2>2, <2>3
<1>6. ASSUME NEW s \in M
      PROVE  Forward(e, M, Q, U, s)
  <2>1. CASE s = i
    <3>1. e.OffsetTable[i] = NoSlot
      BY <1>2, <1>3
    <3> QED
      BY <1>1, <2>1, <3>1 DEF Forward
  <2>2. CASE s \in K /\ s = tail
    <3>1. e.OffsetTable[s] = i /\ V[s] = in
          /\ \A t \in K : V[t] = in => P[t] <= P[s]
      BY <1>1, <1>2, <1>3, <1>4, <2>2
    <3> QED
      BY <1>1, <2>2, <3>1 DEF Forward
  <2>3. CASE s \in K /\ s # tail
    <3>1. e.OffsetTable[s] = w.OffsetTable[s] /\ Forward(w, K, P, V, s)
      BY <1>1, <1>2, <1>3, <2>3 DEF Linked
    <3>2. V[s] = in => tail \in K /\ V[tail] = in /\ P[s] < P[tail]
      BY <1>1, <1>4, <2>3
    <3>3. CASE V[s] = in
      BY <1>1, <2>3, <3>1, <3>2, <3>3 DEF Forward
    <3>4. CASE V[s] # in
      BY <1>1, <2>3, <3>1, <3>4 DEF Forward
    <3> QED
      BY <3>3, <3>4
  <2> QED
    BY <2>1, <2>2, <2>3
<1>7. ASSUME NEW s \in M
      PROVE  Backward(e, M, Q, U, s)
  <2>1. CASE s = i
    <3>1. e.ReversedOffsetTable[i] = tail
      BY <1>2, <1>3
    <3> QED
      BY <1>1, <1>4, <2>1, <3>1 DEF Backward
  <2>2. CASE s \in K
    <3>1. e.ReversedOffsetTable[s] = w.ReversedOffsetTable[s] /\ Backward(w, K, P, V, s)
      BY <1>1, <1>2, <1>3, <2>2 DEF Linked
    <3> QED
      BY <1>1, <2>2, <3>1 DEF Backward
  <2> QED
    BY <2>1, <2>2
<1> QED
  BY <1>3, <1>5, <1>6, <1>7 DEF Linked

-----------------------------------------------------------------------------
(* Where the slots are *)

Places == [s \in Slots |-> Place(s)]
ValueAt == [s \in Live |-> slid[Place(s)]]

WindowType == slid \in Seq(Bytes) /\ info \in WindowTables

(* Of len slots in use from at on round, two have different places. *)
LEMMA RingIsInjective ==
  ASSUME NEW n \in Nat, NEW len \in Nat, NEW at \in Nat, at < len \/ at = 0,
         NEW s \in Nat, s < len, NEW t \in Nat, t < len,
         NEW p, s < at => p = n + 1 - (at - s),
                ~ s < at => p = n + 1 - (len + at - s),
         NEW q, t < at => q = n + 1 - (at - t),
                ~ t < at => q = n + 1 - (len + at - t),
         p = q
  PROVE  s = t
<1>1. CASE s < at /\ t < at
  BY <1>1
<1>2. CASE ~ s < at /\ ~ t < at
  BY <1>2
<1>3. CASE s < at /\ ~ t < at
  <2>1. at - s = len + at - t /\ at - s <= at /\ at < len + at - t
    BY <1>3
  <2> QED
    BY <2>1
<1>4. CASE t < at /\ ~ s < at
  <2>1. at - t = len + at - s /\ at - t <= at /\ at < len + at - s
    BY <1>4
  <2> QED
    BY <2>1
<1> QED
  BY <1>1, <1>2, <1>3, <1>4

LEMMA PlaceBounds ==
  ASSUME WindowType, WindowInPlace
  PROVE  /\ Placement(Live, Places, ValueAt)
         /\ \A s \in Live : Place(s) \in 1 .. Len(slid)
         /\ info.WindowLen = WindowSize =>
              /\ Live = Slots
              /\ Place(info.WindowPos) = Len(slid) + 1 - WindowSize
              /\ \A s \in Slots : Place(info.WindowPos) <= Place(s)
         /\ info.WindowLen < WindowSize =>
              \A s \in Live : Place(s) = s + 1
<1>1. /\ WindowSize \in Nat \ {0} /\ Len(slid) \in Nat
      /\ info.WindowLen \in 0 .. WindowSize /\ info.WindowPos \in 0 .. WindowSize - 1
      /\ info.WindowLen <= Len(slid)
      /\ info.WindowLen < WindowSize => info.WindowPos = 0
                                        /\ info.WindowLen = Len(slid)
  BY SlotFacts DEF WindowType, WindowInPlace, WindowTables, Slots
<1>2. \A s \in Slots :
         /\ Place(s) = IF s < info.WindowPos
                       THEN Len(slid) + 1 - (info.WindowPos - s)
                       ELSE Len(slid) + 1 - (info.WindowLen + info.WindowPos - s)
         /\ s \in Nat /\ s < WindowSize /\ Place(s) \in Int
  BY <1>1 DEF Place, Distance, Slots
<1>3. \A s \in Live : s \in Slots /\ s < info.WindowLen
  BY DEF Live
<1>4. \A s \in Live : Place(s) \in 1 .. Len(slid)
  BY <1>1, <1>2, <1>3
<1>5. ASSUME NEW s \in Live, NEW t \in Live, Place(s) = Place(t)
      PROVE  s = t
  <2>1. /\ s \in Nat /\ s < info.WindowLen /\ t \in Nat /\ t < info.WindowLen
        /\ s < info.WindowPos => Place(s) = Len(slid) + 1 - (info.WindowPos - s)
        /\ t < info.WindowPos => Place(t) = Len(slid) + 1 - (info.WindowPos - t)
        /\ ~ s < info.WindowPos =>
             Place(s) = Len(slid) + 1 - (info.WindowLen + info.WindowPos - s)
        /\ ~ t < info.WindowPos =>
             Place(t) = Len(slid) + 1 - (info.WindowLen + info.WindowPos - t)
    BY <1>2, <1>3
  <2> DEFINE n == Len(slid)
             len == info.WindowLen
             at == info.WindowPos
             p == Place(s)
             q == Place(t)
  <2>2. /\ n \in Nat /\ len \in Nat /\ at \in Nat /\ s \in Nat /\ t \in Nat
        /\ at < len \/ at = 0
        /\ s < len /\ t < len
    BY <1>1, <2>1
  <2>3. /\ s < at => p = n + 1 - (at - s)
        /\ ~ s < at => p = n + 1 - (len + at - s)
        /\ t < at => q = n + 1 - (at - t)
        /\ ~ t < at => q = n + 1 - (len + at - t)
        /\ p = q
    BY <1>5, <2>1
  <2> HIDE DEF n, len, at, p, q
  <2> QED
    BY ONLY <2>2, <2>3, RingIsInjective
<1>6. \A s \in Live : ValueAt[s] \in Bytes
  BY <1>4 DEF ValueAt, WindowType
<1>7. Placement(Live, Places, ValueAt)
  <2>1. Places \in [Slots -> Int] /\ Live \subseteq Slots
    BY <1>2 DEF Places, Live
  <2> QED
    BY <1>3, <1>5, <1>6, <2>1 DEF Placement, Places
<1>8. info.WindowLen = WindowSize =>
        /\ Live = Slots
        /\ Place(info.WindowPos) = Len(slid) + 1 - WindowSize
        /\ \A s \in Slots : Place(info.WindowPos) <= Place(s)
  <2>1. info.WindowLen = WindowSize => Live = Slots
    BY <1>2 DEF Live
  <2>2. info.WindowPos \in Slots
    BY <1>1 DEF Slots
  <2>3. info.WindowLen = WindowSize =>
          Place(info.WindowPos) = Len(slid) + 1 - WindowSize
    BY <1>1, <1>2, <2>2
  <2>4. ASSUME info.WindowLen = WindowSize, NEW s \in Slots
        PROVE  Len(slid) + 1 - WindowSize <= Place(s)
    BY <1>1, <1>2, <2>4
  <2> QED
    BY <2>1, <2>3, <2>4
<1>9. info.WindowLen < WindowSize => \A s \in Live : Place(s) = s + 1
  BY <1>1, <1>2, <1>3
<1> QED
  BY <1>4, <1>7, <1>8, <1>9

(* What ChainsHoldWindow says of the chains, in the terms above. *)
LEMMA LinkedIsChains ==
  ASSUME WindowType, WindowInPlace
  PROVE  Linked(info, Live, Places, ValueAt) <=> ChainsHaveEnds /\ SlotsAreLinked
<1>1. /\ Live \subseteq Slots /\ NoSlot \notin Live
      /\ \A s \in Live : /\ Places[s] = Place(s) /\ Place(s) \in Int
                         /\ ValueAt[s] = slid[Place(s)] /\ ValueAt[s] \in Bytes
      /\ \A s, t \in Live : Place(s) = Place(t) => s = t
  BY PlaceBounds, SlotFacts DEF Places, ValueAt, Live, Placement
<1>2. ASSUME NEW c \in Bytes
      PROVE  (IF Chain(c) = {}
              THEN info.ByteTable[c] = NoSlot /\ info.EndTable[c] = NoSlot
              ELSE IsOldest(info.ByteTable[c], Chain(c))
                   /\ IsNewest(info.EndTable[c], Chain(c)))
             <=> \/ /\ info.ByteTable[c] = NoSlot /\ info.EndTable[c] = NoSlot
                    /\ \A s \in Live : ValueAt[s] # c
                 \/ /\ info.ByteTable[c] \in Live /\ ValueAt[info.ByteTable[c]] = c
                    /\ info.EndTable[c] \in Live /\ ValueAt[info.EndTable[c]] = c
                    /\ \A s \in Live : ValueAt[s] = c =>
                          /\ Places[info.ByteTable[c]] <= Places[s]
                          /\ Places[s] <= Places[info.EndTable[c]]
  <2>1. \A s : s \in Chain(c) <=> s \in Live /\ ValueAt[s] = c
    BY <1>1 DEF Chain
  <2>2. CASE Chain(c) = {}
    BY <2>1, <2>2
  <2>3. CASE Chain(c) # {}
    BY <1>1, <2>1, <2>3 DEF IsOldest, IsNewest
  <2> QED
    BY <2>2, <2>3
<1>3. ASSUME NEW s \in Live
      PROVE  (IF Newer(s) = {} THEN info.OffsetTable[s] = NoSlot
                               ELSE IsOldest(info.OffsetTable[s], Newer(s)))
             <=> Forward(info, Live, Places, ValueAt, s)
  <2>1. \A t : t \in Newer(s) <=> /\ t \in Live /\ ValueAt[t] = ValueAt[s]
                                 /\ Places[s] < Places[t]
    BY <1>1 DEF Newer, Chain
  <2>2. CASE Newer(s) = {}
    BY <1>1, <2>1, <2>2 DEF Forward
  <2>3. CASE Newer(s) # {}
    BY <1>1, <2>1, <2>3 DEF Forward, IsOldest
  <2> QED
    BY <2>2, <2>3
<1>4. ASSUME NEW s \in Live
      PROVE  (IF Older(s) = {} THEN info.ReversedOffsetTable[s] = NoSlot
                               ELSE IsNewest(info.ReversedOffsetTable[s], Older(s)))
             <=> Backward(info, Live, Places, ValueAt, s)
  <2>1. \A t : t \in Older(s) <=> /\ t \in Live /\ ValueAt[t] = ValueAt[s]
                                 /\ Places[t] < Places[s]
    BY <1>1 DEF Older, Chain
  <2>2. CASE Older(s) = {}
    BY <1>1, <2>1, <2>2 DEF Backward
  <2>3. CASE Older(s) # {}
    BY <1>1, <2>1, <2>3 DEF Backward, IsNewest
  <2> QED
    BY <2>2, <2>3
<1>5. Ends(info, Live, Places, ValueAt) <=> ChainsHaveEnds
  BY <1>2 DEF Ends, ChainsHaveEnds
<1>6. (\A s \in Live : /\ Forward(info, Live, Places, ValueAt, s)
                       /\ Backward(info, Live, Places, ValueAt, s))
        <=> SlotsAreLinked
  BY <1>3, <1>4 DEF SlotsAreLinked
<1> QED
  BY <1>5, <1>6 DEF Linked
-----------------------------------------------------------------------------
(* A slide *)

PlaceAfter(s) == Len(slid') + 1 - Distance(info', s)

LEMMA NextInRing ==
  ASSUME NEW N \in Nat \ {0}, NEW k \in 0 .. N - 1, k + 1 # N
  PROVE  (k + 1) % N = k + 1
  OBVIOUS

(* The arithmetic of it: of N slots len are in use, from at on round. *)
LEMMA ShiftedPlaceOfNew ==
  ASSUME NEW N \in Nat, NEW n \in Nat, NEW len \in 0 .. N, NEW at \in 0 .. N - 1,
         len = (IF n < N THEN n ELSE N), len < N => at = 0,
         NEW next, next = IF len = N /\ at + 1 # N THEN at + 1 ELSE 0,
         NEW more, more = IF len = N THEN N ELSE len + 1,
         NEW i, i = IF len = N THEN at ELSE len
  PROVE  (IF i < next THEN n + 1 + 1 - (next - i)
                      ELSE n + 1 + 1 - (more + next - i)) = n + 1
<1>1. CASE len = N /\ at + 1 # N
  BY <1>1
<1>2. CASE len = N /\ at + 1 = N
  BY <1>2
<1>3. CASE len # N
  BY <1>3
<1> QED
  BY <1>1, <1>2, <1>3

LEMMA ShiftedPlaceOfOld ==
  ASSUME NEW N \in Nat, NEW n \in Nat, NEW len \in 0 .. N, NEW at \in 0 .. N - 1,
         len = (IF n < N THEN n ELSE N), len < N => at = 0,
         NEW next, next = IF len = N /\ at + 1 # N THEN at + 1 ELSE 0,
         NEW more, more = IF len = N THEN N ELSE len + 1,
         NEW i, i = IF len = N THEN at ELSE len,
         NEW s \in Nat, s < N, s < len, s # i,
         NEW p, p = (IF s < next THEN n + 1 + 1 - (next - s)
                                 ELSE n + 1 + 1 - (more + next - s)),
         NEW q, q = (IF s < at THEN n + 1 - (at - s) ELSE n + 1 - (len + at - s))
  PROVE  p = q
<1>1. CASE len = N /\ at + 1 # N
  <2>1. s < at + 1 <=> s < at
    BY <1>1
  <2> QED
    BY <1>1, <2>1
<1>2. CASE len = N /\ at + 1 = N
  <2>1. s < at /\ next = 0 /\ more = at + 1
    BY <1>2
  <2> QED
    BY <2>1
<1>3. CASE len # N
  <2>1. at = 0 /\ next = 0 /\ more = len + 1 /\ len \in Nat
    BY <1>3
  <2> QED
    BY <2>1
<1> QED
  BY <1>1, <1>2, <1>3

(* Nothing but the slot of the new byte changes its place. *)
LEMMA PlacesKept ==
  ASSUME WindowType, WindowInPlace, NEW b \in Bytes, slid' = Append(slid, b),
         info' \in WindowTables,
         info'.WindowLen = (IF info.WindowLen = WindowSize THEN WindowSize
                                                          ELSE info.WindowLen + 1),
         info'.WindowPos = (IF info.WindowLen = WindowSize
                            THEN (info.WindowPos + 1) % WindowSize
                            ELSE info.WindowPos)
  PROVE  LET i == InsertOffset(info)
             K == Live \ {i}
         IN  /\ i \in Slots /\ Live' = K \cup {i}
             /\ PlaceAfter(i) = Len(slid) + 1
             /\ \A s \in K : PlaceAfter(s) = Place(s)
             /\ WindowInPlace'
<1> DEFINE i == InsertOffset(info)
           n == Len(slid)
           N == WindowSize
           len == info.WindowLen
           at == info.WindowPos
           next == info'.WindowPos
<1>1. /\ N \in Nat \ {0} /\ n \in Nat /\ len \in 0 .. N /\ at \in 0 .. N - 1
      /\ len = IF n < N THEN n ELSE N
      /\ len < N => at = 0
      /\ Len(slid') = n + 1
  BY SlotFacts DEF WindowType, WindowInPlace, WindowTables, Slots
<1>2. /\ info'.WindowLen = IF len = N THEN N ELSE len + 1
      /\ next = IF len = N /\ at + 1 # N THEN at + 1 ELSE 0
      /\ i = IF len = N THEN at ELSE len
      /\ i \in Slots
  <2>1. len = N => next = (at + 1) % N
    OBVIOUS
  <2>2. CASE len = N /\ at + 1 = N
    <3>1. (at + 1) % N = 0
      BY <1>1, <2>2
    <3> QED
      BY <1>1, <2>1, <2>2, <3>1 DEF InsertOffset, Slots
  <2>3. CASE len = N /\ at + 1 # N
    <3>1. (at + 1) % N = at + 1
      BY <1>1, <2>3, NextInRing
    <3> QED
      BY <1>1, <2>1, <2>3, <3>1 DEF InsertOffset, Slots
  <2>4. CASE len # N
    BY <1>1, <2>4 DEF InsertOffset, Slots
  <2> QED
    BY <2>2, <2>3, <2>4
<1>3. \A s : s \in Slots <=> s \in Nat /\ s < N
  BY <1>1 DEF Slots
<1>4. \A s \in Slots :
         /\ Place(s) = (IF s < at THEN n + 1 - (at - s) ELSE n + 1 - (len + at - s))
         /\ PlaceAfter(s) = (IF s < next THEN n + 1 + 1 - (next - s)
                             ELSE n + 1 + 1 - (info'.WindowLen + next - s))
  BY <1>1 DEF Place, PlaceAfter, Distance
<1>5. \A s : /\ s \in Live <=> s \in Slots /\ s < len
             /\ s \in Live' <=> s \in Slots /\ s < info'.WindowLen
  BY DEF Live
<1> HIDE DEF i, n, N, len, at, next
<1>6. Live' = (Live \ {i}) \cup {i}
  <2>1. CASE len = N
    BY <1>2, <1>5, <1>3, <2>1
  <2>2. CASE len # N
    <3>1. \A s \in Nat : s < len + 1 <=> s < len \/ s = len
      BY <1>1
    <3>2. i = len /\ info'.WindowLen = len + 1
      BY <1>2, <2>2
    <3> QED
      BY <1>2, <1>5, <1>3, <3>1, <3>2
  <2> QED
    BY <2>1, <2>2
<1>7. PlaceAfter(i) = n + 1
  BY <1>1, <1>2, <1>3, <1>4, ShiftedPlaceOfNew
<1>8. ASSUME NEW s \in Live \ {i}
      PROVE  PlaceAfter(s) = Place(s)
  <2>1. /\ s \in Slots /\ s \in Nat /\ s < N /\ s < len /\ s # i
    BY <1>3, <1>5
  <2>2. /\ Place(s) = (IF s < at THEN n + 1 - (at - s) ELSE n + 1 - (len + at - s))
        /\ PlaceAfter(s) = (IF s < next THEN n + 1 + 1 - (next - s)
                            ELSE n + 1 + 1 - (info'.WindowLen + next - s))
    BY <1>4, <2>1
  <2> QED
    BY <1>1, <1>2, <2>1, <2>2, ShiftedPlaceOfOld
<1>9. WindowInPlace'
  BY <1>1, <1>2, <1>3 DEF WindowInPlace, N, n, len, at, next
<1> QED
  BY <1>2, <1>6, <1>7, <1>8, <1>9 DEF i, n

WindowInv == WindowType /\ ChainsHoldWindow

LEMMA SlideKeepsChains ==
  ASSUME WindowInv, NEW b \in Bytes,
         info' = SlideByte(info, slid, b), slid' = Append(slid, b)
  PROVE  WindowInv'
<1> DEFINE i == InsertOffset(info)
           full == info.WindowLen = WindowSize
           out == slid[Len(slid) + 1 - WindowSize]
           kept == IF full THEN Dropped(info, out) ELSE info
           entered == Entered(kept, i, b)
           K == Live \ {i}
<1>1. /\ WindowType /\ WindowInPlace
      /\ Placement(Live, Places, ValueAt)
      /\ Linked(info, Live, Places, ValueAt)
      /\ \A s \in Live : Place(s) \in 1 .. Len(slid)
  BY PlaceBounds, LinkedIsChains DEF WindowInv, ChainsHoldWindow
<1>2. i \in Slots
  BY <1>1, SlotFacts DEF InsertOffset, WindowInPlace, WindowType, WindowTables, Slots
<1>3. /\ kept \in WindowTables
      /\ kept.WindowPos = info.WindowPos /\ kept.WindowLen = info.WindowLen
      /\ Linked(kept, K, Places, ValueAt)
  <2>1. CASE full
    <3>1. /\ i = info.WindowPos /\ i \in Live /\ Places[i] = Len(slid) + 1 - WindowSize
          /\ \A t \in Live : Places[i] <= Places[t]
      BY <1>1, <1>2, <2>1, PlaceBounds DEF InsertOffset, Places
    <3>2. out = ValueAt[i]
      BY <1>2, <3>1 DEF ValueAt, Places
    <3>3. info \in WindowTables
      BY <1>1 DEF WindowType
    <3>4. Dropped(info, out) \in WindowTables /\ Linked(Dropped(info, out), K, Places, ValueAt)
      BY <1>1, <3>1, <3>2, <3>3, DropKeepsLinks
    <3>5. ValueAt[i] \in Bytes
      BY <1>1, <3>1 DEF Placement
    <3>6. info.ByteTable[out] \in Slots
      BY <1>1, <3>1, <3>2, <3>5 DEF Linked, Ends, Placement
    <3>7. Dropped(info, out).WindowPos = info.WindowPos
          /\ Dropped(info, out).WindowLen = info.WindowLen
      BY <3>2, <3>3, <3>5, <3>6, DroppedFields
    <3> QED
      BY <2>1, <3>4, <3>7
  <2>2. CASE ~full
    <3>1. i \notin Live
      BY <1>1, <2>2 DEF InsertOffset, Live, WindowType, WindowTables
    <3>2. K = Live
      BY <3>1
    <3> QED
      BY <1>1, <2>2, <3>2 DEF WindowType
  <2> QED
    BY <2>1, <2>2
<1>4. info' = Advanced(entered)
  BY DEF SlideByte
<1> HIDE DEF kept
<1>5. /\ entered \in WindowTables
      /\ entered.WindowPos = info.WindowPos /\ entered.WindowLen = info.WindowLen
  BY <1>2, <1>3, EnteredInPlace
<1> HIDE DEF entered
<1>6. /\ info' \in WindowTables
      /\ info'.WindowLen = (IF full THEN WindowSize ELSE info.WindowLen + 1)
      /\ info'.WindowPos = (IF full THEN (info.WindowPos + 1) % WindowSize
                                    ELSE info.WindowPos)
      /\ info'.OffsetTable = entered.OffsetTable
      /\ info'.ReversedOffsetTable = entered.ReversedOffsetTable
      /\ info'.ByteTable = entered.ByteTable
      /\ info'.EndTable = entered.EndTable
  <2>1. CASE full
    <3>1. (info.WindowPos + 1) % WindowSize \in Slots
      BY <1>1, SlotFacts DEF WindowInPlace, Slots
    <3> QED
      BY <1>4, <1>5, <2>1, <3>1, SlotFacts DEF Advanced, WindowTables
  <2>2. CASE ~full
    <3>1. info.WindowLen + 1 \in 0 .. WindowSize
      BY <1>1, <2>2, SlotFacts DEF WindowType, WindowTables
    <3> QED
      BY <1>4, <1>5, <2>2, <3>1 DEF Advanced, WindowTables
  <2> QED
    BY <2>1, <2>2
<1>7. /\ Live' = K \cup {i}
      /\ PlaceAfter(i) = Len(slid) + 1
      /\ \A s \in K : PlaceAfter(s) = Place(s)
      /\ WindowInPlace'
  BY <1>1, <1>6, PlacesKept
<1>8. WindowType'
  BY <1>1, <1>6 DEF WindowType
<1>9. Placement(Live', Places', ValueAt')
  <2>1. Placement(Live, Places, ValueAt)'
    BY <1>7, <1>8, PlaceBounds, PTL
  <2> QED
    BY <2>1
<1>10. /\ \A s \in K : Places'[s] = Places[s] /\ ValueAt'[s] = ValueAt[s]
                       /\ Places'[s] < Places'[i]
       /\ ValueAt'[i] = b
  <2>1. \A s \in Slots : Places'[s] = PlaceAfter(s) /\ Places[s] = Place(s)
    BY DEF Places, Place, PlaceAfter
  <2>2. \A s \in Live' : ValueAt'[s] = slid'[PlaceAfter(s)]
    BY DEF ValueAt, Place, PlaceAfter
  <2>3. \A s \in Live : s \in Slots /\ ValueAt[s] = slid[Place(s)]
    BY DEF ValueAt, Live
  <2>4. /\ slid \in Seq(Bytes) /\ slid'[Len(slid) + 1] = b
        /\ \A k \in 1 .. Len(slid) : slid'[k] = slid[k]
    BY <1>1 DEF WindowType
  <2>5. ASSUME NEW s \in K
        PROVE  /\ Places'[s] = Places[s] /\ ValueAt'[s] = ValueAt[s]
               /\ Places'[s] < Places'[i]
    BY <1>1, <1>2, <1>7, <2>1, <2>2, <2>3, <2>4
  <2> QED
    BY <1>7, <2>2, <2>4, <2>5
<1>11. Linked(entered, Live', Places', ValueAt')
  <2>1. Placement(K, Places, ValueAt)
    BY <1>1 DEF Placement
  <2>2. i \in Slots \ K
    BY <1>2
  <2>3. Placement(K \cup {i}, Places', ValueAt')
    BY <1>7, <1>9
  <2>4. Linked(Entered(kept, i, b), K \cup {i}, Places', ValueAt')
    BY <1>3, <1>10, <2>1, <2>2, <2>3, EnterKeepsLinks
  <2> QED
    BY <1>7, <2>4 DEF entered
<1>12. Linked(info', Live', Places', ValueAt')
  BY <1>6, <1>11 DEF Linked, Ends, Forward, Backward
<1>13. (Linked(info, Live, Places, ValueAt) <=> ChainsHaveEnds /\ SlotsAreLinked)'
  BY <1>7, <1>8, LinkedIsChains, PTL
<1> QED
  BY <1>7, <1>8, <1>12, <1>13 DEF WindowInv, ChainsHoldWindow

LEMMA WindowStarts == SlideWindowInit => WindowInv
<1> SUFFICES ASSUME SlideWindowInit
             PROVE  WindowInv
  OBVIOUS
<1>1. WindowType
  BY SlotFacts, WindowAssumption DEF SlideWindowInit, InitTable, WindowType, WindowTables, Slots
<1>2. WindowInPlace /\ Live = {}
  BY SlotFacts DEF SlideWindowInit, InitTable, WindowInPlace, Live, Slots
<1>3. ChainsHaveEnds /\ SlotsAreLinked
  BY <1>2 DEF SlideWindowInit, InitTable, ChainsHaveEnds, SlotsAreLinked, Chain
<1> QED
  BY <1>1, <1>2, <1>3 DEF WindowInv, ChainsHoldWindow

(* For every size of the window and whatever bytes slide in, however often *)
(* it wraps: the chains of CLz77, CYaz0 and CBackwardLz77 visit exactly    *)
(* the slots of the window that hold a byte, in the order of their age.    *)
THEOREM ChainsAlwaysHoldWindow == SlideWindowSpec => []ChainsHoldWindow
<1>1. WindowInv /\ [SlideWindowNext]_SlideWindowVars => WindowInv'
  <2> SUFFICES ASSUME WindowInv, [SlideWindowNext]_SlideWindowVars
               PROVE  WindowInv'
    OBVIOUS
  <2>1. CASE SlideWindowNext
    BY <2>1, SlideKeepsChains DEF SlideWindowNext
  <2>2. CASE UNCHANGED SlideWindowVars
    <3>1. slid' = slid /\ info' = info
      BY <2>2 DEF SlideWindowVars
    <3> QED
      BY <3>1 DEF WindowInv, WindowType, ChainsHoldWindow, WindowInPlace,
                  ChainsHaveEnds, SlotsAreLinked, Live, Chain, Older, Newer,
                  IsNewest, IsOldest, Place, Distance
  <2> QED
    BY <2>1, <2>2
<1>2. WindowInv => ChainsHoldWindow
  BY DEF WindowInv
<1> QED
  BY <1>1, <1>2, WindowStarts, PTL DEF SlideWindowSpec

-----------------------------------------------------------------------------
(* BLZ in place.  IsParse are the points between the tokens of a code.     *)
(* Compress adds a token, and with it a point, at a time: the flag byte of *)
(* the last group is IsOpen, its next bit leaves those of the tokens       *)
(* before it.  The second pass goes from point to point: up to where it    *)
(* is, the code has never been ahead of what it stands for (IsKept), and   *)
(* where it stops the code is cut so that this holds in the buffer of      *)
(* Uncompress too (IsCut).  Uncompress meets the same points while the     *)
(* code from where it reads on is still there (IsAhead).                   *)

-----------------------------------------------------------------------------
(* Numbers                                                                 *)

Less == {ss \in Nat \X Nat : ss[1] < ss[2]}

LEMMA Smallest ==
  ASSUME NEW S, S \subseteq Nat, S # {}
  PROVE  \E x \in S : \A y \in S : x <= y
<1>1. IsWellFoundedOn(Less, Nat)
  BY NatLessThanWellFounded DEF OpToRel, Less
<1>2. PICK x \in S : \A y \in S : <<y, x>> \notin Less
  BY <1>1, WFMin, Zenon
<1>3. ASSUME NEW y \in S
      PROVE  x <= y
  <2>1. x \in Nat /\ y \in Nat
    OBVIOUS
  <2>2. y < x => <<y, x>> \in Less
    BY <2>1 DEF Less
  <2> QED
    BY <1>2, <2>1, <2>2
<1> QED
  BY <1>3

LEMMA MinProperties ==
  ASSUME NEW S, S \subseteq Nat, S # {}
  PROVE  Min(S) \in S /\ \A y \in S : Min(S) <= y
BY Smallest DEF Min

LEMMA MaxProperties ==
  ASSUME NEW S, S \subseteq Nat, S # {}, NEW bound \in Nat, \A x \in S : x <= bound
  PROVE  Max(S) \in S /\ \A y \in S : y <= Max(S)
<1> DEFINE B == {b \in Nat : \A x \in S : x <= b}
<1>1. B \subseteq Nat /\ bound \in B
  OBVIOUS
<1>2. PICK m \in B : \A b \in B : m <= b
  BY <1>1, Smallest
<1>3. m \in S
  <2> SUFFICES ASSUME m \notin S PROVE FALSE
    OBVIOUS
  <2>1. PICK x \in S : TRUE
    OBVIOUS
  <2>2. m \in Nat /\ m - 1 \in Nat
    BY <2>1
  <2>3. m - 1 \in B
    BY <2>2
  <2> QED
    BY <1>2, <2>2, <2>3
<1>4. \A y \in S : y <= m
  OBVIOUS
<1>5. \E x \in S : \A y \in S : x >= y
  BY <1>3, <1>4
<1>6. Max(S) \in S /\ \A y \in S : Max(S) >= y
  BY <1>5 DEF Max
<1> QED
  BY <1>6

\* What holds of 0 and of the number behind each one it holds of, up to n.
LEMMA UpTo ==
  ASSUME NEW n \in Nat, NEW S, 0 \in S, \A k \in 0 .. (n - 1) : k \in S => k + 1 \in S
  PROVE  \A k \in 0 .. n : k \in S
<1> SUFFICES ASSUME {k \in 0 .. n : k \notin S} # {} PROVE FALSE
  OBVIOUS
<1> DEFINE Rest == {k \in 0 .. n : k \notin S}
<1>1. Rest \subseteq Nat /\ Rest # {}
  OBVIOUS
<1> HIDE DEF Rest
<1>2. PICK m \in Rest : \A k \in Rest : m <= k
  BY <1>1, Smallest
<1>3. m \in 0 .. n /\ m \notin S /\ m # 0
  BY <1>2 DEF Rest
<1>4. m - 1 \in 0 .. (n - 1) /\ m - 1 \notin Rest
  BY <1>2, <1>3
<1>5. m - 1 \in S
  BY <1>3, <1>4 DEF Rest
<1>6. (m - 1) + 1 \in S
  BY <1>4, <1>5
<1> QED
  BY <1>3, <1>6

LEMMA DivIs ==
  ASSUME NEW D \in Nat, NEW d \in Nat, NEW e \in Nat, e < D
  PROVE  (D * d + e) \div D = d /\ (D * d + e) % D = e
<1> DEFINE x == D * d + e
           q == x \div D
           r == x % D
<1>1. x \in Nat /\ D > 0
  OBVIOUS
<1>2. q \in Nat /\ r \in 0 .. (D - 1) /\ x = D * q + r
  BY <1>1
<1> HIDE DEF q, r
<1>3. D * d + e = D * q + r /\ D * d \in Nat /\ D * q \in Nat
  BY <1>2
<1> HIDE DEF x
<1>4. ASSUME q < d
      PROVE  FALSE
  <2>1. D * (q + 1) <= D * d /\ D * (q + 1) = D * q + D
    BY <1>2, <1>4
  <2> QED
    BY <1>2, <1>3, <2>1
<1>5. ASSUME d < q
      PROVE  FALSE
  <2>1. D * (d + 1) <= D * q /\ D * (d + 1) = D * d + D
    BY <1>2, <1>5
  <2> QED
    BY <1>2, <1>3, <2>1
<1>6. q = d
  BY <1>2, <1>4, <1>5
<1>7. r = e
  BY <1>2, <1>3, <1>6
<1> QED
  BY <1>6, <1>7 DEF q, r, x

-----------------------------------------------------------------------------
(* The bits of a flag byte                                                 *)

LEMMA Doubling ==
  ASSUME NEW n \in Nat
  PROVE  \E g \in [0 .. n -> Nat \ {0}] :
           g[0] = 1 /\ \A k \in 1 .. n : g[k] = 2 * g[k - 1]
<1> DEFINE Doubles(g, m) == g[0] = 1 /\ \A k \in 1 .. m : g[k] = 2 * g[k - 1]
           S == {m \in 0 .. n : \E g \in [0 .. m -> Nat \ {0}] : Doubles(g, m)}
<1>1. 0 \in S
  <2> DEFINE g == [k \in 0 .. 0 |-> 1]
  <2>1. g \in [0 .. 0 -> Nat \ {0}] /\ Doubles(g, 0) /\ 0 \in 0 .. n
    OBVIOUS
  <2> HIDE DEF g, Doubles
  <2> QED
    BY <2>1
<1>2. ASSUME NEW m \in 0 .. (n - 1), m \in S
      PROVE  m + 1 \in S
  <2>1. PICK g \in [0 .. m -> Nat \ {0}] : Doubles(g, m)
    BY <1>2
  <2> DEFINE h == [k \in 0 .. (m + 1) |-> IF k = m + 1 THEN 2 * g[m] ELSE g[k]]
  <2>2. h \in [0 .. (m + 1) -> Nat \ {0}]
    OBVIOUS
  <2>3. h[0] = 1
    BY <2>1
  <2>4. ASSUME NEW k \in 1 .. (m + 1)
        PROVE  h[k] = 2 * h[k - 1]
    <3>1. k - 1 \in 0 .. m /\ k - 1 # m + 1 /\ k - 1 \in 0 .. (m + 1) /\ k \in 0 .. (m + 1)
      OBVIOUS
    <3>2. h[k - 1] = g[k - 1]
      BY <3>1
    <3>3. CASE k = m + 1
      <4>1. h[k] = 2 * g[m] /\ k - 1 = m
        BY <3>1, <3>3
      <4> QED
        BY <3>2, <4>1
    <3>4. CASE k # m + 1
      <4>1. h[k] = g[k] /\ k \in 1 .. m
        BY <3>1, <3>4
      <4> QED
        BY <2>1, <3>2, <4>1
    <3> QED
      BY <3>3, <3>4
  <2> HIDE DEF h
  <2>5. Doubles(h, m + 1)
    BY <2>3, <2>4
  <2>6. m + 1 \in 0 .. n
    OBVIOUS
  <2> HIDE DEF Doubles
  <2> QED
    BY <2>2, <2>5, <2>6
<1> HIDE DEF S
<1>3. n \in S
  BY <1>1, <1>2, UpTo
<1> QED
  BY <1>3 DEF S

\* The bits are powers of two, and each is twice the next.
LEMMA FlagBits ==
  /\ GroupSize \in Nat \ {0}
  /\ \A i \in 1 .. GroupSize : FlagBit[i] \in Nat \ {0}
  /\ \A i \in 1 .. (GroupSize - 1) : FlagBit[i] = 2 * FlagBit[i + 1]
<1>1. GroupSize \in Nat \ {0}
  BY LzAssumption
<1>2. GroupSize - 1 \in Nat
  BY <1>1
<1> DEFINE n == GroupSize - 1
<1>3. PICK g \in [0 .. n -> Nat \ {0}] : g[0] = 1 /\ \A k \in 1 .. n : g[k] = 2 * g[k - 1]
  BY <1>2, Doubling
<1> DEFINE h == [i \in 1 .. GroupSize |-> g[GroupSize - i]]
<1>4. ASSUME NEW i \in 1 .. GroupSize
      PROVE  h[i] \in Nat \ {0} /\ h[i] = IF i = GroupSize THEN 1 ELSE 2 * h[i + 1]
  <2>1. GroupSize - i \in 0 .. n /\ h[i] = g[GroupSize - i]
    BY <1>1
  <2>2. CASE i = GroupSize
    BY <1>1, <1>3, <2>1, <2>2
  <2>3. CASE i # GroupSize
    <3>1. i + 1 \in 1 .. GroupSize /\ GroupSize - i \in 1 .. n /\ (GroupSize - i) - 1 = GroupSize - (i + 1)
      BY <1>1, <2>3
    <3>2. h[i + 1] = g[(GroupSize - i) - 1]
      BY <3>1
    <3> QED
      BY <1>3, <2>1, <2>3, <3>1, <3>2
  <2> QED
    BY <2>2, <2>3
<1>5. h = [i \in 1 .. GroupSize |-> IF i = GroupSize THEN 1 ELSE 2 * h[i + 1]]
  BY <1>4
<1> HIDE DEF h, n
<1>6. FlagBit = [i \in 1 .. GroupSize |-> IF i = GroupSize THEN 1 ELSE 2 * FlagBit[i + 1]]
  BY <1>5 DEF FlagBit
<1> DEFINE Holds(i) == FlagBit[GroupSize - i] \in Nat \ {0}
           S == {i \in 0 .. n : Holds(i)}
<1>7. 0 \in S
  BY <1>1, <1>6 DEF n
<1>8. ASSUME NEW i \in 0 .. (n - 1), i \in S
      PROVE  i + 1 \in S
  <2>1. GroupSize - (i + 1) \in 1 .. GroupSize /\ GroupSize - (i + 1) # GroupSize
        /\ (GroupSize - (i + 1)) + 1 = GroupSize - i /\ i + 1 \in 0 .. n
    BY <1>1 DEF n
  <2>2. FlagBit[GroupSize - (i + 1)] = 2 * FlagBit[GroupSize - i]
    BY <1>6, <2>1
  <2> QED
    BY <1>8, <2>1, <2>2
<1> HIDE DEF S
<1>9. \A i \in 0 .. n : i \in S
  BY <1>2, <1>7, <1>8, UpTo DEF n
<1>10. ASSUME NEW i \in 1 .. GroupSize
       PROVE  FlagBit[i] \in Nat \ {0}
  <2>1. GroupSize - i \in 0 .. n /\ GroupSize - (GroupSize - i) = i
    BY <1>1 DEF n
  <2>2. Holds(GroupSize - i)
    BY <1>9, <2>1 DEF S
  <2> QED
    BY <2>1, <2>2
<1>11. ASSUME NEW i \in 1 .. (GroupSize - 1)
       PROVE  FlagBit[i] = 2 * FlagBit[i + 1]
  BY <1>1, <1>6
<1> QED
  BY <1>1, <1>10, <1>11

\* Each bit is a multiple of those behind it.
LEMMA BitsBehind ==
  ASSUME NEW i \in 1 .. GroupSize, NEW j \in 1 .. i
  PROVE  \E m \in Nat \ {0} : FlagBit[j] = FlagBit[i] * m
<1>1. GroupSize \in Nat \ {0}
  BY FlagBits
<1> DEFINE S == {k \in 0 .. (i - 1) : \E m \in Nat \ {0} : FlagBit[i - k] = FlagBit[i] * m}
<1>2. 0 \in S
  <2>1. FlagBit[i - 0] = FlagBit[i] * 1 /\ 1 \in Nat \ {0}
    BY <1>1, FlagBits
  <2> QED
    BY <1>1, <2>1
<1>3. ASSUME NEW k \in 0 .. ((i - 1) - 1), k \in S
      PROVE  k + 1 \in S
  <2>1. PICK m \in Nat \ {0} : FlagBit[i - k] = FlagBit[i] * m
    BY <1>3
  <2>2. i - (k + 1) \in 1 .. (GroupSize - 1) /\ (i - (k + 1)) + 1 = i - k /\ k + 1 \in 0 .. (i - 1)
    BY <1>1
  <2>3. FlagBit[i - (k + 1)] = 2 * FlagBit[i - k]
    BY <2>2, FlagBits
  <2>4. FlagBit[i] \in Nat /\ 2 * m \in Nat \ {0}
    BY FlagBits
  <2>5. FlagBit[i - (k + 1)] = FlagBit[i] * (2 * m)
    BY <2>1, <2>3, <2>4
  <2> QED
    BY <2>2, <2>4, <2>5
<1> HIDE DEF S
<1>4. \A k \in 0 .. (i - 1) : k \in S
  BY <1>1, <1>2, <1>3, UpTo
<1>5. i - j \in 0 .. (i - 1) /\ i - (i - j) = j
  BY <1>1
<1> QED
  BY <1>4, <1>5 DEF S

\* A flag byte whose bits up to the one of turn i are written.
BitsUpTo(flags, i) == \E q \in Nat : flags = FlagBit[i] * q

\* The next bit leaves the bits before it as they are.
LEMMA NextBit ==
  ASSUME NEW i \in 1 .. (GroupSize - 1), NEW flags, BitsUpTo(flags, i),
         NEW bit \in {0, FlagBit[i + 1]}
  PROVE  /\ flags + bit \in Nat
         /\ \A j \in 1 .. i : IsSet(flags + bit, j) <=> IsSet(flags, j)
         /\ IsSet(flags + bit, i + 1) <=> bit # 0
         /\ BitsUpTo(flags + bit, i + 1)
<1>1. GroupSize \in Nat \ {0} /\ i \in 1 .. GroupSize /\ i + 1 \in 1 .. GroupSize
  BY FlagBits
<1>2. PICK q \in Nat : flags = FlagBit[i] * q
  BY DEF BitsUpTo
<1> DEFINE B == FlagBit[i + 1]
<1>3. B \in Nat \ {0} /\ FlagBit[i] = 2 * B
  BY <1>1, FlagBits
<1>4. flags = (2 * B) * q /\ bit \in {0, B}
  BY <1>2, <1>3
<1> HIDE DEF B
<1>5. flags + bit \in Nat /\ flags \in Nat
  BY <1>3, <1>4
<1>6. ASSUME NEW j \in 1 .. i
      PROVE  IsSet(flags + bit, j) <=> IsSet(flags, j)
  <2>1. PICK m \in Nat \ {0} : FlagBit[j] = FlagBit[i] * m
    BY <1>1, BitsBehind
  <2> DEFINE D == (2 * B) * m
             d == q \div m
             r == q % m
             e == (2 * B) * r
  <2>2. d \in Nat /\ r \in 0 .. (m - 1) /\ q = m * d + r
    BY <2>1
  <2>3. FlagBit[j] = D /\ D \in Nat
    BY <1>3, <2>1
  <2> HIDE DEF d, r
  <2>4. flags = D * d + e /\ e \in Nat
    BY <1>3, <1>4, <2>1, <2>2
  <2>5. e + bit < D /\ e + bit \in Nat /\ e < D
    <3>1. (2 * B) * (r + 1) <= (2 * B) * m
      BY <1>3, <2>1, <2>2
    <3>2. (2 * B) * (r + 1) = e + 2 * B
      BY <1>3, <2>2
    <3> QED
      BY <1>3, <1>4, <2>4, <3>1, <3>2
  <2> DEFINE eb == e + bit
  <2>6. eb < D /\ eb \in Nat
    BY <2>5
  <2>7. flags + bit = D * d + eb
    BY <2>4, <1>3, <1>4, <2>2, <2>3
  <2> HIDE DEF D, e, eb
  <2>8. (flags + bit) \div D = d
    BY <2>2, <2>3, <2>6, <2>7, DivIs
  <2>9. flags \div D = d
    BY <2>2, <2>3, <2>4, <2>5, DivIs
  <2> QED
    BY <2>3, <2>8, <2>9 DEF IsSet
<1>7. IsSet(flags + bit, i + 1) <=> bit # 0
  <2>1. CASE bit = 0
    <3>1. flags + bit = B * (2 * q) + 0
      BY <1>3, <1>4, <2>1
    <3> DEFINE dd == 2 * q
    <3>2. dd \in Nat /\ dd % 2 = 0
      OBVIOUS
    <3>3. flags + bit = B * dd + 0
      BY <3>1
    <3> HIDE DEF dd
    <3>4. (flags + bit) \div B = dd
      BY <1>3, <3>2, <3>3, DivIs
    <3> QED
      BY <2>1, <3>2, <3>4 DEF IsSet, B
  <2>2. CASE bit = B
    <3>1. flags + bit = B * (2 * q + 1) + 0
      BY <1>3, <1>4, <2>2
    <3> DEFINE dd == 2 * q + 1
    <3>2. dd \in Nat /\ dd % 2 = 1
      OBVIOUS
    <3>3. flags + bit = B * dd + 0
      BY <3>1
    <3> HIDE DEF dd
    <3>4. (flags + bit) \div B = dd
      BY <1>3, <3>2, <3>3, DivIs
    <3> QED
      BY <1>3, <2>2, <3>2, <3>4 DEF IsSet, B
  <2> QED
    BY <1>4, <2>1, <2>2
<1>8. BitsUpTo(flags + bit, i + 1)
  <2>1. CASE bit = 0
    <3>1. flags + bit = B * (2 * q) /\ 2 * q \in Nat
      BY <1>3, <1>4, <2>1
    <3> QED
      BY <3>1 DEF BitsUpTo, B
  <2>2. CASE bit = B
    <3>1. flags + bit = B * (2 * q + 1) /\ 2 * q + 1 \in Nat
      BY <1>3, <1>4, <2>2
    <3> QED
      BY <3>1 DEF BitsUpTo, B
  <2> QED
    BY <1>4, <2>1, <2>2
<1> QED
  BY <1>5, <1>6, <1>7, <1>8

\* The first bit of a flag byte that is 0.
LEMMA FirstBit ==
  ASSUME NEW bit \in {0, FlagBit[1]}
  PROVE  bit \in Nat /\ (IsSet(bit, 1) <=> bit # 0) /\ BitsUpTo(bit, 1)
<1>1. 1 \in 1 .. GroupSize /\ FlagBit[1] \in Nat \ {0}
  BY FlagBits
<1> DEFINE B == FlagBit[1]
<1>2. B \in Nat /\ B > 0 /\ bit \in {0, B}
  BY <1>1
<1>3. CASE bit = 0
  <2>1. bit = B * 0 + 0 /\ bit = B * 0
    BY <1>2, <1>3
  <2> HIDE DEF B
  <2>2. bit \div B = 0
    BY <1>2, <2>1, DivIs
  <2>3. ~IsSet(bit, 1)
    BY <2>2 DEF IsSet, B
  <2>4. BitsUpTo(bit, 1)
    BY <2>1 DEF BitsUpTo, B
  <2> QED
    BY <1>3, <2>3, <2>4
<1>4. CASE bit = B
  <2>1. bit = B * 1 + 0 /\ bit = B * 1
    BY <1>2, <1>4
  <2> HIDE DEF B
  <2>2. bit \div B = 1
    BY <1>2, <2>1, DivIs
  <2>3. bit # 0 /\ bit \in Nat
    BY <1>2, <1>4
  <2>4. IsSet(bit, 1)
    BY <2>2 DEF IsSet, B
  <2>5. BitsUpTo(bit, 1)
    BY <2>1 DEF BitsUpTo, B
  <2> QED
    BY <2>3, <2>4, <2>5
<1> QED
  BY <1>2, <1>3, <1>4

-----------------------------------------------------------------------------
(* Sequences                                                               *)

IsSeq(s) == \E S : s \in Seq(S)

LEMMA SeqProperties ==
  ASSUME NEW s, IsSeq(s)
  PROVE  Len(s) \in Nat /\ DOMAIN s = 1 .. Len(s)
BY DEF IsSeq

LEMMA OneSeq ==
  ASSUME NEW c
  PROVE  IsSeq(<<c>>) /\ Len(<<c>>) = 1 /\ <<c>>[1] = c
<1>1. <<c>> \in Seq({c})
  OBVIOUS
<1> QED
  BY <1>1 DEF IsSeq

LEMMA NoSeq == IsSeq(<<>>) /\ Len(<<>>) = 0
<1>1. <<>> \in Seq({})
  OBVIOUS
<1> QED
  BY <1>1 DEF IsSeq

IsConcat(w, a, b) ==
  /\ IsSeq(w) /\ Len(w) = Len(a) + Len(b)
  /\ \A i \in 1 .. Len(a) : w[i] = a[i]
  /\ \A i \in 1 .. Len(b) : w[Len(a) + i] = b[i]

LEMMA ConcatSeq ==
  ASSUME NEW a, NEW b, IsSeq(a), IsSeq(b)
  PROVE  IsConcat(a \o b, a, b)
<1>1. PICK S, T : a \in Seq(S) /\ b \in Seq(T)
  BY DEF IsSeq
<1>2. a \in Seq(S \cup T) /\ b \in Seq(S \cup T)
  BY <1>1, SeqMonotonic
<1>3. /\ a \o b \in Seq(S \cup T) /\ Len(a \o b) = Len(a) + Len(b)
      /\ \A i \in 1 .. Len(a) + Len(b) :
           (a \o b)[i] = IF i <= Len(a) THEN a[i] ELSE b[i - Len(a)]
  BY <1>2, ConcatProperties
<1>4. Len(a) \in Nat /\ Len(b) \in Nat
  BY <1>1
<1>5. IsSeq(a \o b)
  BY <1>3 DEF IsSeq
<1>6. \A i \in 1 .. Len(a) : (a \o b)[i] = a[i]
  BY <1>3, <1>4
<1>7. ASSUME NEW i \in 1 .. Len(b)
      PROVE  (a \o b)[Len(a) + i] = b[i]
  <2>1. Len(a) + i \in 1 .. Len(a) + Len(b) /\ ~(Len(a) + i <= Len(a)) /\ (Len(a) + i) - Len(a) = i
    BY <1>4
  <2> QED
    BY <1>3, <2>1
<1> QED
  BY <1>3, <1>5, <1>6, <1>7 DEF IsConcat

LEMMA TupleSeq ==
  ASSUME NEW n \in Nat, NEW f, f = [i \in 1 .. n |-> f[i]]
  PROVE  IsSeq(f) /\ Len(f) = n
<1> DEFINE S == {f[i] : i \in 1 .. n}
<1>1. \A i \in 1 .. n : f[i] \in S
  OBVIOUS
<1> HIDE DEF S
<1>2. f \in [1 .. n -> S]
  BY <1>1
<1>3. f \in Seq(S)
  BY <1>2
<1>4. Len(f) = n
  BY <1>2, <1>3
<1> QED
  BY <1>3, <1>4 DEF IsSeq

-----------------------------------------------------------------------------
(* Reading the code, token by token                                        *)

\* Where a reader of the code can be: in front of a token.
Points == [pos : Nat, src : Nat, count : 1 .. GroupSize, flag : Nat]
Start == [pos |-> 0, src |-> 0, count |-> GroupSize, flag |-> 0]

TurnAt(r) == (r.count % GroupSize) + 1
FlagAt(r) == IF r.count = GroupSize THEN r.pos + 1 ELSE r.flag
TokenAt(r) == IF r.count = GroupSize THEN r.pos + 1 ELSE r.pos
MatchAt(f, r) == IsSet(f[FlagAt(r)], TurnAt(r))
SizeAt(f, r) == IF MatchAt(f, r) THEN f[TokenAt(r) + 1] \div NibbleCodes + 3 ELSE 1
ReadAt(f, r) == TokenAt(r) + (IF MatchAt(f, r) THEN 2 ELSE 1)

\* The point behind the token at r.
Behind(f, r) == [pos |-> ReadAt(f, r), src |-> r.src + SizeAt(f, r),
                 count |-> TurnAt(r), flag |-> FlagAt(r)]

\* A point that a reader can come to has its flag byte behind it.
IsPoint(r) == r \in Points /\ r.flag <= r.pos /\ (r.count # GroupSize => r.flag # 0)

\* All of the token at r is there.
Readable(f, r) ==
  /\ ReadAt(f, r) <= Len(f) /\ f[FlagAt(r)] \in Nat
  /\ MatchAt(f, r) => f[TokenAt(r) + 1] \in Nat

\* R are the points of a reader of the code f, from its start to its end.
IsParse(f, R) ==
  /\ Start \in R
  /\ \A r \in R : IsPoint(r) /\ r.pos <= Len(f)
  /\ \A r \in R : r.pos < Len(f) => Readable(f, r) /\ Behind(f, r) \in R
  /\ \A r, s \in R : r.pos = s.pos => r = s
  /\ \A r, s \in R : r.pos < s.pos => /\ ReadAt(f, r) <= s.pos
                                      /\ r.src + SizeAt(f, r) <= s.src

LEMMA TurnIs ==
  ASSUME NEW r \in Points
  PROVE  TurnAt(r) = IF r.count = GroupSize THEN 1 ELSE r.count + 1
<1>1. GroupSize \in Nat \ {0} /\ r.count \in 1 .. GroupSize
  BY FlagBits DEF Points
<1>2. CASE r.count = GroupSize
  <2>1. GroupSize = GroupSize * 1 + 0
    BY <1>1
  <2>2. GroupSize % GroupSize = 0
    BY <1>1, <2>1, DivIs
  <2> QED
    BY <1>2, <2>2 DEF TurnAt
<1>3. CASE r.count # GroupSize
  <2>1. r.count = GroupSize * 0 + r.count /\ r.count < GroupSize /\ r.count \in Nat
    BY <1>1, <1>3
  <2>2. r.count % GroupSize = r.count
    BY <1>1, <2>1, DivIs
  <2> QED
    BY <1>3, <2>2 DEF TurnAt
<1> QED
  BY <1>2, <1>3

LEMMA PointProperties ==
  ASSUME NEW r, IsPoint(r)
  PROVE  /\ r.pos \in Nat /\ r.src \in Nat /\ r.count \in 1 .. GroupSize /\ r.flag \in Nat
         /\ TurnAt(r) \in 1 .. GroupSize /\ (r.count = GroupSize => TurnAt(r) = 1)
         /\ (r.count # GroupSize => TurnAt(r) = r.count + 1)
         /\ TokenAt(r) \in Nat /\ TokenAt(r) >= r.pos /\ TokenAt(r) <= r.pos + 1
         /\ FlagAt(r) \in Nat \ {0} /\ FlagAt(r) <= TokenAt(r)
<1>1. GroupSize \in Nat \ {0}
  BY FlagBits
<1>2. /\ r.pos \in Nat /\ r.src \in Nat /\ r.count \in 1 .. GroupSize /\ r.flag \in Nat
      /\ r.flag <= r.pos /\ (r.count # GroupSize => r.flag # 0)
  BY DEF IsPoint, Points
<1>3. TurnAt(r) = IF r.count = GroupSize THEN 1 ELSE r.count + 1
  BY TurnIs DEF IsPoint
<1>4. TokenAt(r) \in Nat /\ TokenAt(r) >= r.pos /\ TokenAt(r) <= r.pos + 1
  BY <1>2 DEF TokenAt
<1>5. FlagAt(r) \in Nat \ {0} /\ FlagAt(r) <= TokenAt(r)
  BY <1>2 DEF TokenAt, FlagAt
<1> QED
  BY <1>1, <1>2, <1>3, <1>4, <1>5

LEMMA ReadIs ==
  ASSUME NEW f, NEW r, IsPoint(r)
  PROVE  /\ ReadAt(f, r) \in Nat /\ ReadAt(f, r) >= TokenAt(r) + 1
         /\ (MatchAt(f, r) => ReadAt(f, r) = TokenAt(r) + 2)
         /\ (~MatchAt(f, r) => ReadAt(f, r) = TokenAt(r) + 1)
BY PointProperties DEF ReadAt

LEMMA SizeIs ==
  ASSUME NEW f, NEW r, IsPoint(r), MatchAt(f, r) => f[TokenAt(r) + 1] \in Nat
  PROVE  SizeAt(f, r) \in Nat \ {0}
<1>1. NibbleCodes \in Nat /\ NibbleCodes > 0
  BY LzAssumption
<1>2. \A x \in Nat : x \div NibbleCodes \in Nat
  BY <1>1
<1>3. CASE MatchAt(f, r)
  BY <1>2, <1>3 DEF SizeAt
<1> QED
  BY <1>3 DEF SizeAt

LEMMA BehindIs ==
  ASSUME NEW f, NEW r, IsPoint(r), Readable(f, r)
  PROVE  /\ IsPoint(Behind(f, r))
         /\ Behind(f, r).pos = ReadAt(f, r) /\ Behind(f, r).src = r.src + SizeAt(f, r)
         /\ Behind(f, r).count = TurnAt(r) /\ Behind(f, r).flag = FlagAt(r)
         /\ SizeAt(f, r) \in Nat \ {0}
<1>1. SizeAt(f, r) \in Nat \ {0}
  BY SizeIs DEF Readable
<1>2. /\ Behind(f, r).pos = ReadAt(f, r) /\ Behind(f, r).src = r.src + SizeAt(f, r)
      /\ Behind(f, r).count = TurnAt(r) /\ Behind(f, r).flag = FlagAt(r)
  BY DEF Behind
<1>3. r.src + SizeAt(f, r) \in Nat
  BY <1>1, PointProperties
<1>4. Behind(f, r) \in Points
  <2>1. /\ ReadAt(f, r) \in Nat /\ TurnAt(r) \in 1 .. GroupSize /\ FlagAt(r) \in Nat
    BY PointProperties, ReadIs
  <2> QED
    BY <1>3, <2>1 DEF Behind, Points
<1>5. FlagAt(r) <= ReadAt(f, r) /\ FlagAt(r) # 0
  BY PointProperties, ReadIs
<1> QED
  BY <1>1, <1>2, <1>4, <1>5 DEF IsPoint

LEMMA ParseStarts ==
  ASSUME NEW f, f = << >>
  PROVE  IsParse(f, {Start})
<1>1. Len(f) = 0
  BY NoSeq
<1>2. IsPoint(Start) /\ Start.pos = 0
  BY FlagBits DEF IsPoint, Points, Start
<1> QED
  BY <1>1, <1>2 DEF IsParse

-----------------------------------------------------------------------------
(* Writing a token                                                         *)

\* r is the point at the end of the code f: its flag byte has the bits of the
\* tokens up to r, and no other token reads it.
OpenAt(f, r, s) ==
  \/ FlagAt(s) = r.flag /\ TurnAt(s) <= r.count /\ TokenAt(s) + 1 > r.flag
  \/ FlagAt(s) < r.flag /\ TokenAt(s) + 1 < r.flag

IsOpen(f, R, r) ==
  /\ r \in R /\ r.pos = Len(f)
  /\ r.count # GroupSize => BitsUpTo(f[r.flag], r.count)
  /\ \A s \in R : s.pos < Len(f) => OpenAt(f, r, s)

\* The code g is f and, behind it, the token at r.
IsLonger(f, r, isMatch, g) ==
  /\ Len(g) = TokenAt(r) + (IF isMatch THEN 2 ELSE 1)
  /\ g[FlagAt(r)] = (IF r.count = GroupSize THEN 0 ELSE f[r.flag])
                        + (IF isMatch THEN FlagBit[TurnAt(r)] ELSE 0)
  /\ \A i \in 1 .. Len(f) : i # FlagAt(r) => g[i] = f[i]
  /\ isMatch => g[TokenAt(r) + 1] \in Nat

\* The new token reads as what was written, and the flag byte is still open.
LEMMA TokenReads ==
  ASSUME NEW f, NEW R, NEW r, IsParse(f, R), IsOpen(f, R, r), Len(f) \in Nat,
         NEW isMatch \in BOOLEAN, NEW g, IsLonger(f, r, isMatch, g)
  PROVE  /\ g[FlagAt(r)] \in Nat /\ (MatchAt(g, r) <=> isMatch)
         /\ BitsUpTo(g[FlagAt(r)], TurnAt(r))
         /\ r.count # GroupSize => /\ FlagAt(r) = r.flag
                                   /\ \A j \in 1 .. r.count : IsSet(g[r.flag], j) <=> IsSet(f[r.flag], j)
<1>1. IsPoint(r)
  BY DEF IsParse, IsOpen
<1> DEFINE bit == IF isMatch THEN FlagBit[TurnAt(r)] ELSE 0
<1>2. TurnAt(r) \in 1 .. GroupSize /\ r.count \in 1 .. GroupSize
  BY <1>1, PointProperties
<1>3. bit \in {0, FlagBit[TurnAt(r)]} /\ (bit # 0 <=> isMatch)
  BY <1>2, FlagBits
<1>4. CASE r.count = GroupSize
  <2>1. TurnAt(r) = 1
    BY <1>1, <1>4, PointProperties
  <2>2. FlagBit[1] \in Nat
    BY FlagBits
  <2>3. g[FlagAt(r)] = bit
    BY <1>4, <2>1, <2>2 DEF IsLonger
  <2> HIDE DEF bit
  <2>4. bit \in Nat /\ (IsSet(bit, 1) <=> bit # 0) /\ BitsUpTo(bit, 1)
    BY <1>3, <2>1, FirstBit
  <2> QED
    BY <1>3, <1>4, <2>1, <2>3, <2>4 DEF MatchAt
<1>5. CASE r.count # GroupSize
  <2>1. TurnAt(r) = r.count + 1 /\ FlagAt(r) = r.flag
    BY <1>1, <1>5, PointProperties DEF FlagAt
  <2> DEFINE i == r.count
             flags == f[r.flag]
  <2>2. GroupSize \in Nat /\ i \in 1 .. (GroupSize - 1) /\ BitsUpTo(flags, i)
    <3>1. GroupSize \in Nat /\ i \in 1 .. (GroupSize - 1)
      BY <1>2, <1>5, FlagBits
    <3>2. BitsUpTo(flags, i)
      BY <1>5 DEF IsOpen
    <3> QED
      BY <3>1, <3>2
  <2>3. g[r.flag] = flags + bit
    BY <1>5, <2>1 DEF IsLonger
  <2>4. bit \in {0, FlagBit[i + 1]} /\ TurnAt(r) = i + 1
    BY <1>3, <2>1
  <2> HIDE DEF bit, i, flags
  <2>5. /\ flags + bit \in Nat
        /\ \A j \in 1 .. i : IsSet(flags + bit, j) <=> IsSet(flags, j)
        /\ IsSet(flags + bit, i + 1) <=> bit # 0
        /\ BitsUpTo(flags + bit, i + 1)
    BY <2>2, <2>4, NextBit
  <2>6. g[FlagAt(r)] \in Nat /\ BitsUpTo(g[FlagAt(r)], TurnAt(r))
    BY <2>1, <2>3, <2>4, <2>5
  <2>7. MatchAt(g, r) <=> isMatch
    BY <1>3, <2>1, <2>3, <2>4, <2>5 DEF MatchAt
  <2>8. \A j \in 1 .. r.count : IsSet(g[r.flag], j) <=> IsSet(f[r.flag], j)
    BY <2>3, <2>5 DEF flags, i
  <2> QED
    BY <2>1, <2>6, <2>7, <2>8
<1> QED
  BY <1>4, <1>5

\* The tokens before the new one read as they did.
LEMMA TokensStay ==
  ASSUME NEW f, NEW R, NEW r, IsParse(f, R), IsOpen(f, R, r), Len(f) \in Nat,
         NEW isMatch \in BOOLEAN, NEW g, IsLonger(f, r, isMatch, g),
         NEW s \in R, s.pos < Len(f)
  PROVE  /\ Readable(g, s) /\ ReadAt(g, s) = ReadAt(f, s) /\ SizeAt(g, s) = SizeAt(f, s)
         /\ Behind(g, s) = Behind(f, s) /\ ReadAt(f, s) <= Len(f)
<1>1. IsPoint(r) /\ IsPoint(s) /\ Readable(f, s) /\ OpenAt(f, r, s) /\ r.pos = Len(f)
  BY DEF IsParse, IsOpen
<1> DEFINE at == FlagAt(s)
           p == TokenAt(s) + 1
<1>2. at \in Nat \ {0} /\ p \in Nat /\ at < p /\ TurnAt(s) \in 1 .. GroupSize
  BY <1>1, PointProperties
<1>3. ReadAt(f, s) <= Len(f) /\ p <= ReadAt(f, s) /\ ReadAt(f, s) \in Nat
  BY <1>1, ReadIs DEF Readable
<1>4. at \in 1 .. Len(f) /\ p \in 1 .. Len(f)
  BY <1>2, <1>3
<1>5. /\ r.flag \in Nat /\ FlagAt(r) \in Nat /\ r.count \in 1 .. GroupSize
      /\ (r.count = GroupSize => FlagAt(r) = Len(f) + 1)
      /\ (r.count # GroupSize => FlagAt(r) = r.flag)
  BY <1>1, PointProperties DEF FlagAt
<1>6. p # FlagAt(r)
  BY <1>1, <1>2, <1>4, <1>5 DEF OpenAt
<1>7. g[p] = f[p]
  BY <1>4, <1>6 DEF IsLonger
<1>8. g[at] \in Nat /\ (IsSet(g[at], TurnAt(s)) <=> IsSet(f[at], TurnAt(s)))
  <2>1. CASE at = FlagAt(r)
    <3>1. r.count # GroupSize /\ at = r.flag
      BY <1>4, <1>5, <2>1
    <3>2. TurnAt(s) \in 1 .. r.count
      BY <1>1, <1>2, <1>5, <3>1 DEF OpenAt
    <3> HIDE DEF at
    <3>3. g[FlagAt(r)] \in Nat /\ \A j \in 1 .. r.count : IsSet(g[r.flag], j) <=> IsSet(f[r.flag], j)
      BY <3>1, TokenReads
    <3> QED
      BY <2>1, <3>1, <3>2, <3>3
  <2>2. CASE at # FlagAt(r)
    <3>1. g[at] = f[at]
      BY <1>4, <2>2 DEF IsLonger
    <3>2. f[at] \in Nat
      BY <1>1 DEF Readable
    <3> QED
      BY <3>1, <3>2
  <2> QED
    BY <2>1, <2>2
<1>9. MatchAt(g, s) <=> MatchAt(f, s)
  BY <1>8 DEF MatchAt
<1>10. ReadAt(g, s) = ReadAt(f, s) /\ SizeAt(g, s) = SizeAt(f, s)
  BY <1>7, <1>9 DEF ReadAt, SizeAt
<1>11. Behind(g, s) = Behind(f, s)
  BY <1>10 DEF Behind
<1>12. Len(f) <= Len(g) /\ Len(g) \in Nat
  <2>1. TokenAt(r) \in Nat /\ TokenAt(r) >= Len(f)
    BY <1>1, PointProperties
  <2>2. Len(g) = TokenAt(r) + (IF isMatch THEN 2 ELSE 1)
    BY DEF IsLonger
  <2> QED
    BY <2>1, <2>2
<1>13. ReadAt(g, s) <= Len(g)
  BY <1>3, <1>10, <1>12
<1>14. MatchAt(g, s) => g[p] \in Nat
  BY <1>1, <1>7, <1>9 DEF Readable
<1> QED
  BY <1>3, <1>8, <1>10, <1>11, <1>13, <1>14 DEF Readable

\* With the new token the points of the longer code are those of the code and
\* the point behind it.
LEMMA ParseGrows ==
  ASSUME NEW f, NEW R, NEW r, IsParse(f, R), IsOpen(f, R, r), Len(f) \in Nat,
         NEW isMatch \in BOOLEAN, NEW g, IsLonger(f, r, isMatch, g)
  PROVE  /\ IsParse(g, R \cup {Behind(g, r)})
         /\ IsOpen(g, R \cup {Behind(g, r)}, Behind(g, r))
         /\ (MatchAt(g, r) <=> isMatch)
<1>1. IsPoint(r) /\ r \in R /\ r.pos = Len(f)
  BY DEF IsParse, IsOpen
<1>2. g[FlagAt(r)] \in Nat /\ (MatchAt(g, r) <=> isMatch) /\ BitsUpTo(g[FlagAt(r)], TurnAt(r))
  BY TokenReads
<1> DEFINE n == Behind(g, r)
<1>3. ReadAt(g, r) = Len(g) /\ Readable(g, r)
  BY <1>2 DEF ReadAt, IsLonger, Readable
<1>4. /\ IsPoint(n) /\ n.pos = Len(g) /\ n.src = r.src + SizeAt(g, r)
      /\ n.count = TurnAt(r) /\ n.flag = FlagAt(r) /\ SizeAt(g, r) \in Nat \ {0}
  BY <1>1, <1>3, BehindIs
<1>5. Len(g) \in Nat /\ Len(f) < Len(g) /\ r.src \in Nat /\ n.src \in Nat
  <2>1. TokenAt(r) \in Nat /\ TokenAt(r) >= r.pos /\ r.src \in Nat
    BY <1>1, PointProperties
  <2>2. Len(g) \in Nat /\ Len(f) < Len(g)
    BY <1>1, <2>1 DEF IsLonger
  <2> QED
    BY <1>4, <2>1, <2>2
<1> HIDE DEF n
<1>6. \A s \in R : /\ IsPoint(s) /\ s.pos <= Len(f) /\ s.pos \in Nat /\ s.src \in Nat
                   /\ (s.pos = Len(f) <=> s = r)
  BY <1>1, PointProperties DEF IsParse
<1>7. \A s \in R : s # r => /\ s.pos < Len(f)
                            /\ Readable(g, s) /\ ReadAt(g, s) = ReadAt(f, s) /\ SizeAt(g, s) = SizeAt(f, s)
                            /\ Behind(g, s) = Behind(f, s) /\ ReadAt(f, s) <= Len(f)
  <2> SUFFICES ASSUME NEW s \in R, s # r
               PROVE  /\ s.pos < Len(f)
                      /\ Readable(g, s) /\ ReadAt(g, s) = ReadAt(f, s) /\ SizeAt(g, s) = SizeAt(f, s)
                      /\ Behind(g, s) = Behind(f, s) /\ ReadAt(f, s) <= Len(f)
    OBVIOUS
  <2>1. s.pos < Len(f)
    BY <1>6
  <2> QED
    BY <2>1, TokensStay
<1>8. \A s \in R : s # r => Behind(g, s) \in R
  <2>1. \A s \in R : s.pos < Len(f) => Behind(f, s) \in R
    BY DEF IsParse
  <2> QED
    BY <1>7, <2>1
<1>9. \A s \in R : s # r => /\ ReadAt(g, s) <= r.pos /\ r.src \in Nat
                            /\ s.src + SizeAt(g, s) <= r.src /\ SizeAt(g, s) \in Nat
  <2> SUFFICES ASSUME NEW s \in R, s # r
               PROVE  /\ ReadAt(g, s) <= r.pos /\ r.src \in Nat
                      /\ s.src + SizeAt(g, s) <= r.src /\ SizeAt(g, s) \in Nat
    OBVIOUS
  <2>1. s.pos < r.pos
    BY <1>1, <1>7
  <2>2. ReadAt(f, s) <= r.pos /\ s.src + SizeAt(f, s) <= r.src
    BY <1>1, <2>1 DEF IsParse
  <2>3. SizeAt(g, s) \in Nat
    BY <1>6, <1>7, SizeIs DEF Readable
  <2> QED
    BY <1>5, <1>7, <2>2, <2>3
<1>10. IsParse(g, R \cup {n})
  <2> DEFINE T == R \cup {n}
  <2>1. Start \in T
    BY DEF IsParse
  <2>2. \A s \in T : IsPoint(s) /\ s.pos <= Len(g)
    BY <1>4, <1>5, <1>6
  <2>3. \A s \in T : s.pos < Len(g) => Readable(g, s) /\ Behind(g, s) \in T
    <3>1. Readable(g, r) /\ Behind(g, r) \in T
      BY <1>3 DEF n
    <3> QED
      BY <1>4, <1>5, <1>7, <1>8, <3>1
  <2>4. \A s, t \in T : s.pos = t.pos => s = t
    <3>1. \A s, t \in R : s.pos = t.pos => s = t
      BY DEF IsParse
    <3>2. \A s \in R : s.pos # n.pos
      BY <1>4, <1>5, <1>6
    <3> QED
      BY <3>1, <3>2
  <2>5. ASSUME NEW s \in T, NEW t \in T, s.pos < t.pos
        PROVE  ReadAt(g, s) <= t.pos /\ s.src + SizeAt(g, s) <= t.src
    <3>1. s # n /\ s \in R
      BY <1>4, <1>5, <1>6, <2>5
    <3>2. CASE t \in R
      <4>1. s # r
        BY <1>1, <1>6, <2>5, <3>2
      <4>2. ReadAt(f, s) <= t.pos /\ s.src + SizeAt(f, s) <= t.src
        BY <2>5, <3>1, <3>2 DEF IsParse
      <4> QED
        BY <1>7, <3>1, <4>1, <4>2
    <3>3. CASE t = n /\ s # r
      <4>1. /\ ReadAt(g, s) <= r.pos /\ s.src + SizeAt(g, s) <= r.src /\ ReadAt(g, s) \in Nat
            /\ s.src \in Nat /\ SizeAt(g, s) \in Nat
        BY <1>6, <1>9, <3>1, <3>3, ReadIs
      <4>2. /\ r.pos = Len(f) /\ n.pos = Len(g) /\ r.src \in Nat /\ n.src \in Nat
            /\ r.src <= n.src /\ Len(g) \in Nat /\ Len(f) < Len(g)
        BY <1>1, <1>4, <1>5
      <4>3. ReadAt(g, s) <= n.pos
        BY <4>1, <4>2
      <4>4. s.src + SizeAt(g, s) <= n.src
        BY <4>1, <4>2
      <4> QED
        BY <3>3, <4>3, <4>4
    <3>4. CASE t = n /\ s = r
      BY <1>3, <1>4, <1>5, <3>4
    <3> QED
      BY <3>2, <3>3, <3>4
  <2> HIDE DEF T
  <2>6. IsParse(g, T)
    BY <2>1, <2>2, <2>3, <2>4, <2>5 DEF IsParse
  <2> QED
    BY <2>6 DEF T
<1>11. IsOpen(g, R \cup {n}, n)
  <2>1. n.count # GroupSize => BitsUpTo(g[n.flag], n.count)
    BY <1>2, <1>4
  <2>2. OpenAt(g, n, r)
    <3>1. /\ FlagAt(r) \in Nat /\ TokenAt(r) \in Nat /\ FlagAt(r) <= TokenAt(r)
          /\ TurnAt(r) \in 1 .. GroupSize /\ GroupSize \in Nat
      BY <1>1, PointProperties, FlagBits
    <3>2. n.flag = FlagAt(r) /\ n.count = TurnAt(r)
      BY <1>4
    <3>3. TurnAt(r) <= n.count /\ TokenAt(r) + 1 > n.flag
      BY <3>1, <3>2
    <3> QED
      BY <3>2, <3>3 DEF OpenAt
  <2>3. ASSUME NEW s \in R, s # r
        PROVE  OpenAt(g, n, s)
    <3>1. OpenAt(f, r, s) /\ IsPoint(s) /\ ReadAt(f, s) <= Len(f)
      BY <1>6, <1>7, <2>3 DEF IsOpen
    <3>2. /\ TokenAt(s) \in Nat /\ FlagAt(s) \in Nat /\ FlagAt(s) <= TokenAt(s) /\ ReadAt(f, s) >= TokenAt(s) + 1
          /\ TurnAt(s) \in 1 .. GroupSize /\ ReadAt(f, s) \in Nat
      BY <3>1, PointProperties, ReadIs
    <3>3. r.flag \in Nat /\ r.count \in 1 .. GroupSize
      BY <1>1, PointProperties
    <3>4. CASE r.count = GroupSize
      <4>1. n.flag = Len(f) + 1
        BY <1>1, <1>4, <3>4 DEF FlagAt
      <4> QED
        BY <3>1, <3>2, <4>1 DEF OpenAt
    <3>5. CASE r.count # GroupSize
      <4>1. n.flag = r.flag /\ n.count = r.count + 1
        BY <1>1, <1>4, <3>5, PointProperties DEF FlagAt
      <4> QED
        BY <3>1, <3>2, <3>3, <4>1 DEF OpenAt
    <3> QED
      BY <3>4, <3>5
  <2>4. n.pos = Len(g) /\ ~(n.pos < Len(g))
    BY <1>4, <1>5
  <2>5. \A s \in R \cup {n} : s.pos < Len(g) => OpenAt(g, n, s)
    BY <2>2, <2>3, <2>4
  <2>6. n \in R \cup {n}
    OBVIOUS
  <2> QED
    BY <2>1, <2>4, <2>5, <2>6 DEF IsOpen
<1> QED
  BY <1>2, <1>10, <1>11 DEF n

-----------------------------------------------------------------------------
(* Cutting the code                                                        *)

\* The code stands for no more than n bytes.
Within(R, n) == \A s \in R : s.src <= n

\* A reader at t has not found fewer bytes left to write than code to read.
IsKept(f, R, n, t) ==
  \A s \in R : s.pos <= t.pos => Len(f) - s.pos <= n - s.src

\* The first c bytes of the code end behind a token, and in a buffer where they
\* come behind b bytes what a reader writes stays behind what it reads.
IsCut(f, R, c, b) ==
  /\ c \in Nat \ {0} /\ b \in Int /\ \E r \in R : r.pos = c
  /\ \A s \in R : s.pos < c => s.src <= b + s.pos

\* Behind a token there is no point before the next.
LEMMA NextPoint ==
  ASSUME NEW f, NEW R, IsParse(f, R), Len(f) \in Nat, NEW t \in R, t.pos < Len(f)
  PROVE  /\ Behind(f, t) \in R /\ IsPoint(t) /\ IsPoint(Behind(f, t)) /\ Readable(f, t)
         /\ Behind(f, t).pos = ReadAt(f, t) /\ Behind(f, t).src = t.src + SizeAt(f, t)
         /\ Behind(f, t).count = TurnAt(t) /\ Behind(f, t).flag = FlagAt(t)
         /\ t.pos < ReadAt(f, t) /\ ReadAt(f, t) <= Len(f) /\ SizeAt(f, t) \in Nat \ {0}
         /\ \A s \in R : s.pos <= ReadAt(f, t) => s.pos <= t.pos \/ s = Behind(f, t)
<1>1. Behind(f, t) \in R /\ IsPoint(t) /\ IsPoint(Behind(f, t)) /\ Readable(f, t)
  BY DEF IsParse
<1>2. /\ Behind(f, t).pos = ReadAt(f, t) /\ Behind(f, t).src = t.src + SizeAt(f, t)
      /\ Behind(f, t).count = TurnAt(t) /\ Behind(f, t).flag = FlagAt(t)
      /\ SizeAt(f, t) \in Nat \ {0}
  BY <1>1, BehindIs
<1>3. t.pos < ReadAt(f, t) /\ ReadAt(f, t) \in Nat /\ t.pos \in Nat
  BY <1>1, PointProperties, ReadIs
<1>4. ReadAt(f, t) <= Len(f)
  BY <1>1 DEF Readable
<1>5. ASSUME NEW s \in R, s.pos <= ReadAt(f, t), ~(s.pos <= t.pos)
      PROVE  s = Behind(f, t)
  <2>1. s.pos \in Nat
    BY PointProperties DEF IsParse
  <2>2. t.pos < s.pos
    BY <1>3, <1>5, <2>1
  <2>3. ReadAt(f, t) <= s.pos
    BY <2>2 DEF IsParse
  <2>4. s.pos = Behind(f, t).pos
    BY <1>2, <1>3, <1>5, <2>1, <2>3
  <2> QED
    BY <1>1, <2>4 DEF IsParse
<1> QED
  BY <1>1, <1>2, <1>3, <1>4, <1>5

\* Points further on stand for more bytes.
LEMMA MoreBytes ==
  ASSUME NEW f, NEW R, IsParse(f, R), Len(f) \in Nat, NEW s \in R, NEW t \in R, s.pos < t.pos
  PROVE  s.src < t.src /\ s.src \in Nat /\ t.src \in Nat
<1>1. IsPoint(s) /\ IsPoint(t) /\ t.pos <= Len(f)
  BY DEF IsParse
<1>2. s.src \in Nat /\ t.src \in Nat /\ s.pos \in Nat /\ t.pos \in Nat
  BY <1>1, PointProperties
<1>3. s.pos < Len(f)
  BY <1>1, <1>2
<1>4. SizeAt(f, s) \in Nat \ {0}
  BY <1>3, NextPoint
<1>5. s.src + SizeAt(f, s) <= t.src
  BY DEF IsParse
<1> QED
  BY <1>2, <1>4, <1>5

\* Behind the token at t, orig bytes are left to write and left to read.
AreLeft(f, n, t, orig, left) ==
  orig = n - (t.src + SizeAt(f, t)) /\ left = Len(f) - ReadAt(f, t)

\* The reader goes on, or the code is cut behind the token.
LEMMA TokenTrimmed ==
  ASSUME NEW f, NEW R, IsParse(f, R), Len(f) \in Nat, NEW t \in R, t.pos < Len(f),
         NEW n \in Nat, Within(R, n), IsKept(f, R, n, t),
         NEW orig, NEW left, AreLeft(f, n, t, orig, left)
  PROVE  /\ orig \in Nat /\ left \in Nat /\ ReadAt(f, t) = Len(f) - left
         /\ (MatchAt(f, t) /\ orig < left => IsCut(f, R, Len(f) - left, n - (orig + (Len(f) - left))))
         /\ (~(MatchAt(f, t) /\ orig < left) => IsKept(f, R, n, Behind(f, t)))
         /\ (~(MatchAt(f, t) /\ orig < left) /\ orig = 0 => IsCut(f, R, Len(f), n - Len(f)))
<1> DEFINE u == Behind(f, t)
           m == ReadAt(f, t)
           z == SizeAt(f, t)
           L == Len(f)
           tp == t.pos
           ts == t.src
           us == u.src
<1>1. /\ u \in R /\ IsPoint(t) /\ IsPoint(u) /\ u.pos = m /\ us = ts + z
      /\ tp < m /\ m <= L /\ z \in Nat \ {0}
  BY NextPoint
<1>10. \A s \in R : s.pos <= m => s.pos <= tp \/ s = u
  BY NextPoint
<1>2. m \in Nat /\ tp \in Nat /\ ts \in Nat /\ us \in Nat /\ L \in Nat
  BY <1>1, PointProperties, ReadIs
<1> HIDE DEF u, m, z, L, tp, ts, us
<1>11. us = ts + z /\ tp < m /\ m <= L /\ z \in Nat \ {0}
  BY <1>1
<1>3. us <= n
  BY <1>1 DEF Within, us
<1>4. orig = n - us /\ orig \in Nat /\ left = L - m /\ left \in Nat /\ L - left = m
  <2>1. orig = n - (ts + z) /\ left = L - m
    BY DEF AreLeft, m, z, L, ts
  <2>2. orig = n - us /\ orig \in Nat
    BY <1>11, <1>2, <1>3, <2>1
  <2>3. left \in Nat /\ L - left = m
    BY <1>11, <1>2, <2>1
  <2> QED
    BY <2>1, <2>2, <2>3
<1>5. \A s \in R : s.pos \in Nat /\ s.src \in Nat
  BY PointProperties DEF IsParse
<1>6. \A s \in R : s.pos <= tp => L - s.pos <= n - s.src
  BY DEF IsKept, L, tp
<1>12. L - tp <= n - ts
  BY <1>2, <1>6 DEF tp, ts
<1>7. ASSUME orig < left
      PROVE  IsCut(f, R, m, n - (orig + m))
  <2> DEFINE b == n - (orig + m)
  <2>1. b \in Int /\ n - L <= b /\ n - L \in Int
    <3>1. orig + m <= L /\ orig + m \in Nat
      BY <1>2, <1>4, <1>7
    <3> DEFINE x == orig + m
    <3>2. x <= L /\ x \in Nat
      BY <3>1
    <3> HIDE DEF x
    <3>3. n - x \in Int /\ n - L <= n - x /\ n - L \in Int
      BY <1>2, <3>2
    <3> QED
      BY <3>3 DEF x
  <2> HIDE DEF b
  <2>2. ASSUME NEW s \in R, s.pos < m
        PROVE  s.src <= b + s.pos
    <3>1. s.pos <= tp
      BY <1>10, <1>1, <1>2, <1>5, <2>2
    <3>2. L - s.pos <= n - s.src
      BY <1>6, <3>1
    <3> QED
      BY <1>2, <1>5, <2>1, <3>2
  <2>3. m # 0
    BY <1>1, <1>2
  <2>4. IsCut(f, R, m, b)
    BY <1>1, <1>2, <2>1, <2>2, <2>3 DEF IsCut
  <2> QED
    BY <2>4 DEF b
<1>8. ASSUME ~(MatchAt(f, t) /\ orig < left)
      PROVE  IsKept(f, R, n, u)
  <2>1. L - m <= n - us
    <3>1. CASE MatchAt(f, t)
      <4>1. left <= orig
        BY <1>4, <1>8, <3>1
      <4> QED
        BY <1>4, <4>1
    <3>2. CASE ~MatchAt(f, t)
      <4>1. z = 1
        BY <3>2 DEF SizeAt, z
      <4> QED
        BY <1>11, <1>12, <1>2, <4>1
    <3> QED
      BY <3>1, <3>2
  <2>2. \A s \in R : s.pos <= u.pos => L - s.pos <= n - s.src
    BY <1>1, <1>10, <1>6, <2>1 DEF us
  <2> QED
    BY <2>2 DEF IsKept, L
<1>9. ASSUME ~(MatchAt(f, t) /\ orig < left), orig = 0
      PROVE  IsCut(f, R, L, n - L)
  <2>1. us = n
    BY <1>2, <1>4, <1>9
  <2>2. m = L
    <3> SUFFICES ASSUME m < L PROVE FALSE
      BY <1>1, <1>2
    <3>1. Behind(f, u) \in R /\ Behind(f, u).src = us + SizeAt(f, u) /\ SizeAt(f, u) \in Nat \ {0}
      BY <1>1, NextPoint DEF L, us
    <3>2. Behind(f, u).src <= n
      BY <3>1 DEF Within
    <3> QED
      BY <2>1, <3>1, <3>2
  <2>3. IsKept(f, R, n, u)
    BY <1>8, <1>9
  <2> DEFINE b == n - L
  <2>4. b \in Int
    BY <1>2
  <2>5. ASSUME NEW s \in R, s.pos < L
        PROVE  s.src <= b + s.pos
    <3>1. L - s.pos <= n - s.src
      BY <1>1, <1>2, <1>5, <2>2, <2>3, <2>5 DEF IsKept, L
    <3> QED
      BY <1>2, <1>5, <3>1
  <2> HIDE DEF b
  <2>6. IsCut(f, R, L, b)
    BY <1>1, <1>2, <2>2, <2>4, <2>5 DEF IsCut
  <2> QED
    BY <2>6 DEF b
<1> QED
  BY <1>4, <1>7, <1>8, <1>9 DEF u, m, L

-----------------------------------------------------------------------------
(* What CBackwardLz77::Compress writes                                     *)

\* The data are a file.
GivenIsFile == data \in Seq(Nat)

LEMMA RawIs ==
  ASSUME type = "blz", GivenIsFile
  PROVE  IsSeq(raw) /\ Len(raw) = Len(data) /\ Len(data) \in Nat
<1>1. Len(data) \in Nat
  BY DEF GivenIsFile
<1>2. raw = [i \in 1 .. Len(data) |-> data[(Len(data) - i) + 1]]
  BY DEF raw, Reverse
<1> DEFINE f == raw
           n == Len(data)
<1>3. f = [i \in 1 .. n |-> f[i]] /\ n \in Nat
  BY <1>1, <1>2
<1> HIDE DEF f, n
<1>4. IsSeq(f) /\ Len(f) = n
  BY <1>3, TupleSeq
<1> QED
  BY <1>1, <1>4 DEF f, n

LEMMA MatchSizeIs ==
  ASSUME NEW p, NEW d, NEW max \in Nat
  PROVE  MatchSize(p, d, max) \in 0 .. max
<1> DEFINE S == {0} \cup {k \in 1 .. max : /\ type = "blz" => k <= d
                                           /\ \A j \in 2 .. k : raw[p + j] = raw[p + j - d]}
<1>1. S \subseteq Nat /\ S # {} /\ \A x \in S : x <= max
  OBVIOUS
<1>2. MatchSize(p, d, max) = Max(S)
  BY DEF MatchSize
<1> HIDE DEF S
<1>3. Max(S) \in S /\ \A y \in S : y <= Max(S)
  BY <1>1, MaxProperties
<1>4. Max(S) \in Nat /\ Max(S) <= max
  BY <1>1, <1>3
<1> QED
  BY <1>2, <1>4

\* A match is as long as the file can say, and not longer than the data.
LEMMA SearchIs ==
  ASSUME NEW w, NEW p \in Nat, type = "blz", GivenIsFile, p <= Len(raw)
  PROVE  /\ Search(w, p).on \in BOOLEAN
         /\ Search(w, p).on => /\ Search(w, p).size \in Nat
                               /\ Search(w, p).size >= 3
                               /\ Search(w, p).size <= NibbleCodes + 2
                               /\ Search(w, p).size <= Len(raw) - p
<1> DEFINE max == Min({nMaxSize, Len(raw) - p} \cup (IF type = "blz" THEN {p} ELSE {}))
           tried == Walk(w, raw[p + 1])
           long(i) == IF Distance(w, tried[i]) < MinDistance THEN 0
                      ELSE MatchSize(p, Distance(w, tried[i]), max)
           longest == Max({0} \cup {long(i) : i \in DOMAIN tried})
           found == Min({i \in DOMAIN tried : long(i) = longest})
<1>1. Search(w, p) = IF max < 3 \/ longest < 3 THEN NoMatch
                     ELSE [size |-> longest, offset |-> Distance(w, tried[found]), on |-> TRUE]
  BY DEF Search
<1>2. Len(raw) \in Nat /\ Len(raw) - p \in Nat
  BY RawIs
<1>3. nMaxSize = NibbleCodes + 2 /\ nMaxSize \in Nat /\ NibbleCodes \in Nat
  <2>1. nMaxSize = NibbleCodes - 1 + 3
    BY DEF nMaxSize
  <2> QED
    BY <2>1, LzAssumption
<1>4. max \in Nat /\ max <= nMaxSize /\ max <= Len(raw) - p
  <2> DEFINE S == {nMaxSize, Len(raw) - p} \cup (IF type = "blz" THEN {p} ELSE {})
  <2>1. S \subseteq Nat /\ nMaxSize \in S /\ Len(raw) - p \in S
    BY <1>2, <1>3
  <2>2. max = Min(S)
    OBVIOUS
  <2> HIDE DEF S, max
  <2>3. S # {}
    BY <2>1
  <2>4. Min(S) \in S /\ \A y \in S : Min(S) <= y
    BY <2>1, <2>3, MinProperties
  <2> QED
    BY <2>1, <2>2, <2>4
<1> HIDE DEF max, tried
<1>5. \A i \in DOMAIN tried : long(i) \in 0 .. max
  <2> SUFFICES ASSUME NEW i \in DOMAIN tried
               PROVE  long(i) \in 0 .. max
    OBVIOUS
  <2> DEFINE d == Distance(w, tried[i])
  <2>1. MatchSize(p, d, max) \in 0 .. max
    BY <1>4, MatchSizeIs
  <2> HIDE DEF d
  <2>2. long(i) = IF d < MinDistance THEN 0 ELSE MatchSize(p, d, max)
    BY DEF d
  <2> QED
    BY <1>4, <2>1, <2>2
<1> HIDE DEF long
<1>6. longest \in 0 .. max
  <2> DEFINE S == {0} \cup {long(i) : i \in DOMAIN tried}
  <2>1. S \subseteq Nat /\ S # {} /\ \A x \in S : x <= max
    BY <1>4, <1>5
  <2>2. longest = Max(S)
    OBVIOUS
  <2> HIDE DEF S, longest
  <2>3. Max(S) \in S
    BY <1>4, <2>1, MaxProperties
  <2>4. Max(S) \in Nat /\ Max(S) <= max
    BY <2>1, <2>3
  <2> QED
    BY <1>4, <2>2, <2>4
<1> HIDE DEF longest, found
<1>7. CASE max < 3 \/ longest < 3
  BY <1>1, <1>7 DEF NoMatch
<1>8. CASE ~(max < 3 \/ longest < 3)
  <2> DEFINE m == [size |-> longest, offset |-> Distance(w, tried[found]), on |-> TRUE]
  <2>1. Search(w, p) = m /\ m.size = longest /\ m.on = TRUE
    BY <1>1, <1>8
  <2> HIDE DEF m
  <2>2. longest \in Nat /\ longest >= 3 /\ longest <= max
    BY <1>4, <1>6, <1>8
  <2>3. longest <= NibbleCodes + 2 /\ longest <= Len(raw) - p
    BY <1>2, <1>3, <1>4, <2>2
  <2> QED
    BY <2>1, <2>2, <2>3
<1> QED
  BY <1>7, <1>8

\* The first byte of a match holds its size.
LEMMA MatchBytesAre ==
  ASSUME NEW m, type = "blz", m.size \in Nat, m.size >= 3, m.size <= NibbleCodes + 2
  PROVE  /\ IsSeq(MatchBytes(m)) /\ Len(MatchBytes(m)) = 2
         /\ MatchBytes(m)[1] \in Nat /\ MatchBytes(m)[1] \div NibbleCodes + 3 = m.size
<1> DEFINE N == NibbleCodes
           first == ((m.size - 3) % N) * N
           second == (m.offset - Bias) % OffsetCodes
           z == m.size - 3
<1>1. MatchBytes(m) = <<first, second>>
  BY DEF MatchBytes
<1>2. N \in Nat /\ N > 0 /\ z \in Nat /\ z < N /\ z + 3 = m.size
  BY LzAssumption
<1> HIDE DEF N, z
<1>3. z = N * 0 + z
  BY <1>2
<1>4. z % N = z
  BY <1>2, <1>3, DivIs
<1>5. first = N * z + 0 /\ first \in Nat
  <2>1. first = z * N
    BY <1>4 DEF N, z
  <2> QED
    BY <1>2, <2>1
<1> HIDE DEF first, second
<1>6. first \div N = z
  BY <1>2, <1>5, DivIs
<1>7. <<first, second>> \in Seq({first, second}) /\ Len(<<first, second>>) = 2 /\ <<first, second>>[1] = first
  OBVIOUS
<1>8. IsSeq(<<first, second>>)
  BY <1>7 DEF IsSeq
<1>9. first \div NibbleCodes + 3 = m.size
  BY <1>2, <1>6 DEF N
<1> QED
  BY <1>1, <1>5, <1>7, <1>8, <1>9

LEMMA AppendSeq ==
  ASSUME NEW f, IsSeq(f), NEW x
  PROVE  /\ IsSeq(Append(f, x)) /\ Len(Append(f, x)) = Len(f) + 1
         /\ Append(f, x)[Len(f) + 1] = x
         /\ \A i \in 1 .. Len(f) : Append(f, x)[i] = f[i]
<1>1. PICK S : f \in Seq(S)
  BY DEF IsSeq
<1>2. f \in Seq(S \cup {x}) /\ x \in S \cup {x}
  BY <1>1, SeqMonotonic
<1>3. Append(f, x) \in Seq(S \cup {x})
  BY <1>2
<1>4. Len(Append(f, x)) = Len(f) + 1 /\ Append(f, x)[Len(f) + 1] = x
  BY <1>2
<1>5. \A i \in 1 .. Len(f) : Append(f, x)[i] = f[i]
  BY <1>2
<1> QED
  BY <1>3, <1>4, <1>5 DEF IsSeq

\* A sequence with a bit added at one place, and another one behind it.
Joined(f, at, bit, tok) == [f EXCEPT ![at] = @ + bit] \o tok

IsJoined(w, f, at, bit, tok) ==
  /\ IsSeq(w) /\ Len(w) = Len(f) + Len(tok)
  /\ w[at] = f[at] + bit
  /\ \A i \in 1 .. Len(f) : i # at => w[i] = f[i]
  /\ \A i \in 1 .. Len(tok) : w[Len(f) + i] = tok[i]

LEMMA JoinedIs ==
  ASSUME NEW f, IsSeq(f), NEW at \in 1 .. Len(f), NEW bit, NEW tok, IsSeq(tok)
  PROVE  IsJoined(Joined(f, at, bit, tok), f, at, bit, tok)
<1> DEFINE g == [f EXCEPT ![at] = @ + bit]
           n == Len(f)
<1>1. n \in Nat /\ DOMAIN f = 1 .. n
  BY SeqProperties
<1>2. g = [i \in 1 .. n |-> IF i = at THEN f[at] + bit ELSE f[i]]
  BY <1>1
<1>3. g = [i \in 1 .. n |-> g[i]]
  BY <1>2
<1>4. g[at] = f[at] + bit /\ \A i \in 1 .. n : i # at => g[i] = f[i]
  BY <1>2
<1> HIDE DEF g
<1>5. IsSeq(g) /\ Len(g) = n
  <2> HIDE DEF n
  <2> QED
    BY <1>1, <1>3, TupleSeq
<1>6. IsConcat(g \o tok, g, tok)
  BY <1>5, ConcatSeq
<1>7. Joined(f, at, bit, tok) = g \o tok
  BY DEF Joined, g
<1>8. IsJoined(g \o tok, f, at, bit, tok)
  BY <1>4, <1>5, <1>6 DEF IsJoined, IsConcat
<1> QED
  BY <1>7, <1>8

\* Where the coder is: behind the code it has written.
EndPoint == [pos |-> Len(file), src |-> src, count |-> count, flag |-> flag]

Room == IsSeq(file) /\ Len(file) <= Len(data)

LEMMA PutIs ==
  ASSUME type = "blz", GivenIsFile, Room, IsPoint(EndPoint),
         NEW token, NEW isMatch \in BOOLEAN, IsSeq(token),
         Len(token) = (IF isMatch THEN 2 ELSE 1), isMatch => token[1] \in Nat,
         Put(token, isMatch)
  PROVE  \/ phase' = "refused"
         \/ /\ phase' = phase /\ IsLonger(file, EndPoint, isMatch, file')
            /\ IsSeq(file') /\ Len(file') <= Len(data)
            /\ count' = TurnAt(EndPoint) /\ flag' = FlagAt(EndPoint)
            /\ file'[TokenAt(EndPoint) + 1] = token[1]
<1> DEFINE e == EndPoint
           at == IF Opens THEN Len(file) + 1 ELSE flag
           opened == IF Opens THEN Append(file, 0) ELSE file
           bit == IF isMatch # (type = "yaz0") THEN FlagBit[Turn] ELSE 0
           written == [opened EXCEPT ![at] = @ + bit] \o token
<1>1. e.pos = Len(file) /\ e.src = src /\ e.count = count /\ e.flag = flag
  BY DEF EndPoint
<1>2. LzCapacity = Len(data)
  BY DEF LzCapacity
<1>3. \/ phase' = "refused"
      \/ /\ Len(written) <= Len(data) \/ ~(Len(written) > Len(data))
         /\ file' = written /\ flag' = at /\ count' = Turn /\ phase' = phase
  BY <1>2 DEF Put
<1>4. SUFFICES ASSUME /\ Len(written) <= Len(data) \/ ~(Len(written) > Len(data))
                      /\ file' = written /\ flag' = at /\ count' = Turn /\ phase' = phase
               PROVE  /\ IsLonger(file, EndPoint, isMatch, file')
                      /\ IsSeq(file') /\ Len(file') <= Len(data)
                      /\ count' = TurnAt(EndPoint) /\ flag' = FlagAt(EndPoint)
                      /\ file'[TokenAt(EndPoint) + 1] = token[1]
  BY <1>3
<1>5. at = FlagAt(e) /\ Turn = TurnAt(e) /\ (Opens <=> e.count = GroupSize)
  BY <1>1 DEF FlagAt, TurnAt, Turn, Opens
<1>6. bit = IF isMatch THEN FlagBit[TurnAt(e)] ELSE 0
  BY <1>5
<1> HIDE DEF e
<1>7. Len(file) \in Nat
  BY SeqProperties DEF Room
<1>8. /\ FlagAt(e) \in Nat \ {0} /\ FlagAt(e) <= TokenAt(e) /\ e.flag <= e.pos
      /\ TokenAt(e) \in Nat /\ e.flag \in Nat
  BY PointProperties DEF e, IsPoint
<1>9. /\ IsSeq(opened) /\ Len(opened) = TokenAt(e)
      /\ \A i \in 1 .. Len(file) : opened[i] = file[i]
      /\ opened[at] = IF e.count = GroupSize THEN 0 ELSE file[e.flag]
  <2>1. CASE Opens
    <3>1. opened = Append(file, 0) /\ at = Len(file) + 1 /\ e.count = GroupSize /\ TokenAt(e) = Len(file) + 1
      BY <1>1, <1>5, <2>1 DEF TokenAt
    <3> HIDE DEF opened, at
    <3> QED
      BY <3>1, AppendSeq DEF Room
  <2>2. CASE ~Opens
    <3>1. opened = file /\ at = e.flag /\ e.count # GroupSize /\ TokenAt(e) = Len(file)
      BY <1>1, <1>5, <2>2 DEF TokenAt
    <3> HIDE DEF opened, at
    <3> QED
      BY <3>1 DEF Room
  <2> QED
    BY <2>1, <2>2
<1>10. written = Joined(opened, at, bit, token)
  BY DEF Joined
<1>11. at \in 1 .. Len(opened)
  BY <1>5, <1>8, <1>9
<1> HIDE DEF written, opened, at, bit
<1>12. /\ IsSeq(written) /\ Len(written) = Len(opened) + Len(token)
       /\ written[at] = opened[at] + bit
       /\ \A i \in 1 .. Len(opened) : i # at => written[i] = opened[i]
       /\ \A i \in 1 .. Len(token) : written[Len(opened) + i] = token[i]
  <2> DEFINE w == Joined(opened, at, bit, token)
  <2>1. IsSeq(opened) /\ IsSeq(token)
    BY <1>9
  <2>2. IsJoined(w, opened, at, bit, token)
    BY <1>11, <2>1, JoinedIs
  <2>3. written = w
    BY <1>10
  <2> HIDE DEF w
  <2> QED
    BY <2>2, <2>3 DEF IsJoined
<1>13. file' = written
  BY <1>4
<1>14. Len(file) <= TokenAt(e)
  BY <1>1, <1>7 DEF TokenAt
<1>15. \A i \in 1 .. Len(file) : i # FlagAt(e) => file'[i] = file[i]
  BY <1>5, <1>7, <1>8, <1>9, <1>12, <1>13, <1>14
<1>16. file'[TokenAt(e) + 1] = token[1]
  BY <1>9, <1>12, <1>13
<1>17. Len(file') = TokenAt(e) + (IF isMatch THEN 2 ELSE 1)
  BY <1>9, <1>12, <1>13
<1>18. file'[FlagAt(e)] = (IF e.count = GroupSize THEN 0 ELSE file[e.flag])
                              + (IF isMatch THEN FlagBit[TurnAt(e)] ELSE 0)
  BY <1>5, <1>6, <1>9, <1>12, <1>13
<1>19. IsLonger(file, e, isMatch, file')
  BY <1>15, <1>16, <1>17, <1>18 DEF IsLonger
<1>20. IsSeq(file') /\ Len(file') <= Len(data)
  <2>1. Len(data) \in Nat /\ Len(file') \in Nat
    BY <1>8, <1>17, RawIs
  <2> QED
    BY <1>4, <1>12, <1>13, <2>1
<1> QED
  BY <1>4, <1>5, <1>16, <1>19, <1>20 DEF e

PackingInv ==
  /\ Room /\ src \in Nat /\ src <= Len(data) /\ last = NoMatch /\ pos = 0
  /\ \E R : IsParse(file, R) /\ IsOpen(file, R, EndPoint)

LEMMA TokenPacked ==
  ASSUME type = "blz", GivenIsFile, PackingInv, phase = "packing",
         NEW token, NEW isMatch \in BOOLEAN, IsSeq(token),
         Len(token) = (IF isMatch THEN 2 ELSE 1), isMatch => token[1] \in Nat,
         Put(token, isMatch),
         NEW taken \in Nat, taken = (IF isMatch THEN token[1] \div NibbleCodes + 3 ELSE 1),
         src' = src + taken, src + taken <= Len(data), last' = NoMatch, pos' = pos, data' = data
  PROVE  phase' = "refused" \/ (phase' = "packing" /\ PackingInv')
<1> DEFINE e == EndPoint
<1>1. PICK R : IsParse(file, R) /\ IsOpen(file, R, e)
  BY DEF PackingInv
<1>2. IsPoint(e)
  BY <1>1 DEF IsParse, IsOpen
<1>3. Room
  BY DEF PackingInv
<1>4. \/ phase' = "refused"
      \/ /\ phase' = phase /\ IsLonger(file, e, isMatch, file')
         /\ IsSeq(file') /\ Len(file') <= Len(data)
         /\ count' = TurnAt(e) /\ flag' = FlagAt(e)
         /\ file'[TokenAt(e) + 1] = token[1]
  BY <1>2, <1>3, PutIs
<1>5. CASE phase' = "refused"
  BY <1>5
<1>6. CASE /\ phase' = phase /\ IsLonger(file, e, isMatch, file')
           /\ IsSeq(file') /\ Len(file') <= Len(data)
           /\ count' = TurnAt(e) /\ flag' = FlagAt(e)
           /\ file'[TokenAt(e) + 1] = token[1]
  <2> DEFINE g == file'
             n == Behind(g, e)
             T == R \cup {n}
  <2>1. e.src = src
    BY DEF EndPoint
  <2> HIDE DEF e
  <2>2. Len(file) \in Nat
    BY <1>3, SeqProperties DEF Room
  <2>3. IsLonger(file, e, isMatch, g)
    BY <1>6
  <2> HIDE DEF g
  <2>4. IsParse(g, T) /\ IsOpen(g, T, n) /\ (MatchAt(g, e) <=> isMatch)
    BY <1>1, <2>2, <2>3, ParseGrows
  <2>5. SizeAt(g, e) = taken
    <3>1. g[TokenAt(e) + 1] = token[1]
      BY <1>6 DEF g
    <3> QED
      BY <2>4, <3>1 DEF SizeAt
  <2>6. ReadAt(g, e) = Len(g)
    BY <2>3, <2>4 DEF ReadAt, IsLonger
  <2>7. n = [pos |-> Len(g), src |-> src + taken, count |-> TurnAt(e), flag |-> FlagAt(e)]
    BY <2>1, <2>5, <2>6 DEF Behind
  <2>8. n = EndPoint'
    BY <1>6, <2>7 DEF EndPoint, g
  <2>9. IsParse(file', T) /\ IsOpen(file', T, EndPoint')
    BY <2>4, <2>8 DEF g
  <2> HIDE DEF T, n
  <2>10. Room'
    BY <1>6 DEF Room
  <2>11. src' \in Nat /\ src' <= Len(data') /\ last' = NoMatch /\ pos' = 0
    BY DEF PackingInv
  <2>12. PackingInv'
    BY <2>9, <2>10, <2>11 DEF PackingInv
  <2> QED
    BY <1>6, <2>12
<1> QED
  BY <1>4, <1>5, <1>6

LEMMA BytePacked ==
  ASSUME type = "blz", GivenIsFile, PackingInv, PutByte
  PROVE  phase' = "refused" \/ (phase' = "packing" /\ PackingInv')
<1>1. src < Len(raw) /\ src \in Nat /\ Len(raw) = Len(data) /\ Len(data) \in Nat /\ phase = "packing"
  BY RawIs DEF PutByte, PackingInv, Coding
<1>2. Ahead = NoMatch
  BY DEF Ahead
<1>3. /\ Put(<<raw[src + 1]>>, FALSE) /\ src' = src + 1 /\ last' = NoMatch
      /\ pos' = pos /\ data' = data
  BY <1>2 DEF PutByte, SlideBy, Given
<1> DEFINE token == <<raw[src + 1]>>
<1>4. IsSeq(token) /\ Len(token) = 1
  BY OneSeq
<1>5. Put(token, FALSE)
  BY <1>3
<1> HIDE DEF token
<1>6. src + 1 <= Len(data)
  BY <1>1
<1> QED
  BY <1>1, <1>3, <1>4, <1>5, <1>6, TokenPacked

LEMMA MatchPacked ==
  ASSUME type = "blz", GivenIsFile, PackingInv, PutMatch
  PROVE  phase' = "refused" \/ (phase' = "packing" /\ PackingInv')
<1>1. src < Len(raw) /\ src \in Nat /\ Len(raw) = Len(data) /\ Len(data) \in Nat /\ phase = "packing"
  BY RawIs DEF PutMatch, PackingInv, Coding
<1>2. Here = Search(info, src)
  BY DEF Here, PackingInv, NoMatch
<1> DEFINE m == Search(info, src)
           token == MatchBytes(m)
           taken == m.size
<1>3. /\ m.on /\ Put(token, TRUE) /\ src' = src + taken /\ last' = NoMatch
      /\ pos' = pos /\ data' = data
  BY <1>2 DEF PutMatch, SlideBy, Given
<1>4. taken \in Nat /\ taken >= 3 /\ taken <= NibbleCodes + 2 /\ taken <= Len(raw) - src
  BY <1>1, <1>3, SearchIs
<1> HIDE DEF m
<1>5. IsSeq(token) /\ Len(token) = 2 /\ token[1] \in Nat /\ token[1] \div NibbleCodes + 3 = taken
  BY <1>4, MatchBytesAre
<1> HIDE DEF token, taken
<1>6. src + taken <= Len(data)
  BY <1>1, <1>4
<1> QED
  BY <1>1, <1>3, <1>4, <1>5, <1>6, TokenPacked

RawInv == src = 0 /\ flag = 0 /\ last = NoMatch /\ pos = 0

LEMMA PackingStarts ==
  ASSUME type = "blz", GivenIsFile, RawInv, StartPacking
  PROVE  phase' = "refused" \/ (phase' = "packing" /\ PackingInv')
<1>1. CASE Len(data) <= FooterSize
  BY <1>1 DEF StartPacking
<1>2. CASE ~(Len(data) <= FooterSize)
  <2>1. /\ phase' = "packing" /\ file' = << >> /\ count' = GroupSize /\ src' = src /\ flag' = flag
        /\ last' = last /\ pos' = pos /\ data' = data
    BY <1>2 DEF StartPacking, Given
  <2>2. Len(data) \in Nat
    BY DEF GivenIsFile
  <2>3. IsSeq(file') /\ Len(file') = 0
    BY <2>1, NoSeq
  <2>4. Room'
    BY <2>1, <2>2, <2>3 DEF Room
  <2>5. EndPoint' = Start
    BY <2>1, <2>3 DEF EndPoint, Start, RawInv
  <2>6. IsParse(file', {Start})
    BY <2>1, ParseStarts
  <2>7. IsOpen(file', {Start}, EndPoint')
    BY <2>3, <2>5 DEF IsOpen, Start
  <2>8. \E R : IsParse(file', R) /\ IsOpen(file', R, EndPoint')
    BY <2>6, <2>7
  <2>9. src' \in Nat /\ src' <= Len(data') /\ last' = NoMatch /\ pos' = 0
    BY <2>1, <2>2 DEF RawInv
  <2>10. PackingInv'
    BY <2>4, <2>8, <2>9 DEF PackingInv
  <2> QED
    BY <2>1, <2>10
<1> QED
  BY <1>1, <1>2

-----------------------------------------------------------------------------
(* The second pass                                                         *)

LEMMA PartSeq ==
  ASSUME NEW f, NEW m \in Int, NEW n \in Int
  PROVE  /\ IsSeq(SubSeq(f, m, n)) /\ Len(SubSeq(f, m, n)) = IF m <= n THEN n - m + 1 ELSE 0
         /\ \A i \in 1 .. n - m + 1 : SubSeq(f, m, n)[i] = f[m + i - 1]
<1> DEFINE S == {f[i] : i \in m .. n}
<1>1. \A i \in m .. n : f[i] \in S
  OBVIOUS
<1> HIDE DEF S
<1>2. /\ SubSeq(f, m, n) \in Seq(S)
      /\ Len(SubSeq(f, m, n)) = IF m <= n THEN n - m + 1 ELSE 0
      /\ \A i \in 1 .. n - m + 1 : SubSeq(f, m, n)[i] = f[m + i - 1]
  BY <1>1, SubSeqProperties
<1> QED
  BY <1>2 DEF IsSeq

LEMMA FirstSeq ==
  ASSUME NEW f, NEW n \in Nat
  PROVE  /\ IsSeq(SubSeq(f, 1, n)) /\ Len(SubSeq(f, 1, n)) = n
         /\ \A i \in 1 .. n : SubSeq(f, 1, n)[i] = f[i]
<1>1. /\ IsSeq(SubSeq(f, 1, n)) /\ Len(SubSeq(f, 1, n)) = IF 1 <= n THEN n - 1 + 1 ELSE 0
      /\ \A i \in 1 .. n - 1 + 1 : SubSeq(f, 1, n)[i] = f[1 + i - 1]
  BY PartSeq
<1>2. n - 1 + 1 = n /\ \A i \in 1 .. n : 1 + i - 1 = i
  OBVIOUS
<1> QED
  BY <1>1, <1>2

LEMMA FillSeq ==
  ASSUME NEW n \in Nat
  PROVE  IsSeq(Fill(n)) /\ Len(Fill(n)) = n
<1>1. Fill(n) = [i \in 1 .. n |-> Fill(n)[i]]
  BY DEF Fill
<1> DEFINE f == Fill(n)
<1>2. f = [i \in 1 .. n |-> f[i]]
  BY <1>1
<1> HIDE DEF f
<1>3. IsSeq(f) /\ Len(f) = n
  BY <1>2, TupleSeq
<1> QED
  BY <1>3 DEF f

LEMMA RoundUpIs ==
  ASSUME NEW n \in Nat, NEW a \in Nat \ {0}
  PROVE  RoundUp(n, a) \in Nat /\ RoundUp(n, a) >= n
<1> DEFINE x == n + a - 1
           q == x \div a
           r == x % a
<1>1. x \in Nat /\ a > 0
  OBVIOUS
<1>2. q \in Nat /\ r \in 0 .. (a - 1) /\ x = a * q + r
  BY <1>1
<1>3. RoundUp(n, a) = q * a
  BY DEF RoundUp
<1> HIDE DEF q, r
<1>4. q * a = a * q /\ a * q \in Nat
  BY <1>2
<1>5. n + a - 1 = a * q + r
  BY <1>2
<1>6. a * q >= n
  BY <1>2, <1>4, <1>5
<1> QED
  BY <1>3, <1>4, <1>6

\* A reader of the code is at t.
IsAt(t, n) ==
  /\ pos = t.pos /\ src = n - t.src /\ count = t.count
  /\ count # GroupSize => flag = file[t.flag]

IsTrimming(R, t) ==
  /\ IsParse(file, R) /\ Within(R, Len(data)) /\ t \in R
  /\ IsKept(file, R, Len(data), t) /\ IsAt(t, Len(data))

TrimmingInv == Room /\ \E R, t : IsTrimming(R, t)

LEMMA TrimmingStarts ==
  ASSUME type = "blz", GivenIsFile, PackingInv, StartTrimming
  PROVE  phase' = "trimming" /\ TrimmingInv'
<1> DEFINE e == EndPoint
           n == Len(data)
<1>1. PICK R : IsParse(file, R) /\ IsOpen(file, R, e)
  BY DEF PackingInv
<1>2. /\ Room /\ n \in Nat /\ Len(file) \in Nat /\ Len(file) <= n /\ src \in Nat /\ src <= n /\ pos = 0
  BY RawIs, SeqProperties DEF PackingInv, Room
<1>3. /\ phase' = "trimming" /\ src' = n /\ count' = GroupSize /\ file' = file /\ data' = data
      /\ pos' = pos
  BY DEF StartTrimming, Given
<1>4. e.src = src /\ e.pos = Len(file) /\ e \in R
  BY <1>1 DEF EndPoint, IsOpen
<1> HIDE DEF e, n
<1>5. Within(R, n)
  <2> SUFFICES ASSUME NEW s \in R
               PROVE  s.src <= n
    BY DEF Within
  <2>1. s.pos <= Len(file) /\ s.pos \in Nat /\ s.src \in Nat
    BY <1>1, PointProperties DEF IsParse
  <2>2. CASE s.pos = e.pos
    BY <1>1, <1>2, <1>4, <2>2 DEF IsParse
  <2>3. CASE s.pos # e.pos
    <3>1. s.pos < e.pos
      BY <1>2, <1>4, <2>1, <2>3
    <3>2. s.src < e.src
      BY <1>1, <1>2, <1>4, <3>1, MoreBytes
    <3> QED
      BY <1>2, <1>4, <2>1, <3>2
  <2> QED
    BY <2>2, <2>3
<1>6. Start \in R /\ Start.pos = 0 /\ Start.src = 0 /\ Start.count = GroupSize
  BY <1>1 DEF IsParse, Start
<1>7. IsKept(file, R, n, Start)
  <2> SUFFICES ASSUME NEW s \in R, s.pos <= 0
               PROVE  Len(file) - s.pos <= n - s.src
    BY <1>6 DEF IsKept
  <2>1. s.pos \in Nat
    BY <1>1, PointProperties DEF IsParse
  <2>2. s = Start
    BY <1>1, <1>6, <2>1 DEF IsParse
  <2> QED
    BY <1>2, <1>6, <2>2
<1>8. IsAt(Start, n)'
  <2>1. n - 0 = n
    BY <1>2
  <2> QED
    BY <1>2, <1>3, <1>6, <2>1 DEF IsAt, n
<1>9. IsTrimming(R, Start)'
  BY <1>1, <1>3, <1>5, <1>6, <1>7, <1>8 DEF IsTrimming, n
<1>10. Room'
  BY <1>2, <1>3 DEF Room
<1> QED
  BY <1>3, <1>9, <1>10 DEF TrimmingInv

\* The file g holds the first c bytes of the code f behind its footer, which
\* says where they are.
Holds(g, f, c) ==
  /\ IsSeq(g) /\ g[2] \in Nat /\ g[3] \in Nat /\ g[1] = c + g[2] /\ c + g[2] <= Len(g)
  /\ \A i \in 1 .. c : g[g[2] + i] = f[i]

PackedInv ==
  /\ src = 0
  /\ \E f, R, c : /\ IsSeq(f) /\ IsParse(f, R) /\ Holds(file, f, c)
                  /\ IsCut(f, R, c, file[3] + file[2])

LaidOut(g, f, c, k, n) == Holds(g, f, c) /\ g[2] = k /\ g[3] = n

\* The file of four parts, of which the third is the code.
LEMMA PartsHold ==
  ASSUME NEW f, NEW c \in Nat, NEW footer, NEW pad \in Nat, NEW rest, IsSeq(rest),
         IsSeq(footer), Len(footer) = FooterSize, NEW n \in Nat,
         footer[1] = c + (pad + FooterSize), footer[2] = pad + FooterSize, footer[3] = n
  PROVE  LaidOut(footer \o Fill(pad) \o SubSeq(f, 1, c) \o rest, f, c, pad + FooterSize, n)
<1> DEFINE a == footer \o Fill(pad)
           b == a \o SubSeq(f, 1, c)
           g == b \o rest
           k == pad + FooterSize
<1>1. FooterSize \in Nat /\ FooterSize >= 3 /\ k \in Nat /\ k >= 3 /\ k >= FooterSize
  BY LzAssumption
<1>2. IsSeq(a) /\ Len(a) = k /\ \A i \in 1 .. FooterSize : a[i] = footer[i]
  <2>1. IsSeq(Fill(pad)) /\ Len(Fill(pad)) = pad
    BY FillSeq
  <2>2. IsSeq(a) /\ Len(a) = Len(footer) + Len(Fill(pad)) /\ \A i \in 1 .. Len(footer) : a[i] = footer[i]
    BY <2>1, ConcatSeq DEF IsConcat
  <2> QED
    BY <1>1, <2>1, <2>2
<1> HIDE DEF a
<1>3. /\ IsSeq(b) /\ Len(b) = k + c /\ (\A i \in 1 .. k : b[i] = a[i])
      /\ \A i \in 1 .. c : b[k + i] = f[i]
  <2> DEFINE s == SubSeq(f, 1, c)
  <2>1. IsSeq(s) /\ Len(s) = c /\ \A i \in 1 .. c : s[i] = f[i]
    BY FirstSeq
  <2> HIDE DEF s
  <2>2. IsConcat(a \o s, a, s)
    BY <1>2, <2>1, ConcatSeq
  <2>3. b = a \o s
    BY DEF s
  <2> HIDE DEF b
  <2> QED
    BY <1>2, <2>1, <2>2, <2>3 DEF IsConcat
<1> HIDE DEF b
<1>4. /\ IsSeq(g) /\ Len(g) = (k + c) + Len(rest) /\ \A i \in 1 .. (k + c) : g[i] = b[i]
  <2>1. IsConcat(g, b, rest)
    BY <1>3, ConcatSeq
  <2> HIDE DEF g
  <2> QED
    BY <1>3, <2>1 DEF IsConcat
<1>5. Len(rest) \in Nat
  BY SeqProperties
<1> HIDE DEF g
<1>6. 1 \in 1 .. (k + c) /\ 2 \in 1 .. (k + c) /\ 3 \in 1 .. (k + c)
      /\ 1 \in 1 .. k /\ 2 \in 1 .. k /\ 3 \in 1 .. k
      /\ 1 \in 1 .. FooterSize /\ 2 \in 1 .. FooterSize /\ 3 \in 1 .. FooterSize
  BY <1>1
<1>7. g[1] = footer[1] /\ g[2] = footer[2] /\ g[3] = footer[3]
  <2>1. g[1] = b[1] /\ g[2] = b[2] /\ g[3] = b[3]
    BY <1>4, <1>6
  <2>2. b[1] = a[1] /\ b[2] = a[2] /\ b[3] = a[3]
    BY <1>3, <1>6
  <2>3. a[1] = footer[1] /\ a[2] = footer[2] /\ a[3] = footer[3]
    BY <1>2, <1>6
  <2> QED
    BY <2>1, <2>2, <2>3
<1>8. g[1] = c + k /\ g[2] = k /\ g[3] = n
  BY <1>7 DEF k
<1> HIDE DEF k
<1>9. ASSUME NEW i \in 1 .. c
      PROVE  g[k + i] = f[i]
  <2>1. k + i \in 1 .. (k + c)
    BY <1>1
  <2> QED
    BY <1>3, <1>4, <2>1
<1>10. c + k <= Len(g)
  BY <1>1, <1>4, <1>5
<1>11. Holds(g, f, c)
  BY <1>1, <1>4, <1>8, <1>9, <1>10 DEF Holds
<1> QED
  BY <1>8, <1>11 DEF LaidOut, g, b, a, k

LEMMA TrimmedIs ==
  ASSUME type = "blz", GivenIsFile, Room, NEW orig \in Nat, orig <= Len(data),
         NEW left, NEW c \in Nat, Len(file) - left = c, Trimmed(orig, left)
  PROVE  \/ phase' = "refused"
         \/ /\ phase' = "packed" /\ src' = 0 /\ Holds(file', file, c)
            /\ file'[3] + file'[2] = Len(data) - (orig + c)
<1> DEFINE n == Len(data)
           pad == RoundUp(orig + c, WordSize) - (orig + c)
           total == orig + c + pad + FooterSize
           three == <<total - orig, pad + FooterSize, n - total>>
           footer == three \o Fill(FooterSize - 3)
           rest == SubSeq(raw, Len(raw) - orig + 1, Len(raw))
           g == footer \o Fill(pad) \o SubSeq(file, 1, c) \o rest
<1>1. \/ phase' = "refused"
      \/ /\ ~(total >= n) /\ phase' = "packed" /\ src' = 0 /\ file' = g
  BY DEF Trimmed
<1>2. SUFFICES ASSUME ~(total >= n), phase' = "packed", src' = 0, file' = g
               PROVE  Holds(file', file, c) /\ file'[3] + file'[2] = n - (orig + c)
  BY <1>1
<1>3. n \in Nat /\ Len(raw) = n /\ FooterSize \in Nat /\ FooterSize - 3 \in Nat /\ WordSize \in Nat \ {0}
  BY RawIs, LzAssumption
<1>4. pad \in Nat
  <2> DEFINE x == orig + c
  <2>1. x \in Nat
    OBVIOUS
  <2> HIDE DEF x
  <2>2. RoundUp(x, WordSize) \in Nat /\ RoundUp(x, WordSize) >= x
    BY <1>3, <2>1, RoundUpIs
  <2>3. RoundUp(x, WordSize) - x \in Nat
    BY <2>1, <2>2
  <2> QED
    BY <2>3 DEF x
<1> HIDE DEF pad
<1>5. total \in Nat /\ n - total \in Nat /\ total - orig = c + (pad + FooterSize)
      /\ (n - total) + (pad + FooterSize) = n - (orig + c)
  BY <1>2, <1>3, <1>4
<1>6. three \in Seq(Int) /\ Len(three) = 3 /\ three[1] = total - orig
      /\ three[2] = pad + FooterSize /\ three[3] = n - total
  BY <1>3, <1>4, <1>5
<1> HIDE DEF three
<1>7. /\ IsSeq(footer) /\ Len(footer) = FooterSize
      /\ footer[1] = total - orig /\ footer[2] = pad + FooterSize /\ footer[3] = n - total
  <2> DEFINE e == Fill(FooterSize - 3)
             m == FooterSize - 3
  <2>1. IsSeq(e) /\ Len(e) = FooterSize - 3
    <3>1. m \in Nat
      BY <1>3
    <3> HIDE DEF m
    <3>2. IsSeq(Fill(m)) /\ Len(Fill(m)) = m
      BY <3>1, FillSeq
    <3> QED
      BY <3>2 DEF m
  <2> HIDE DEF e
  <2>2. IsSeq(three)
    BY <1>6 DEF IsSeq
  <2>3. IsConcat(three \o e, three, e)
    BY <2>1, <2>2, ConcatSeq
  <2>4. footer = three \o e
    BY DEF e
  <2> HIDE DEF footer, total
  <2> QED
    BY <1>3, <1>6, <2>1, <2>3, <2>4 DEF IsConcat
<1>8. IsSeq(rest)
  BY <1>3, PartSeq
<1> DEFINE more == n - total
<1>9. more \in Nat /\ footer[3] = more /\ footer[1] = c + (pad + FooterSize)
  BY <1>5, <1>7
<1> HIDE DEF footer, rest, more
<1>10. Holds(g, file, c) /\ g[2] = pad + FooterSize /\ g[3] = more
  <2>1. LaidOut(g, file, c, pad + FooterSize, more)
    BY <1>4, <1>7, <1>8, <1>9, PartsHold
  <2> HIDE DEF g
  <2> QED
    BY <2>1 DEF LaidOut
<1> HIDE DEF g
<1>11. more + (pad + FooterSize) = n - (orig + c)
  BY <1>5 DEF more
<1> QED
  BY <1>2, <1>10, <1>11

\* What is read at t is the token at t.
LEMMA TokenOf ==
  ASSUME NEW n \in Nat, NEW t, IsPoint(t), IsAt(t, n), type = "blz"
  PROVE  LET p == IF Opens THEN pos + 1 ELSE pos
             flags == IF Opens THEN file[pos + 1] ELSE flag
         IN  /\ p = TokenAt(t) /\ Turn = TurnAt(t) /\ flags = file[FlagAt(t)]
             /\ (IsMatch(flags, Turn) <=> MatchAt(file, t))
<1> DEFINE flags == IF Opens THEN file[pos + 1] ELSE flag
<1>1. pos = t.pos /\ count = t.count /\ (count # GroupSize => flag = file[t.flag])
  BY DEF IsAt
<1>2. (IF Opens THEN pos + 1 ELSE pos) = TokenAt(t) /\ Turn = TurnAt(t) /\ flags = file[FlagAt(t)]
  BY <1>1 DEF Opens, TokenAt, Turn, TurnAt, FlagAt
<1> HIDE DEF flags
<1>3. IsMatch(flags, Turn) <=> MatchAt(file, t)
  BY <1>2 DEF IsMatch, IsSet, MatchAt
<1> QED
  BY <1>2, <1>3 DEF flags

TrimGoesOn(t, orig) ==
  /\ src' = orig /\ pos' = ReadAt(file, t) /\ count' = TurnAt(t)
  /\ flag' = file[FlagAt(t)] /\ phase' = phase /\ file' = file

TrimsAt(t, orig, left) ==
  /\ AreLeft(file, Len(data), t, orig, left)
  /\ \/ MatchAt(file, t) /\ orig < left /\ Trimmed(orig, left)
     \/ ~(MatchAt(file, t) /\ orig < left) /\ orig = 0 /\ Trimmed(0, 0)
     \/ ~(MatchAt(file, t) /\ orig < left) /\ TrimGoesOn(t, orig)

LEMMA TrimIs ==
  ASSUME type = "blz", GivenIsFile, Room, NEW R, NEW t, IsTrimming(R, t), Trim
  PROVE  t.pos < Len(file) /\ data' = data /\ phase = "trimming" /\ \E orig, left : TrimsAt(t, orig, left)
<1> DEFINE n == Len(data)
           p == IF Opens THEN pos + 1 ELSE pos
           flags == IF Opens THEN file[pos + 1] ELSE flag
           match == IsMatch(flags, Turn)
           origSize == IF match THEN src - (file[p + 1] \div NibbleCodes + 3) ELSE src - 1
           read == IF match THEN p + 2 ELSE p + 1
           orig == n - (t.src + SizeAt(file, t))
           left == Len(file) - ReadAt(file, t)
<1>1. n \in Nat /\ Len(file) \in Nat
  BY RawIs, SeqProperties DEF Room
<1>2. /\ IsParse(file, R) /\ t \in R /\ IsPoint(t) /\ IsAt(t, n)
  BY DEF IsTrimming, IsParse
<1>3. t.pos < Len(file) /\ data' = data /\ phase = "trimming"
  BY <1>2 DEF Trim, Given, IsAt
<1>4. p = TokenAt(t) /\ Turn = TurnAt(t) /\ flags = file[FlagAt(t)] /\ (match <=> MatchAt(file, t))
  BY <1>1, <1>2, TokenOf
<1>5. \/ match /\ Overtaken(origSize, Len(file) - read) /\ Trimmed(origSize, Len(file) - read)
      \/ ~(match /\ Overtaken(origSize, Len(file) - read)) /\ origSize = 0 /\ Trimmed(0, 0)
      \/ /\ ~(match /\ Overtaken(origSize, Len(file) - read)) /\ src' = origSize /\ pos' = read
         /\ count' = Turn /\ flag' = flags /\ phase' = phase /\ file' = file
  BY DEF Trim
<1> HIDE DEF p, flags, match
<1>6. read = ReadAt(file, t)
  BY <1>4 DEF ReadAt
<1>7. SizeAt(file, t) \in Nat \ {0} /\ t.src \in Nat
  BY <1>1, <1>2, <1>3, NextPoint, PointProperties
<1>8. origSize = src - SizeAt(file, t)
  BY <1>4 DEF SizeAt
<1>9. src = n - t.src
  BY <1>2 DEF IsAt
<1> HIDE DEF n
<1>10. origSize = orig /\ Len(file) - read = left
  BY <1>1, <1>6, <1>7, <1>8, <1>9
<1> HIDE DEF origSize, read, orig, left
<1>11. \/ MatchAt(file, t) /\ orig < left /\ Trimmed(orig, left)
       \/ ~(MatchAt(file, t) /\ orig < left) /\ orig = 0 /\ Trimmed(0, 0)
       \/ /\ ~(MatchAt(file, t) /\ orig < left) /\ src' = orig /\ pos' = read
          /\ count' = Turn /\ flag' = flags /\ phase' = phase /\ file' = file
  BY <1>4, <1>5, <1>10 DEF Overtaken
<1>12. AreLeft(file, Len(data), t, orig, left)
  BY DEF AreLeft, orig, left, n
<1>13. TrimsAt(t, orig, left)
  BY <1>4, <1>6, <1>11, <1>12 DEF TrimsAt, TrimGoesOn
<1> QED
  BY <1>3, <1>13

LEMMA Trims ==
  ASSUME type = "blz", GivenIsFile, TrimmingInv, phase = "trimming", Trim
  PROVE  \/ phase' = "refused"
         \/ phase' = "trimming" /\ TrimmingInv'
         \/ phase' = "packed" /\ PackedInv'
<1> DEFINE n == Len(data)
<1>1. PICK R, t : IsTrimming(R, t)
  BY DEF TrimmingInv
<1>2. Room
  BY DEF TrimmingInv
<1>3. t.pos < Len(file) /\ data' = data
  BY <1>1, <1>2, TrimIs
<1>4. PICK orig, left : TrimsAt(t, orig, left)
  BY <1>1, <1>2, TrimIs
<1>5. n \in Nat /\ Len(file) \in Nat /\ IsSeq(file)
  BY <1>2, RawIs, SeqProperties DEF Room
<1>6. /\ IsParse(file, R) /\ Within(R, n) /\ t \in R /\ IsKept(file, R, n, t)
      /\ AreLeft(file, n, t, orig, left)
  BY <1>1, <1>4 DEF IsTrimming, TrimsAt
<1> DEFINE m == ReadAt(file, t)
           u == Behind(file, t)
<1>7. /\ u \in R /\ IsPoint(u) /\ u.pos = m /\ u.src = t.src + SizeAt(file, t)
      /\ u.count = TurnAt(t) /\ u.flag = FlagAt(t) /\ m <= Len(file)
  BY <1>3, <1>5, <1>6, NextPoint
<1>8. /\ orig \in Nat /\ left \in Nat /\ m = Len(file) - left
      /\ (MatchAt(file, t) /\ orig < left => IsCut(file, R, Len(file) - left, n - (orig + (Len(file) - left))))
      /\ (~(MatchAt(file, t) /\ orig < left) => IsKept(file, R, n, u))
      /\ (~(MatchAt(file, t) /\ orig < left) /\ orig = 0 => IsCut(file, R, Len(file), n - Len(file)))
  BY <1>3, <1>5, <1>6, TokenTrimmed
<1>9. orig <= n /\ u.src \in Nat /\ orig = n - u.src
  <2>1. orig = n - u.src
    BY <1>6, <1>7 DEF AreLeft
  <2>2. u.src \in Nat
    BY <1>7, PointProperties
  <2> HIDE DEF u, n
  <2> QED
    BY <1>5, <2>1, <2>2
<1> HIDE DEF n, u, m
<1>10. CASE MatchAt(file, t) /\ orig < left /\ Trimmed(orig, left)
  <2>1. Len(file) - left = m /\ m \in Nat /\ IsCut(file, R, m, n - (orig + m))
    BY <1>8, <1>10 DEF IsCut
  <2>2. \/ phase' = "refused"
        \/ /\ phase' = "packed" /\ src' = 0 /\ Holds(file', file, m)
           /\ file'[3] + file'[2] = n - (orig + m)
    BY <1>2, <1>8, <1>9, <1>10, <2>1, TrimmedIs DEF n
  <2> QED
    BY <1>5, <1>6, <2>1, <2>2 DEF PackedInv
<1>11. CASE ~(MatchAt(file, t) /\ orig < left) /\ orig = 0 /\ Trimmed(0, 0)
  <2> DEFINE c == Len(file)
  <2>1. c - 0 = c /\ 0 \in Nat /\ 0 <= n /\ 0 + c = c
    BY <1>5
  <2>2. IsCut(file, R, c, n - c)
    BY <1>8, <1>11
  <2>3. c \in Nat /\ Len(file) - 0 = c
    BY <1>5
  <2> HIDE DEF c
  <2>4. \/ phase' = "refused"
        \/ /\ phase' = "packed" /\ src' = 0 /\ Holds(file', file, c)
           /\ file'[3] + file'[2] = n - (0 + c)
    BY <1>2, <1>11, <2>1, <2>3, TrimmedIs DEF n
  <2> QED
    BY <1>5, <1>6, <2>1, <2>2, <2>4 DEF PackedInv
<1>12. CASE ~(MatchAt(file, t) /\ orig < left) /\ TrimGoesOn(t, orig)
  <2>1. IsKept(file, R, n, u)
    BY <1>8, <1>12
  <2>2. /\ src' = orig /\ pos' = m /\ count' = TurnAt(t) /\ flag' = file[FlagAt(t)]
        /\ phase' = "trimming" /\ file' = file
    BY <1>12 DEF TrimGoesOn, m
  <2>3. PICK w, k : w = u /\ k = n
    OBVIOUS
  <2>4. IsAt(w, k)'
    <3>1. src' = k - w.src /\ pos' = w.pos /\ count' = w.count /\ flag' = file'[w.flag]
      BY <1>7, <1>9, <2>2, <2>3
    <3> QED
      BY <3>1 DEF IsAt
  <2>6. k = Len(data')
    BY <1>3, <2>3 DEF n
  <2>7. IsTrimming(R, w)'
    BY <1>6, <1>7, <2>1, <2>2, <2>3, <2>4, <2>6 DEF IsTrimming
  <2>5. Room'
    BY <1>2, <1>3, <2>2 DEF Room
  <2> QED
    BY <2>2, <2>5, <2>7 DEF TrimmingInv
<1> QED
  BY <1>4, <1>10, <1>11, <1>12 DEF TrimsAt

-----------------------------------------------------------------------------
(* CBackwardLz77::Uncompress in place                                      *)

\* The code from t on is still in the buffer, behind its first b bytes.
IsAhead(f, c, b, t) ==
  /\ IsSeq(dest) /\ b + c <= Len(dest)
  /\ \A i \in (t.pos + 1) .. c : dest[b + i] = f[i]

IsReading(f, c, b, t) ==
  /\ b \in Nat /\ t.pos < c /\ end = b + c /\ pos = b + t.pos /\ src = t.src /\ count = t.count
  /\ count # GroupSize => flag = f[t.flag]

IsUnpacking(f, R, c, b, t) ==
  /\ IsSeq(f) /\ IsParse(f, R) /\ IsCut(f, R, c, b) /\ t \in R
  /\ IsReading(f, c, b, t) /\ IsAhead(f, c, b, t)

UnpackingInv == \E f, R, c, b, t : IsUnpacking(f, R, c, b, t)

LEMMA UnpackingStarts ==
  ASSUME type = "blz", PackedInv, StartUnpackingBlz
  PROVE  phase' = "error" \/ (phase' = "unpacking" /\ UnpackingInv')
<1> DEFINE top == file[1]
           bottom == file[2]
           more == file[3]
           d == Fill(more) \o file
           b == more + bottom
<1>1. PICK f, R, c : IsSeq(f) /\ IsParse(f, R) /\ Holds(file, f, c) /\ IsCut(f, R, c, more + bottom)
  BY DEF PackedInv
<1>2. src' = src /\ src = 0 /\ count' = GroupSize
  BY DEF StartUnpackingBlz, PackedInv
<1>3. \/ phase' = "error"
      \/ phase' = "unpacking" /\ dest' = d /\ pos' = b /\ end' = more + top
  BY DEF StartUnpackingBlz, Failed
<1>4. SUFFICES ASSUME phase' = "unpacking", dest' = d, pos' = b, end' = more + top
               PROVE  UnpackingInv'
  BY <1>3
<1>5. /\ IsSeq(file) /\ bottom \in Nat /\ more \in Nat /\ c \in Nat \ {0} /\ top = c + bottom
      /\ c + bottom <= Len(file) /\ Len(file) \in Nat
  BY <1>1, SeqProperties DEF Holds, IsCut
<1>6. IsSeq(Fill(more)) /\ Len(Fill(more)) = more
  BY <1>5, FillSeq
<1>7. IsConcat(d, Fill(more), file)
  BY <1>5, <1>6, ConcatSeq
<1>8. \A i \in 1 .. c : file[bottom + i] = f[i]
  BY <1>1 DEF Holds
<1> HIDE DEF d, bottom, more, top
<1>9. b \in Nat /\ b + c = more + top
  BY <1>5
<1>10. IsSeq(d) /\ Len(d) = more + Len(file) /\ \A i \in 1 .. Len(file) : d[more + i] = file[i]
  BY <1>6, <1>7 DEF IsConcat
<1>11. b + c <= Len(d)
  BY <1>5, <1>10
<1>12. ASSUME NEW i \in 1 .. c
       PROVE  d[b + i] = f[i]
  <2>1. bottom + i \in 1 .. Len(file) /\ b + i = more + (bottom + i)
    BY <1>5
  <2> QED
    BY <1>8, <1>10, <2>1
<1> HIDE DEF b
<1>13. Start \in R /\ Start.pos = 0 /\ Start.src = 0 /\ Start.count = GroupSize
  BY <1>1 DEF IsParse, Start
<1>14. PICK k : k = b
  OBVIOUS
<1>15. IsReading(f, c, k, Start)'
  <2>1. 0 < c /\ k + 0 = k /\ k \in Nat
    BY <1>5, <1>9, <1>14
  <2> QED
    BY <1>2, <1>4, <1>9, <1>13, <1>14, <2>1 DEF IsReading
<1>16. IsAhead(f, c, k, Start)'
  <2>1. 0 + 1 = 1
    OBVIOUS
  <2> QED
    BY <1>4, <1>10, <1>11, <1>12, <1>13, <1>14, <2>1 DEF IsAhead
<1>17. IsCut(f, R, c, k)
  BY <1>1, <1>14 DEF b, bottom, more
<1> QED
  BY <1>1, <1>13, <1>15, <1>16, <1>17 DEF UnpackingInv, IsUnpacking

\* The bytes of the token at t are there.
LEMMA TokenAhead ==
  ASSUME type = "blz", NEW f, NEW R, NEW c, NEW b, NEW t, IsUnpacking(f, R, c, b, t)
  PROVE  LET p == IF Opens THEN pos + 1 ELSE pos
             flags == IF Opens THEN dest[pos + 1] ELSE flag
         IN  /\ p = b + TokenAt(t) /\ Turn = TurnAt(t) /\ flags = f[FlagAt(t)]
             /\ (IsMatch(flags, Turn) <=> MatchAt(f, t))
             /\ dest[p + 1] = f[TokenAt(t) + 1]
<1> DEFINE flags == IF Opens THEN dest[pos + 1] ELSE flag
           p == IF Opens THEN pos + 1 ELSE pos
<1>1. /\ b \in Nat /\ c \in Nat /\ t.pos < c /\ pos = b + t.pos /\ count = t.count
      /\ (count # GroupSize => flag = f[t.flag])
      /\ \A i \in (t.pos + 1) .. c : dest[b + i] = f[i]
  BY DEF IsUnpacking, IsReading, IsCut, IsAhead
<1>2. PICK r \in R : r.pos = c
  BY DEF IsUnpacking, IsCut
<1>3. IsParse(f, R) /\ t \in R /\ IsPoint(t) /\ Len(f) \in Nat /\ c <= Len(f)
  BY <1>2, SeqProperties DEF IsUnpacking, IsParse
<1>4. TokenAt(t) + 1 <= c
  <2>1. ReadAt(f, t) <= c
    BY <1>1, <1>2, <1>3 DEF IsParse
  <2>2. ReadAt(f, t) >= TokenAt(t) + 1 /\ ReadAt(f, t) \in Nat /\ TokenAt(t) \in Nat
    BY <1>3, ReadIs, PointProperties
  <2> QED
    BY <1>1, <2>1, <2>2
<1>5. t.pos \in Nat /\ TokenAt(t) \in Nat /\ t.pos <= TokenAt(t)
  BY <1>3, PointProperties
<1>6. p = b + TokenAt(t) /\ Turn = TurnAt(t) /\ (Opens <=> t.count = GroupSize)
  BY <1>1, <1>5 DEF Opens, TokenAt, Turn, TurnAt
<1>7. flags = f[FlagAt(t)]
  <2>1. CASE Opens
    <3>1. FlagAt(t) = t.pos + 1 /\ flags = dest[pos + 1] /\ pos + 1 = b + (t.pos + 1)
      BY <1>1, <1>5, <1>6, <2>1 DEF FlagAt
    <3>2. t.pos + 1 \in (t.pos + 1) .. c
      BY <1>1, <1>5
    <3> HIDE DEF flags
    <3> QED
      BY <1>1, <3>1, <3>2
  <2>2. CASE ~Opens
    BY <1>1, <1>6, <2>2 DEF FlagAt
  <2> QED
    BY <2>1, <2>2
<1> HIDE DEF flags, p
<1>8. IsMatch(flags, Turn) <=> MatchAt(f, t)
  BY <1>6, <1>7 DEF IsMatch, IsSet, MatchAt
<1>9. dest[p + 1] = f[TokenAt(t) + 1]
  <2>1. p + 1 = b + (TokenAt(t) + 1) /\ TokenAt(t) + 1 \in (t.pos + 1) .. c
    BY <1>1, <1>4, <1>5, <1>6
  <2> QED
    BY <1>1, <2>1
<1> QED
  BY <1>6, <1>7, <1>8, <1>9 DEF flags, p

LEMMA MatchReadIs ==
  ASSUME type = "blz", NEW f, Len(f) >= 2
  PROVE  MatchRead(f).size = f[1] \div NibbleCodes + 3
<1>1. ~(type = "lzex") /\ ~(type = "yaz0")
  OBVIOUS
<1>2. Len(f) < 2 <=> FALSE
  OBVIOUS
<1> QED
  BY <1>1, <1>2 DEF MatchRead

LEMMA CopiedIs ==
  ASSUME NEW d, IsSeq(d), NEW m, m.size \in Nat
  PROVE  IsSeq(Copied(d, m)) /\ Len(Copied(d, m)) = Len(d) + m.size
<1> DEFINE n == Len(d) + m.size
           g == Copied(d, m)
<1>1. n \in Nat
  BY SeqProperties
<1>2. g = [k \in 1 .. n |-> g[k]]
  BY DEF Copied
<1> HIDE DEF g, n
<1>3. IsSeq(g) /\ Len(g) = n
  BY <1>1, <1>2, TupleSeq
<1> QED
  BY <1>3 DEF g, n

LEMMA TokenTaken ==
  ASSUME type = "blz", NEW f, NEW R, NEW c, NEW b, NEW t, IsUnpacking(f, R, c, b, t), TakeBlz
  PROVE  \/ phase' = "error"
         \/ /\ phase' = IF pos' < end THEN "unpacking" ELSE "restored"
            /\ end' = end /\ count' = TurnAt(t) /\ flag' = f[FlagAt(t)]
            /\ pos' = b + ReadAt(f, t) /\ src' = t.src + SizeAt(f, t)
            /\ \E written : /\ IsSeq(written) /\ Len(written) = t.src + SizeAt(f, t)
                            /\ dest' = written \o SubSeq(dest, Len(written) + 1, Len(dest))
<1> DEFINE p == IF Opens THEN pos + 1 ELSE pos
           flags == IF Opens THEN dest[pos + 1] ELSE flag
           match == IsMatch(flags, Turn)
           m == MatchRead(SubSeq(dest, p + 1, Len(dest)))
           before == SubSeq(dest, 1, src)
           written == IF match THEN Copied(before, m) ELSE before \o <<dest[p + 1]>>
<1>1. /\ p = b + TokenAt(t) /\ Turn = TurnAt(t) /\ flags = f[FlagAt(t)]
      /\ (match <=> MatchAt(f, t)) /\ dest[p + 1] = f[TokenAt(t) + 1]
  BY TokenAhead
<1>2. count' = Turn /\ end' = end
  BY DEF TakeBlz
<1>3. \/ phase' = "error"
      \/ /\ ~(match /\ (\/ p + 2 > end \/ m.size > end - src \/ m.offset > src))
         /\ dest' = written \o SubSeq(dest, Len(written) + 1, Len(dest))
         /\ src' = Len(written) /\ pos' = (IF match THEN p + 2 ELSE p + 1) /\ flag' = flags
         /\ phase' = IF pos' < end THEN "unpacking" ELSE "restored"
  BY DEF TakeBlz, Failed
<1> HIDE DEF flags, match
<1>4. /\ b \in Nat /\ c \in Nat /\ end = b + c /\ src = t.src /\ t \in R
      /\ IsSeq(dest) /\ Len(dest) \in Nat /\ b + c <= Len(dest)
  BY SeqProperties DEF IsUnpacking, IsReading, IsCut, IsAhead
<1>5. PICK r \in R : r.pos = c
  BY DEF IsUnpacking, IsCut
<1>6. IsParse(f, R) /\ IsPoint(t) /\ Len(f) \in Nat /\ t.pos < c /\ c <= Len(f)
  BY <1>4, <1>5, SeqProperties DEF IsUnpacking, IsParse, IsReading
<1>7. TokenAt(t) \in Nat /\ t.pos \in Nat /\ src \in Nat
  BY <1>4, <1>6, PointProperties
<1>8. t.pos < Len(f)
  BY <1>4, <1>6, <1>7
<1>9. SizeAt(f, t) \in Nat \ {0} /\ ReadAt(f, t) = TokenAt(t) + (IF MatchAt(f, t) THEN 2 ELSE 1)
  BY <1>4, <1>6, <1>8, NextPoint DEF ReadAt
<1>10. ReadAt(f, t) <= c
  BY <1>4, <1>5, <1>6 DEF IsParse
<1>11. (IF match THEN p + 2 ELSE p + 1) = b + ReadAt(f, t)
  <2> HIDE DEF p
  <2>1. CASE match
    BY <1>1, <1>4, <1>7, <1>9, <2>1
  <2>2. CASE ~match
    BY <1>1, <1>4, <1>7, <1>9, <2>2
  <2> QED
    BY <2>1, <2>2
<1>12. IsSeq(before) /\ Len(before) = src
  BY <1>7, FirstSeq
<1> HIDE DEF before
<1>13. IsSeq(written) /\ Len(written) = t.src + SizeAt(f, t)
  <2>1. CASE match
    <3> DEFINE rest == SubSeq(dest, p + 1, Len(dest))
    <3>1. MatchAt(f, t) /\ ReadAt(f, t) = TokenAt(t) + 2
      BY <1>1, <1>9, <2>1
    <3> HIDE DEF p
    <3>2. p + 2 <= Len(dest) /\ p \in Nat /\ p + 1 \in Nat
      <4>1. p = b + TokenAt(t) /\ p \in Nat
        BY <1>1, <1>4, <1>7
      <4>2. TokenAt(t) + 2 <= c
        BY <1>10, <3>1
      <4> QED
        BY <1>4, <1>7, <4>1, <4>2
    <3>3. Len(rest) >= 2 /\ rest[1] = dest[p + 1]
      <4> DEFINE q == p + 1
                 k == Len(dest)
      <4>1. q \in Int /\ k \in Int /\ q <= k /\ k - q + 1 >= 2 /\ 1 \in 1 .. k - q + 1 /\ q + 1 - 1 = q
        BY <1>4, <3>2
      <4> HIDE DEF q, k
      <4>2. /\ Len(SubSeq(dest, q, k)) = IF q <= k THEN k - q + 1 ELSE 0
            /\ \A i \in 1 .. k - q + 1 : SubSeq(dest, q, k)[i] = dest[q + i - 1]
        BY <4>1, PartSeq
      <4>3. Len(SubSeq(dest, q, k)) >= 2 /\ SubSeq(dest, q, k)[1] = dest[q]
        BY <4>1, <4>2
      <4> QED
        BY <4>3 DEF q, k
    <3>4. m = MatchRead(rest)
      OBVIOUS
    <3> HIDE DEF m, rest
    <3>5. m.size = rest[1] \div NibbleCodes + 3
      BY <3>3, <3>4, MatchReadIs
    <3>6. m.size = SizeAt(f, t) /\ m.size \in Nat
      BY <1>1, <1>9, <3>1, <3>3, <3>5 DEF SizeAt
    <3>7. IsSeq(Copied(before, m)) /\ Len(Copied(before, m)) = Len(before) + m.size
      BY <1>12, <3>6, CopiedIs
    <3> QED
      BY <1>4, <1>12, <2>1, <3>6, <3>7
  <2>2. CASE ~match
    <3> DEFINE one == <<dest[p + 1]>>
    <3>1. IsSeq(one) /\ Len(one) = 1
      BY OneSeq
    <3>2. written = before \o one
      BY <2>2
    <3> HIDE DEF one, written
    <3>3. IsConcat(written, before, one)
      BY <1>12, <3>1, <3>2, ConcatSeq
    <3>4. SizeAt(f, t) = 1
      BY <1>1, <2>2 DEF SizeAt
    <3> QED
      BY <1>4, <1>12, <3>1, <3>3, <3>4 DEF IsConcat
  <2> QED
    BY <2>1, <2>2
<1> HIDE DEF p, m, written
<1> QED
  BY <1>1, <1>2, <1>3, <1>11, <1>13

LEMMA BlzTaken ==
  ASSUME type = "blz", UnpackingInv, TakeBlz
  PROVE  phase' = "error" \/ phase' = "restored" \/ (phase' = "unpacking" /\ UnpackingInv')
<1>1. PICK f, R, c, b, t : IsUnpacking(f, R, c, b, t)
  BY DEF UnpackingInv
<1> DEFINE u == Behind(f, t)
<1>2. \/ phase' = "error"
      \/ /\ phase' = IF pos' < end THEN "unpacking" ELSE "restored"
         /\ end' = end /\ count' = TurnAt(t) /\ flag' = f[FlagAt(t)]
         /\ pos' = b + ReadAt(f, t) /\ src' = t.src + SizeAt(f, t)
         /\ \E written : /\ IsSeq(written) /\ Len(written) = t.src + SizeAt(f, t)
                         /\ dest' = written \o SubSeq(dest, Len(written) + 1, Len(dest))
  BY <1>1, TokenTaken
<1>3. SUFFICES ASSUME /\ phase' = "unpacking" /\ pos' < end
                      /\ end' = end /\ count' = TurnAt(t) /\ flag' = f[FlagAt(t)]
                      /\ pos' = b + ReadAt(f, t) /\ src' = t.src + SizeAt(f, t),
                      NEW written, IsSeq(written), Len(written) = t.src + SizeAt(f, t),
                      dest' = written \o SubSeq(dest, Len(written) + 1, Len(dest))
               PROVE  UnpackingInv'
  BY <1>2
<1>4. /\ b \in Nat /\ c \in Nat \ {0} /\ end = b + c /\ t \in R /\ t.pos < c
      /\ IsSeq(dest) /\ Len(dest) \in Nat /\ b + c <= Len(dest)
      /\ IsSeq(f) /\ IsParse(f, R) /\ IsCut(f, R, c, b) /\ Len(f) \in Nat
  BY <1>1, SeqProperties DEF IsUnpacking, IsReading, IsCut, IsAhead
<1>5. c <= Len(f) /\ t.pos \in Nat /\ t.pos < Len(f)
  <2>1. PICK r \in R : r.pos = c
    BY <1>4 DEF IsCut
  <2>2. IsPoint(t) /\ c <= Len(f)
    BY <1>4, <2>1 DEF IsParse
  <2> QED
    BY <1>4, <2>2, PointProperties
<1>6. /\ u \in R /\ IsPoint(u) /\ u.pos = ReadAt(f, t) /\ u.src = t.src + SizeAt(f, t)
      /\ u.count = TurnAt(t) /\ u.flag = FlagAt(t) /\ t.pos < ReadAt(f, t)
  BY <1>4, <1>5, NextPoint
<1> HIDE DEF u
<1>7. u.pos \in Nat /\ u.src \in Nat
  BY <1>6, PointProperties
<1>8. u.pos < c
  <2>1. b + u.pos < b + c
    BY <1>3, <1>4, <1>6
  <2> QED
    BY <1>4, <1>7, <2>1
<1>9. u.src <= b + u.pos
  BY <1>4, <1>6, <1>8 DEF IsCut
<1>10. IsReading(f, c, b, u)'
  BY <1>3, <1>4, <1>6, <1>8 DEF IsReading
<1>11. IsAhead(f, c, b, u)'
  <2> DEFINE k == Len(written)
             n == Len(dest)
             rest == SubSeq(dest, k + 1, n)
             q == k + 1
  <2>1. k = u.src /\ k \in Nat /\ k <= b + u.pos /\ k < n
    BY <1>3, <1>4, <1>6, <1>7, <1>8, <1>9
  <2>2. IsSeq(rest) /\ Len(rest) = n - k /\ \A i \in 1 .. n - k : rest[i] = dest[k + i]
    <3>1. q \in Int /\ n \in Int /\ q <= n /\ n - q + 1 = n - k
      BY <1>4, <2>1
    <3> HIDE DEF q, n
    <3>2. /\ IsSeq(SubSeq(dest, q, n)) /\ Len(SubSeq(dest, q, n)) = IF q <= n THEN n - q + 1 ELSE 0
          /\ \A i \in 1 .. n - q + 1 : SubSeq(dest, q, n)[i] = dest[q + i - 1]
      BY <3>1, PartSeq
    <3>3. \A i \in 1 .. n - k : q + i - 1 = k + i
      BY <2>1, <3>1 DEF q
    <3>4. IsSeq(SubSeq(dest, q, n)) /\ Len(SubSeq(dest, q, n)) = n - k
          /\ \A i \in 1 .. n - k : SubSeq(dest, q, n)[i] = dest[k + i]
      BY <3>1, <3>2, <3>3
    <3> QED
      BY <3>4 DEF q
  <2> HIDE DEF rest
  <2>3. IsConcat(written \o rest, written, rest)
    BY <1>3, <2>2, ConcatSeq
  <2>4. dest' = written \o rest
    BY <1>3 DEF rest
  <2> DEFINE g == dest'
  <2>5. g = written \o rest
    BY <2>4
  <2> HIDE DEF g
  <2>6. IsConcat(g, written, rest)
    BY <2>3, <2>5
  <2> HIDE DEF k, n
  <2>7. IsSeq(g) /\ Len(g) = k + Len(rest) /\ \A i \in 1 .. Len(rest) : g[k + i] = rest[i]
    BY <2>6 DEF IsConcat, k
  <2>8. Len(g) = n /\ n \in Nat
    BY <1>4, <2>1, <2>2, <2>7 DEF n
  <2>9. ASSUME NEW i \in (u.pos + 1) .. c
        PROVE  g[b + i] = f[i]
    <3> DEFINE y == b + i
           j == y - k
           x == u.pos
    <3>1. x \in Nat /\ i \in (x + 1) .. c /\ k <= b + x
      BY <1>7, <2>1
    <3> HIDE DEF x
    <3>2. i \in Nat /\ k < y /\ y <= b + c
      BY <1>4, <2>1, <3>1
    <3>3. y <= n
      BY <1>4, <2>8, <3>2 DEF n
    <3>4. y \in Nat /\ k \in Nat /\ n \in Nat
      BY <1>4, <2>1, <2>8, <3>2
    <3>5. dest[y] = f[i]
      <4>1. i \in (t.pos + 1) .. c
        BY <1>4, <1>5, <1>6, <1>7
      <4> QED
        BY <1>1, <4>1 DEF IsUnpacking, IsAhead
    <3> HIDE DEF y
    <3>6. j \in 1 .. n - k /\ k + j = y
      BY <3>2, <3>3, <3>4
    <3> HIDE DEF j
    <3>7. g[y] = rest[j] /\ rest[j] = dest[k + j]
      BY <2>2, <2>7, <3>6
    <3>8. g[y] = f[i]
      BY <3>5, <3>6, <3>7
    <3> QED
      BY <3>8 DEF y
  <2>10. b + c <= Len(g)
    BY <1>4, <2>8 DEF n
  <2> QED
    BY <2>7, <2>9, <2>10 DEF IsAhead, g
<1>12. IsUnpacking(f, R, c, b, u)'
  BY <1>4, <1>6, <1>10, <1>11 DEF IsUnpacking
<1> QED
  BY <1>12 DEF UnpackingInv

-----------------------------------------------------------------------------
(* The tool at work                                                        *)

BlzInv ==
  /\ phase \in {"raw", "packing", "trimming", "packed", "unpacking", "refused", "error",
                "restored", "undefined"}
  /\ phase = "raw" => RawInv
  /\ phase = "packing" => PackingInv
  /\ phase = "trimming" => TrimmingInv
  /\ phase = "packed" => PackedInv
  /\ phase = "unpacking" => UnpackingInv

CompressionInv == GivenIsFile /\ (type = "blz" => BlzInv)

LEMMA CompressionStarts == CompressionInit => CompressionInv
<1> SUFFICES ASSUME CompressionInit PROVE CompressionInv
  OBVIOUS
<1>1. GivenIsFile
  BY CoderAssumption DEF CompressionInit, CoderInit, GivenIsFile
<1>2. phase = "raw" /\ RawInv
  BY DEF CompressionInit, CoderInit, LzInit, RawInv
<1> QED
  BY <1>1, <1>2 DEF CompressionInv, BlzInv

\* No step changes what the tool was given.
LEMMA GivenStays ==
  ASSUME CompressionNext
  PROVE  type' = type /\ data' = data
<1>1. CASE LzNext
  <2>1. CASE StartPacking
    BY <2>1 DEF StartPacking, Given
  <2>2. CASE PutByte
    BY <2>2 DEF PutByte, Given
  <2>3. CASE PutMatch
    BY <2>3 DEF PutMatch, Given
  <2>4. CASE FinishPacking
    BY <2>4 DEF FinishPacking, Given
  <2>5. CASE StartTrimming
    BY <2>5 DEF StartTrimming, Given
  <2>6. CASE Trim
    BY <2>6 DEF Trim, Given
  <2>7. CASE TrimPastCode
    BY <2>7 DEF TrimPastCode, Given
  <2>8. CASE StartUnpacking
    BY <2>8 DEF StartUnpacking, Given
  <2>9. CASE Take
    BY <2>9 DEF Take, Given
  <2>10. CASE StartUnpackingBlz
    BY <2>10 DEF StartUnpackingBlz, Given
  <2>11. CASE TakeBlz
    BY <2>11 DEF TakeBlz, Given
  <2> QED
    BY <1>1, <2>1, <2>2, <2>3, <2>4, <2>5, <2>6, <2>7, <2>8, <2>9, <2>10, <2>11 DEF LzNext
<1>2. CASE RunLengthNext
  <2>1. CASE RlStartPacking
    BY <2>1 DEF RlStartPacking, Given
  <2>2. CASE RlPut
    BY <2>2 DEF RlPut, Given
  <2>3. CASE RlFinishPacking
    BY <2>3 DEF RlFinishPacking, Given
  <2>4. CASE RlStartUnpacking
    BY <2>4 DEF RlStartUnpacking, Given
  <2>5. CASE RlTake
    BY <2>5 DEF RlTake, Given
  <2> QED
    BY <1>2, <2>1, <2>2, <2>3, <2>4, <2>5 DEF RunLengthNext
<1>3. CASE HuffmanNext
  <2>1. CASE HuffmanStart
    BY <2>1 DEF HuffmanStart, Given
  <2>2. CASE Merge
    BY <2>2 DEF Merge, Given
  <2>3. CASE MergeDone
    BY <2>3 DEF MergeDone, Given
  <2>4. CASE MakeSubset
    BY <2>4 DEF MakeSubset, Given
  <2>5. CASE MakeSubsetRow
    BY <2>5 DEF MakeSubsetRow, Given
  <2>6. CASE SetOneNode
    BY <2>6 DEF SetOneNode, Given
  <2>7. CASE WriteCode
    BY <2>7 DEF WriteCode, Given
  <2>8. CASE HuffmanStartUnpacking
    BY <2>8 DEF HuffmanStartUnpacking, Given
  <2>9. CASE TakeWord
    BY <2>9 DEF TakeWord, Given
  <2> QED
    BY <1>3, <2>1, <2>2, <2>3, <2>4, <2>5, <2>6, <2>7, <2>8, <2>9 DEF HuffmanNext
<1>4. CASE CutShort /\ UNCHANGED <<dest, Given, pos, LzOwn, RunLengthVars, HuffmanVars>>
  BY <1>4 DEF Given
<1> QED
  BY <1>1, <1>2, <1>3, <1>4 DEF CompressionNext

\* The steps of blz are CBackwardLz77's own.
LEMMA StepsOfBlz ==
  ASSUME type = "blz", BlzInv, CompressionNext
  PROVE  \/ StartPacking \/ PutByte \/ PutMatch \/ StartTrimming \/ Trim \/ TrimPastCode
         \/ StartUnpackingBlz \/ TakeBlz
<1>1. ~FinishPacking /\ ~StartUnpacking /\ ~Take
  BY DEF FinishPacking, StartUnpacking, Take
<1>2. ~RunLengthNext
  BY DEF RunLengthNext, RlStartPacking, RlPut, RlFinishPacking, RlStartUnpacking, RlTake
<1>3. ~CutShort
  BY DEF CutShort
<1>4. phase # "merging" /\ phase # "placing"
  BY DEF BlzInv
<1>5. ~HuffmanStart /\ ~HuffmanStartUnpacking /\ ~TakeWord
  BY DEF HuffmanStart, HuffmanStartUnpacking, TakeWord, HuffmanTypes
<1>6. ~Merge /\ ~MergeDone
  BY <1>4 DEF Merge, MergeDone
<1>7. ~MakeSubset /\ ~MakeSubsetRow /\ ~SetOneNode /\ ~WriteCode
  BY <1>4 DEF MakeSubset, MakeSubsetRow, SetOneNode, WriteCode, Placing
<1>8. ~HuffmanNext
  BY <1>5, <1>6, <1>7 DEF HuffmanNext
<1> QED
  BY <1>1, <1>2, <1>3, <1>8 DEF CompressionNext, LzNext

LEMMA BlzStep ==
  ASSUME type = "blz", GivenIsFile, BlzInv, CompressionNext
  PROVE  BlzInv'
<1>1. CASE StartPacking
  <2>1. RawInv
    BY <1>1 DEF StartPacking, BlzInv
  <2>2. phase' = "refused" \/ (phase' = "packing" /\ PackingInv')
    BY <1>1, <2>1, PackingStarts
  <2> QED
    BY <2>2 DEF BlzInv
<1>2. CASE PutByte
  <2>1. PackingInv
    BY <1>2 DEF PutByte, Coding, BlzInv
  <2>2. phase' = "refused" \/ (phase' = "packing" /\ PackingInv')
    BY <1>2, <2>1, BytePacked
  <2> QED
    BY <2>2 DEF BlzInv
<1>3. CASE PutMatch
  <2>1. PackingInv
    BY <1>3 DEF PutMatch, Coding, BlzInv
  <2>2. phase' = "refused" \/ (phase' = "packing" /\ PackingInv')
    BY <1>3, <2>1, MatchPacked
  <2> QED
    BY <2>2 DEF BlzInv
<1>4. CASE StartTrimming
  <2>1. PackingInv
    BY <1>4 DEF StartTrimming, Coding, BlzInv
  <2>2. phase' = "trimming" /\ TrimmingInv'
    BY <1>4, <2>1, TrimmingStarts
  <2> QED
    BY <2>2 DEF BlzInv
<1>5. CASE Trim
  <2>1. phase = "trimming" /\ TrimmingInv
    BY <1>5 DEF Trim, BlzInv
  <2>2. \/ phase' = "refused"
        \/ phase' = "trimming" /\ TrimmingInv'
        \/ phase' = "packed" /\ PackedInv'
    BY <1>5, <2>1, Trims
  <2> QED
    BY <2>2 DEF BlzInv
<1>6. CASE TrimPastCode
  <2>1. phase' = "undefined"
    BY <1>6 DEF TrimPastCode
  <2> QED
    BY <2>1 DEF BlzInv
<1>7. CASE StartUnpackingBlz
  <2>1. PackedInv
    BY <1>7 DEF StartUnpackingBlz, BlzInv
  <2>2. phase' = "error" \/ (phase' = "unpacking" /\ UnpackingInv')
    BY <1>7, <2>1, UnpackingStarts
  <2> QED
    BY <2>2 DEF BlzInv
<1>8. CASE TakeBlz
  <2>1. UnpackingInv
    BY <1>8 DEF TakeBlz, BlzInv
  <2>2. phase' = "error" \/ phase' = "restored" \/ (phase' = "unpacking" /\ UnpackingInv')
    BY <1>8, <2>1, BlzTaken
  <2> QED
    BY <2>2 DEF BlzInv
<1> QED
  BY <1>1, <1>2, <1>3, <1>4, <1>5, <1>6, <1>7, <1>8, StepsOfBlz

LEMMA BlzStutter ==
  ASSUME BlzInv, UNCHANGED compressionVars
  PROVE  BlzInv'
<1>1. /\ type' = type /\ data' = data /\ phase' = phase /\ file' = file /\ dest' = dest /\ pos' = pos
      /\ src' = src /\ count' = count /\ flag' = flag /\ last' = last /\ end' = end
  BY DEF compressionVars, CoderVars, LzOwn, LzVars
<1>2. RawInv => RawInv'
  BY <1>1 DEF RawInv
<1>3. PackingInv => PackingInv'
  BY <1>1 DEF PackingInv, Room, EndPoint
<1>4. TrimmingInv => TrimmingInv'
  BY <1>1 DEF TrimmingInv, Room, IsTrimming, IsAt
<1>5. PackedInv => PackedInv'
  BY <1>1 DEF PackedInv
<1>6. UnpackingInv => UnpackingInv'
  BY <1>1 DEF UnpackingInv, IsUnpacking, IsReading, IsAhead
<1> QED
  BY <1>1, <1>2, <1>3, <1>4, <1>5, <1>6 DEF BlzInv

LEMMA CompressionStep == CompressionInv /\ [CompressionNext]_compressionVars => CompressionInv'
<1> SUFFICES ASSUME CompressionInv, [CompressionNext]_compressionVars
             PROVE  CompressionInv'
  OBVIOUS
<1>1. CASE CompressionNext
  <2>1. type' = type /\ data' = data
    BY <1>1, GivenStays
  <2>2. type = "blz" => BlzInv'
    BY <1>1, BlzStep DEF CompressionInv
  <2> QED
    BY <2>1, <2>2 DEF CompressionInv, GivenIsFile
<1>2. CASE UNCHANGED compressionVars
  <2>1. type' = type /\ data' = data
    BY <1>2 DEF compressionVars, CoderVars
  <2>2. type = "blz" => BlzInv'
    BY <1>2, BlzStutter DEF CompressionInv
  <2> QED
    BY <2>1, <2>2 DEF CompressionInv, GivenIsFile
<1> QED
  BY <1>1, <1>2

LEMMA ReaderStaysAhead == CompressionInv => InPlaceKeepsInput
<1> SUFFICES ASSUME CompressionInv, phase = "unpacking", type = "blz", pos < end
             PROVE  src <= pos
  BY DEF InPlaceKeepsInput
<1>1. PICK f, R, c, b, t : IsUnpacking(f, R, c, b, t)
  BY DEF CompressionInv, BlzInv, UnpackingInv
<1>2. IsCut(f, R, c, b) /\ t \in R /\ t.pos < c /\ pos = b + t.pos /\ src = t.src
  BY <1>1 DEF IsUnpacking, IsReading
<1> QED
  BY <1>2 DEF IsCut

(* CBackwardLz77::Uncompress never writes over code that it has yet to     *)
(* read, whatever the file, the window and the sizes of the fields: what   *)
(* the second pass of CBackwardLz77::Compress leaves as it is makes up for *)
(* every byte that the code is longer than what it stands for.             *)
THEOREM InputKept == CompressionSpec => []InPlaceKeepsInput
<1>1. CompressionSpec => []CompressionInv
  BY CompressionStarts, CompressionStep, PTL DEF CompressionSpec
<1> QED
  BY <1>1, ReaderStaysAhead, PTL
=============================================================================
