------------------------------- MODULE Huffman -------------------------------
(***************************************************************************)
(* The Huffman coder (CHuffman): "h8" codes bytes, "h4" half bytes.  Four  *)
(* passes: merge the rarest symbols into a tree (constructTree), place the *)
(* tree's nodes in a table whose entries say how far below their children  *)
(* are (makeHuffTree), write the table and the code, and read them back.   *)
(* An entry has few bits for the distance, so that the order in which      *)
(* nodes are placed matters: a subtree goes in whole when everything that  *)
(* still waits can be reached from its place afterwards.                   *)
(***************************************************************************)
EXTENDS Coder, FiniteSetsExt, SequencesExt

CONSTANTS
    HalfCodes,      \* the values of half a byte, 16
    OffsetLimit     \* what an entry holds for the distance, 64

ASSUME HuffmanAssumption ==
    HalfCodes \in Nat \ 0 .. 1 /\ OffsetLimit \in Nat \ {0}

VARIABLES
    freq,       \* Freq of the nodes without a parent
    kids,       \* ChNo of the inner nodes, which are numbered in the order of
                \* their merge
    needs,      \* TreeCtrl: the entries, <<row, side>>, that wait for the
                \* place of their node, and the node
    table,      \* Tree: the entries that are filled
    treeTop,    \* the rows of Tree in use
    subset,     \* the row makeSubsetHuffTree has come to, 0 outside of it
    length      \* the uncompressed size in symbols

HuffmanVars == <<freq, kids, needs, table, treeTop, subset, length>>

HuffmanTypes == {"h4", "h8"}
NoEntries == [x \in {} |-> 0]

uDataNum == IF type = "h4" THEN HalfCodes ELSE HalfCodes * HalfCodes

(* The low half of a byte comes first. *)
Symbols ==
    IF type = "h8" THEN data
    ELSE FlattenSeq([i \in DOMAIN data |->
                        <<data[i] % HalfCodes, data[i] \div HalfCodes>>])

InBytes(symbols) ==
    IF type = "h8" THEN symbols
    ELSE [i \in 1 .. Len(symbols) \div 2 |->
             symbols[2 * i - 1] + symbols[2 * i] * HalfCodes]

SymbolsPerByte == IF type = "h8" THEN 1 ELSE 2

HuffmanCapacity == RoundUp(HeaderSize(Len(data)) + 512 + Len(data) * 8, align)

-----------------------------------------------------------------------------
(* countData and constructTree *)

HuffmanStart ==
    /\ phase = "raw" /\ type \in HuffmanTypes
    /\ phase' = "merging"
    /\ freq' = [s \in ToSet(Symbols) |->
                    Cardinality({i \in DOMAIN Symbols : Symbols[i] = s})]
    /\ UNCHANGED <<Given, file, dest, whole, pos,
                   kids, needs, table, treeTop, subset, length>>

(* The rarest node of S, the first if there are several. *)
Rarest(S) == CHOOSE n \in S : \A m \in S : \/ freq[n] < freq[m]
                                           \/ (freq[n] = freq[m] /\ n <= m)

Merge ==
    /\ phase = "merging" /\ Cardinality(DOMAIN freq) > 1
    /\ LET left == Rarest(DOMAIN freq)
           right == Rarest(DOMAIN freq \ {left})
           new == uDataNum + Cardinality(DOMAIN kids)
           rest == DOMAIN freq \ {left, right}
       IN  /\ kids' = [n \in DOMAIN kids \cup {new} |->
                          IF n = new THEN <<left, right>> ELSE kids[n]]
           /\ freq' = [n \in rest \cup {new} |->
                          IF n = new THEN freq[left] + freq[right] ELSE freq[n]]
    /\ UNCHANGED <<Given, phase, file, dest, whole, pos,
                   needs, table, treeTop, subset, length>>

(* A single symbol, or none, is both children of the root. *)
MergeDone ==
    /\ phase = "merging" /\ Cardinality(DOMAIN freq) <= 1
    /\ LET only == IF freq = NoEntries THEN 0 ELSE Max(DOMAIN freq)
       IN  kids' = IF DOMAIN kids # {} THEN kids
                   ELSE [n \in {uDataNum} |-> <<only, only>>]
    /\ freq' = NoEntries
    /\ needs' = [x \in {<<0, 1>>} |-> Max(DOMAIN kids')]
    /\ treeTop' = 1
    /\ phase' = "placing"
    /\ UNCHANGED <<Given, file, dest, whole, pos, table, subset, length>>

Root == Max(DOMAIN kids)

(* PaDepth and HuffCode: the sides on the way from the root to a node; a   *)
(* parent has a greater number than its children.                          *)
Codes ==
    LET parent(n) == CHOOSE p \in DOMAIN kids : n \in ToSet(kids[p])
        code[n \in 0 .. Root] ==
            IF n = Root \/ ~\E p \in DOMAIN kids : n \in ToSet(kids[p])
            THEN << >>
            ELSE Append(code[parent(n)],
                        IF kids[parent(n)][1] = n THEN 0 ELSE 1)
    IN  code

(* The inner nodes of the tree under n. *)
HWord(n) ==
    LET inner[m \in DOMAIN kids] ==
            1 + (IF kids[m][1] \in DOMAIN kids THEN inner[kids[m][1]] ELSE 0)
              + (IF kids[m][2] \in DOMAIN kids THEN inner[kids[m][2]] ELSE 0)
    IN  inner[n]

-----------------------------------------------------------------------------
(* makeHuffTree *)

Before(x, y) == x[1] < y[1] \/ (x[1] = y[1] /\ x[2] < y[2])

(* An entry: two flags over the distance, which may run into them. *)
Entry(leftIsLeaf, rightIsLeaf, offset) ==
    LET flag(is, k) == IF is \/ (offset \div k) % 2 = 1 THEN k ELSE 0
    IN  (offset % OffsetLimit) + flag(rightIsLeaf, OffsetLimit)
                               + flag(leftIsLeaf, 2 * OffsetLimit)

(* setOneNodeOffset, on needs, table and treeTop: the node gets the next   *)
(* row; a child that is a symbol is put there, another has to wait.        *)
Placed(t, x) ==
    LET pair == kids[t.needs[x]]
        row == t.top
        isLeaf(k) == pair[k] \notin DOMAIN kids
        leaves == {<<row, k - 1>> : k \in {k \in 1 .. 2 : isLeaf(k)}}
        inner == {<<row, k - 1>> : k \in {k \in 1 .. 2 : ~isLeaf(k)}}
    IN  [top |-> row + 1,
         needs |-> [y \in (DOMAIN t.needs \ {x}) \cup inner |->
                       IF y \in inner THEN pair[y[2] + 1] ELSE t.needs[y]],
         table |-> [y \in DOMAIN t.table \cup {x} \cup leaves |->
                       IF y = x THEN Entry(isLeaf(1), isLeaf(2), row - x[1] - 1)
                       ELSE IF y \in leaves THEN pair[y[2] + 1] ELSE t.table[y]]]

Tables == [needs |-> needs, table |-> table, top |-> treeTop]

TablesBecome(t) == needs' = t.needs /\ table' = t.table /\ treeTop' = t.top

(* A slip: the rows of the subtree itself are not counted. *)
RemainingNodeCanSetOffsetMutant(cost) ==
    \A x \in DOMAIN needs :
        treeTop - x[1] <= OffsetLimit
                          - Cardinality({y \in DOMAIN needs : Before(y, x)})

(* remainingNodeCanSetOffset: once cost rows are filled, every entry that  *)
(* waits can still be served, one after the other.                         *)
RemainingNodeCanSetOffset(cost) ==
    \A x \in DOMAIN needs :
        treeTop - x[1] <= OffsetLimit - cost
                          - Cardinality({y \in DOMAIN needs : Before(y, x)})

Fitting ==
    {x \in DOMAIN needs :
        /\ HWord(needs[x]) + Cardinality(DOMAIN needs) <= OffsetLimit
        /\ RemainingNodeCanSetOffset(HWord(needs[x]))}

Placing == phase = "placing" /\ subset = 0

(* nCostHWord is never raised, so that the last subtree that fits is taken.*)
MakeSubset ==
    /\ Placing /\ Fitting # {}
    /\ \E x \in Fitting :
        /\ \A y \in Fitting \ {x} : Before(y, x)
        /\ TablesBecome(Placed(Tables, x))
    /\ subset' = treeTop
    /\ UNCHANGED <<Given, phase, file, dest, whole, pos, freq, kids, length>>

(* Every row the subtree has got is gone through, down to the symbols. *)
MakeSubsetRow ==
    /\ phase = "placing" /\ subset # 0
    /\ LET both == {<<subset, 0>>, <<subset, 1>>} \cap DOMAIN needs
           left == IF <<subset, 0>> \in both THEN Placed(Tables, <<subset, 0>>)
                                             ELSE Tables
       IN  TablesBecome(IF <<subset, 1>> \in both
                        THEN Placed(left, <<subset, 1>>) ELSE left)
    /\ subset' = IF subset + 1 < treeTop' THEN subset + 1 ELSE 0
    /\ UNCHANGED <<Given, phase, file, dest, whole, pos, freq, kids, length>>

(* When none fits, one node of the first row that waits is placed: the one *)
(* with the larger tree.                                                   *)
SetOneNode ==
    /\ Placing /\ needs # NoEntries /\ Fitting = {}
    /\ LET row == Min({x[1] : x \in DOMAIN needs})
           weight(side) == IF <<row, side>> \in DOMAIN needs
                           THEN HWord(needs[<<row, side>>]) ELSE 0
           side == IF weight(1) > weight(0) THEN 1 ELSE 0
       IN  TablesBecome(Placed(Tables, <<row, side>>))
    /\ UNCHANGED <<Given, phase, file, dest, whole, pos, freq, kids, subset,
                   length>>

-----------------------------------------------------------------------------
(* The table in an even number of rows, its size in front; then the codes  *)
(* in words of four bytes, whose first bit is the highest of the last.     *)
TableRows == RoundUp(treeTop, 2)

TableBytes ==
    [i \in 1 .. TableRows * 2 |->
        LET x == <<(i - 1) \div 2, (i - 1) % 2>>
        IN  IF i = 1 THEN TableRows - 1
            ELSE IF x \in DOMAIN table THEN table[x] ELSE 0]

CodeBits == LET codes == Codes
            IN  FlattenSeq([i \in DOMAIN Symbols |-> codes[Symbols[i]]])

WordBytes(bits) ==
    LET words == RoundUp(Len(bits), 32) \div 32
        bit(w, n) == IF w * 32 + n <= Len(bits) THEN bits[w * 32 + n] ELSE 0
        byte(w, b) == LET n == (3 - b) * 8
                      IN  FoldLeftDomain(LAMBDA v, k : v * 2 + bit(w, n + k),
                                         0, [k \in 1 .. 8 |-> k])
    IN  [i \in 1 .. words * 4 |-> byte((i - 1) \div 4, (i - 1) % 4)]

WriteCode ==
    /\ Placing /\ needs = NoEntries
    /\ LET bytes == Header(Len(data)) \o TableBytes \o WordBytes(CodeBits)
           size == RoundUp(Len(bytes), align)
       IN  IF size > HuffmanCapacity
           THEN phase' = "refused" /\ UNCHANGED file
           ELSE phase' = "packed" /\ file' = bytes \o Fill(size - Len(bytes))
    /\ kids' = NoEntries /\ table' = NoEntries /\ treeTop' = 0
    /\ UNCHANGED <<Given, dest, whole, pos, freq, needs, subset, length>>

-----------------------------------------------------------------------------
(* Uncompress *)

Offset(v) == v % OffsetLimit
LeafOn(v, side) ==
    (v \div (IF side = 0 THEN 2 * OffsetLimit ELSE OffsetLimit)) % 2 = 1
Below(v, i, side) == (i \div 2) * 2 + (Offset(v) + 1) * 2 + side

(* verifyHuffmanTable: t[i + 1] is the i-th byte of the table. *)
VerifyHuffmanTable(t) ==
    LET n == t[1]
        symbols[i \in 0 .. Len(t) - 1] ==
            IF i = 0 THEN {}
            ELSE LET was == symbols[i - 1]
                 IN  was \cup {Below(t[i + 1], i, side) :
                        side \in {s \in 0 .. 1 : i \notin was
                                                 /\ LeafOn(t[i + 1], s)}}
    IN  /\ type = "h4" => n < HalfCodes
        /\ \A i \in 1 .. Len(t) - 1 :
               \/ i \in symbols[i - 1]
               \/ t[i + 1] = 0 /\ i >= n * 2
               \/ Below(t[i + 1], i, 0) < (n + 1) * 2

HuffmanStartUnpacking ==
    /\ phase \in {"packed", "damaged"} /\ type \in HuffmanTypes
    /\ LET h == HeaderRead(file)
           rows == file[h.header + 1] + 1
       IN  IF \/ h.size < 0
              \/ h.header + rows * 2 > Len(file)
              \/ ~VerifyHuffmanTable(SubSeq(file, h.header + 1,
                                            h.header + rows * 2))
           THEN Failed /\ UNCHANGED <<pos, table, length>>
           ELSE /\ phase' = IF h.size = 0 THEN "restored" ELSE "unpacking"
                /\ pos' = h.header + rows * 2
                /\ table' = SubSeq(file, h.header + 1, h.header + rows * 2)
                /\ length' = h.size * SymbolsPerByte
                /\ UNCHANGED dest
    /\ treeTop' = 1
    /\ UNCHANGED <<Given, file, whole, freq, kids, needs, subset>>

(* One word of code: its bits lead from node to node, treeTop here, and    *)
(* back to the root behind each symbol, until there are enough.            *)
TakeWord ==
    /\ phase = "unpacking" /\ type \in HuffmanTypes
    /\ IF Len(file) - pos < 4
       THEN Failed /\ UNCHANGED <<pos, treeTop>>
       ELSE LET bit(n) == (file[pos + 4 - ((n - 1) \div 8)]
                               \div (2 ^ (7 - ((n - 1) % 8)))) % 2
                read[n \in 0 .. 32] ==
                    IF n = 0 THEN [node |-> treeTop, out |-> dest]
                    ELSE LET was == read[n - 1]
                             v == table[was.node + 1]
                             i == Below(v, was.node, bit(n))
                         IN  IF Len(was.out) = length THEN was
                             ELSE IF LeafOn(v, bit(n))
                             THEN [node |-> 1, out |-> Append(was.out, table[i + 1])]
                             ELSE [node |-> i, out |-> was.out]
                out == read[32].out
            IN  /\ treeTop' = read[32].node
                /\ pos' = pos + 4
                /\ IF Len(out) < length
                   THEN dest' = out /\ UNCHANGED phase
                   ELSE dest' = InBytes(out) /\ phase' = "restored"
    /\ UNCHANGED <<Given, file, whole, freq, kids, needs, table, subset, length>>

HuffmanInit ==
    /\ freq = NoEntries /\ kids = NoEntries /\ needs = NoEntries
    /\ table = NoEntries /\ treeTop = 0 /\ subset = 0 /\ length = 0

HuffmanNext ==
    \/ HuffmanStart \/ Merge \/ MergeDone
    \/ MakeSubset \/ MakeSubsetRow \/ SetOneNode \/ WriteCode
    \/ HuffmanStartUnpacking \/ TakeWord

-----------------------------------------------------------------------------
(* Once every node is placed, the bits of a symbol's code lead through the *)
(* table from its root to that symbol: constructTree's codes and           *)
(* makeHuffTree's table agree, and no distance has run into the flags.     *)
TreeHoldsCodes ==
    Placing /\ needs = NoEntries =>
        LET codes == Codes
            node(c) ==
                LET at[k \in 0 .. Len(c)] ==
                        IF k = 0 THEN <<0, 1>>
                        ELSE LET x == at[k - 1]
                             IN  <<x[1] + Offset(table[x]) + 1, c[k]>>
                IN  at
        IN  \A s \in ToSet(Symbols) :
                LET at == node(codes[s])
                IN  /\ table[at[Len(codes[s])]] = s
                    /\ \A k \in 1 .. Len(codes[s]) :
                           LeafOn(table[at[k - 1]], codes[s][k])
                               = (k = Len(codes[s]))
=============================================================================
