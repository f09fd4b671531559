-------------------------------- MODULE MCTool --------------------------------
EXTENDS Tool

NotWritten == [s \in Slots |-> 0]

(* Files: every short one over two bytes, runs of different lengths, and   *)
(* cycles that are long enough for every form of a match.                  *)
Short(n) == UNION {[1 .. k -> {1, 2}] : k \in 0 .. n}
Run(b, n) == [i \in 1 .. n |-> b]
Cycle(p, n) == [i \in 1 .. n |-> p[1 + ((i - 1) % Len(p))]]
Waves == {Run(1, i) \o Run(2, j) \o Run(1, k) : i \in 0 .. 7, j \in 0 .. 4, k \in 0 .. 6}
Cycles == {Cycle(p, n) : p \in {<<1>>, <<1, 2>>, <<1, 1, 2>>, <<2, 1, 1, 1>>},
                         n \in {16, 23, 29}}
Begun == {a \o b : a \in Short(4), b \in Cycles}

(* The i-th symbol as often as the i-th number says. *)
Counted == {FlattenSeq([i \in DOMAIN c |-> Run(i - 1, c[i])]) :
    c \in {<<1, 1, 1, 1, 1, 1, 1, 1>>, <<1, 1, 2, 3, 5, 8>>,
           <<1, 1, 1, 1, 3, 3, 3, 3>>, <<1, 1, 2, 4, 4, 1, 1>>, <<3, 2, 1>>,
           <<1, 1, 2, 2, 4, 4, 8>>, <<1, 1, 1, 1, 1, 1, 1, 5>>,
           <<2, 1, 1, 1, 1, 1, 2, 2>>, <<1, 2, 1, 1, 1, 4, 1, 2, 1, 1, 1, 1, 1>>,
           <<1, 1, 1, 1, 1, 1, 1, 1, 1, 2, 2, 3, 3>>,
           <<1, 1, 1, 1, 3, 1, 4, 1, 2, 4, 1, 1, 1, 1, 5, 1>>}}
FewSymbols == UNION {[1 .. n -> {1, 2, 6}] : n \in 0 .. 3}

Files(types, texts, n) == {[type |-> t, data |-> d, align |-> n] :
                               t \in types, d \in texts}
SmallInputs ==
    Files({"lz", "lzex", "yaz0", "rl"}, Short(6), 1)
        \cup Files({"lz", "lzex", "yaz0", "rl"}, Waves \cup Cycles, 4)
        \cup Files({"blz"}, Begun \cup Waves \cup Short(4), 1)
        \cup Files({"h4", "h8"}, FewSymbols \cup Counted, 4)

OneInput == [type |-> "lz", data |-> << >>, align |-> 1]

(* 18 bytes without a match fill the buffer of 18 bytes with the groups of *)
(* the first 16 of them.                                                   *)
DistinctBytes == 0 .. 17
Distinct == [type |-> "blz", data |-> [i \in 1 .. 18 |-> i - 1], align |-> 1]
DistinctInput == {Distinct}

-----------------------------------------------------------------------------
Dir == [code |-> 3, icon |-> 2, banner |-> 1, other |-> 4]
There(n) == [state |-> "there", size |-> n]
NoFile == [state |-> "none", size |-> 0]

CxiFiles == [extendedheader |-> There(8), logo |-> There(3), plain |-> There(2),
             exefs |-> There(0), romfs |-> There(5)]
CfaFiles == [CxiFiles EXCEPT !.extendedheader = NoFile, !.logo = NoFile,
                             !.plain = NoFile]
Broken(r) == {[CxiFiles EXCEPT ![r].state = s] :
                  s \in {"none", "missing"} \cup (IF r \in {"exefs", "romfs"}
                                                  THEN {"encrypted"} ELSE {})}
                 \cup {[CxiFiles EXCEPT ![r].size = 1]}
FileSets == {CxiFiles, CfaFiles} \cup UNION {Broken(r) : r \in DOMAIN CxiFiles}

Modes == {"Auto", "NotEncrypt", "FixedKey"}
KeyStates == {"known", "unknown", "bad"}

Cxi == [exeFsHeader |-> TRUE, ncchHeader |-> TRUE,
        names |-> <<".code", "banner", "icon">>, dir |-> Dir,
        compress |-> TRUE, uncompress |-> TRUE, mode |-> "Auto",
        fixedKeyFlag |-> FALSE, extKeyFlag |-> FALSE, removeExtKey |-> TRUE,
        extKey |-> "known", extKeyLater |-> "known", encrypt7x |-> "0x25",
        version |-> 0, sizeType |-> 0, wholeBlocks |-> FALSE, files |-> CxiFiles]

(* Directories that lack files, with the sections in different places. *)
ByDirectory ==
    {[Cxi EXCEPT !.names = names, !.compress = c, !.uncompress = u,
                 !.dir = [p \in there |-> Dir[p]], !.exeFsHeader = h] :
        names \in {<<".code", "banner", "icon">>, <<"icon", "", "other">>,
                   <<".code", "other", "">>, <<"icon", ".code", "banner">>},
        there \in SUBSET DOMAIN Dir, c \in BOOLEAN, u \in BOOLEAN, h \in BOOLEAN}

(* Region files that are missing or too short; an ExeFS or RomFS that is    *)
(* encrypted.                                                              *)
ByRegions ==
    {[Cxi EXCEPT !.files = f, !.mode = m, !.version = v, !.sizeType = z,
                 !.wholeBlocks = w, !.fixedKeyFlag = k] :
        f \in FileSets, m \in Modes, v \in 0 .. 1, z \in 0 .. 1,
        w \in BOOLEAN, k \in BOOLEAN}

(* Ext keys that become known or get lost between the two runs. *)
ByKey ==
    {[Cxi EXCEPT !.removeExtKey = r, !.extKeyFlag = TRUE, !.extKey = k,
                 !.extKeyLater = l, !.mode = m, !.ncchHeader = h] :
        r \in BOOLEAN, k \in KeyStates, l \in KeyStates, m \in Modes, h \in BOOLEAN}

SmallTitles == ByDirectory \cup ByRegions \cup ByKey
OneTitle == {Cxi}
=============================================================================
