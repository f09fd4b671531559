----------------------------- MODULE ExtKeyProofs -----------------------------
(***************************************************************************)
(* ExtKey for every range of ids, every window and every number of runs    *)
(* and kills: the counters of Download() agree with the requests under way,*)
(* the cache only grows, and a title gets the key that is known.           *)
(* The inductive invariant says in addition what m_mExtKey holds while a   *)
(* run goes on: the records of the file it began with and, for other ids,  *)
(* what was delivered since.                                               *)
(***************************************************************************)
EXTENDS ExtKey, FiniteSetTheorems, TLAPS

Loading == phase \in {"fill", "poll"}

\* The range asked for is one of ids.
RangeKnown ==
  /\ Loading => begin .. (begin + count - 1) \subseteq Ids
  /\ phase = "verify" => title \in Titles

\* The ids something was delivered for.
Delivered == {id \in DOMAIN answered : answered[id] # "none"}

\* What the run knows is what it read and, where that has nothing, what it got.
KeysKnown ==
  phase # "idle" =>
    /\ DOMAIN keys = DOMAIN before \cup Delivered
    /\ \A id \in DOMAIN keys :
         keys[id] = IF id \in DOMAIN before THEN before[id] ELSE answered[id]

\* Nothing is lost before the file is opened, nor after it was written.
FileKept ==
  /\ phase \in {"fill", "poll", "open"} => file = before
  /\ phase = "verify" => Keeps(file, before)

IInv == /\ TypeOK /\ Accounting /\ CacheGrows /\ TitleGetsItsKey
        /\ RangeKnown /\ KeysKnown /\ FileKept

-----------------------------------------------------------------------------
(* The range of a download *)

LEMMA RequestsFinite ==
  ASSUME TypeOK
  PROVE  /\ IsFiniteSet(urls) /\ Cardinality(urls) \in Nat
         /\ {begin, count, done, total, load} \subseteq Nat
<1>1. IsFiniteSet(urls)
  BY ExtKeyAssumption, FS_Subset DEF TypeOK
<1> QED
  BY <1>1, FS_CardinalityType DEF TypeOK

LEMMA DownloadRangeIsRange ==
  ASSUME NEW b \in Ids \cup {-1}, NEW e \in Ids \cup {-1}, b >= 0 \/ e >= 0
  PROVE  \E low, high \in Ids : low <= high /\ DownloadRange(b, e) = low .. high
<1>1. Ids \subseteq Nat
  BY ExtKeyAssumption
<1>2. CASE b > e /\ e < 0
  BY <1>1, <1>2 DEF DownloadRange
<1>3. CASE b > e /\ e >= 0
  BY <1>1, <1>3 DEF DownloadRange
<1>4. CASE b <= e /\ b < 0
  BY <1>1, <1>4 DEF DownloadRange
<1>5. CASE b <= e /\ b >= 0
  BY <1>1, <1>5 DEF DownloadRange
<1> QED
  BY <1>1, <1>2, <1>3, <1>4, <1>5

LEMMA EnterRange ==
  ASSUME NEW low \in Ids, NEW high \in Ids, low <= high, Enter(low .. high)
  PROVE  /\ begin' = low /\ count' = high - low + 1
         /\ done' = 0 /\ total' = 0 /\ load' = 0 /\ urls' = {}
         /\ phase' = "fill"
         /\ {begin', count', done', total', load'} \subseteq Nat
         /\ begin' .. (begin' + count' - 1) \subseteq Ids
<1>1. low \in Nat /\ high \in Nat /\ low .. high \subseteq Ids
  BY ExtKeyAssumption
<1>2. low \in low .. high /\ \A id \in low .. high : low <= id
  BY <1>1
<1>3. begin' = low
  <2>1. \A b \in low .. high : (\A id \in low .. high : b <= id) => b = low
    BY <1>1, <1>2
  <2>2. begin' \in low .. high /\ \A id \in low .. high : begin' <= id
    BY <1>2 DEF Enter
  <2> QED
    BY <2>1, <2>2
<1>4. count' = high - low + 1
  BY <1>1, FS_Interval DEF Enter
<1>5. done' = 0 /\ total' = 0 /\ load' = 0 /\ urls' = {} /\ phase' = "fill"
  BY DEF Enter
<1> QED
  BY <1>1, <1>3, <1>4, <1>5

-----------------------------------------------------------------------------
(* The start of a run *)

LEMMA InitCorrect == Init => IInv
<1> SUFFICES ASSUME Init PROVE IInv
  OBVIOUS
<1>1. TypeOK
  <2>1. DOMAIN Empty = {} /\ IsRecords(Empty)
    BY DEF Empty, IsRecords
  <2>2. /\ server \subseteq Ids /\ urls \subseteq Ids
        /\ runs \in 0 .. MaxRuns /\ kills \in 0 .. MaxKills
    BY ExtKeyAssumption DEF Init
  <2>3. IsRecords(file) /\ IsRecords(keys) /\ IsRecords(before)
    BY <2>1 DEF Init
  <2>4. DOMAIN answered \subseteq Ids
    BY <2>1 DEF Init
  <2>5. /\ phase = "idle" /\ title = NoTitle /\ result = "ok" /\ used = "unset"
        /\ cut = FALSE
        /\ begin = 0 /\ count = 0 /\ done = 0 /\ total = 0 /\ load = 0
    BY DEF Init
  <2>6. {begin, count, done, total, load} \subseteq Nat
    BY <2>5
  <2>7. title \in Titles \cup {NoTitle}
    BY <2>5
  <2> QED
    BY <2>2, <2>3, <2>4, <2>5, <2>6, <2>7 DEF TypeOK
<1>2. CacheGrows
  BY DEF Init, CacheGrows, Keeps, Empty
<1>3. TitleGetsItsKey
  BY DEF Init, TitleGetsItsKey, NoTitle
<1> QED
  BY <1>1, <1>2, <1>3
     DEF Init, IInv, Accounting, RangeKnown, Loading, KeysKnown, FileKept

\* A run knows what it read from the file.
LEMMA RunStarts ==
  ASSUME IInv, StartRun, phase' \in {"fill", "verify"}
  PROVE  KeysKnown' /\ FileKept' /\ CacheGrows' /\ TitleGetsItsKey'
<1>1. keys' = file /\ before' = file /\ file' = file /\ answered' = Empty
  BY DEF StartRun, fileVars
<1>2. DOMAIN Empty = {}
  BY DEF Empty
<1> QED
  BY <1>1, <1>2 DEF KeysKnown, Delivered, FileKept, Keeps, CacheGrows, TitleGetsItsKey

LEMMA StartTypes ==
  ASSUME IInv, StartRun
  PROVE  /\ server' \subseteq Ids
         /\ IsRecords(file') /\ IsRecords(keys') /\ IsRecords(before')
         /\ result' \in {"ok", "failed", "killed"}
         /\ used' \in {"ext", "plain", "unset"}
         /\ DOMAIN answered' \subseteq Ids
         /\ cut' \in BOOLEAN
         /\ runs' \in 0 .. MaxRuns /\ kills' \in 0 .. MaxKills
<1>1. runs' \in 0 .. MaxRuns
  BY ExtKeyAssumption DEF IInv, TypeOK, StartRun
<1>2. DOMAIN answered' \subseteq Ids
  BY DEF StartRun, Empty
<1>3. IsRecords(file') /\ IsRecords(keys') /\ IsRecords(before')
  BY DEF IInv, TypeOK, StartRun, fileVars
<1>4. /\ server' \subseteq Ids /\ result' \in {"ok", "failed", "killed"}
      /\ used' \in {"ext", "plain", "unset"}
      /\ cut' \in BOOLEAN /\ kills' \in 0 .. MaxKills
  BY DEF IInv, TypeOK, StartRun, fileVars, endVars
<1> QED
  BY <1>1, <1>2, <1>3, <1>4

\* A download starts with no request under way.
LEMMA EnterCorrect ==
  ASSUME IInv, StartRun, NEW low \in Ids, NEW high \in Ids, low <= high,
         Enter(low .. high), title' \in Titles \cup {NoTitle}
  PROVE  IInv'
<1>1. TypeOK'
  <2>1. urls' \subseteq Ids /\ phase' = "fill"
    BY EnterRange
  <2> QED
    BY <2>1, StartTypes, EnterRange DEF TypeOK, IsRecords
<1>2. Accounting'
  <2>1. DOMAIN answered' = {}
    BY DEF StartRun, Empty
  <2>2. Cardinality({}) = 0 /\ Window \in Nat
    BY FS_EmptySet, ExtKeyAssumption
  <2>3. begin' .. (begin' + 0 - 1) = {}
    BY EnterRange
  <2>4. /\ load' = 0 /\ done' = 0 /\ total' = 0 /\ urls' = {} /\ count' \in Nat
        /\ begin' \in Nat
    BY EnterRange
  <2> QED
    <3>1. load' = Cardinality(urls') /\ load' <= Window
      BY <2>2, <2>4
    <3>2. done' + load' = total' /\ total' <= count'
      BY <2>4
    <3>3. urls' \cup DOMAIN answered' = begin' .. (begin' + total' - 1)
      BY <2>1, <2>3, <2>4
    <3> QED
      BY <2>1, <3>1, <3>2, <3>3 DEF Accounting
<1>3. RangeKnown'
  BY EnterRange DEF RangeKnown, Loading
<1> QED
  BY <1>1, <1>2, <1>3, RunStarts, EnterRange DEF IInv

LEMMA StartDownloadStep == IInv /\ StartDownload => IInv'
<1> SUFFICES ASSUME IInv, StartDownload PROVE IInv'
  OBVIOUS
<1>1. PICK b, e \in Ids \cup {-1} : (b >= 0 \/ e >= 0) /\ Enter(DownloadRange(b, e))
  BY DEF StartDownload
<1>2. PICK low, high \in Ids : low <= high /\ DownloadRange(b, e) = low .. high
  BY <1>1, DownloadRangeIsRange
<1>3. StartRun /\ title' = NoTitle
  BY DEF StartDownload
<1> QED
  BY <1>1, <1>2, <1>3, EnterCorrect

LEMMA StartTitleStep == IInv /\ StartTitle => IInv'
<1> SUFFICES ASSUME IInv, StartTitle PROVE IInv'
  OBVIOUS
<1>1. StartRun /\ title' \in Titles /\ title'.Id \in Ids
  BY DEF StartTitle, Titles
<1>2. CASE phase' = "verify" /\ UNCHANGED loopVars
  <2>1. TypeOK'
    BY <1>1, <1>2, StartTypes DEF IInv, TypeOK, IsRecords, loopVars
  <2>2. Accounting' /\ RangeKnown'
    BY <1>1, <1>2 DEF Accounting, RangeKnown, Loading
  <2> QED
    BY <1>1, <1>2, <2>1, <2>2, RunStarts DEF IInv
<1>3. CASE Enter({title'.Id})
  <2>1. PICK i \in Ids : i = title'.Id
    BY <1>1
  <2>2. i <= i /\ {i} = i .. i
    BY ExtKeyAssumption
  <2>3. Enter(i .. i)
    BY <1>3, <2>1, <2>2
  <2> QED
    BY <1>1, <2>2, <2>3, EnterCorrect
<1> QED
  BY <1>2, <1>3 DEF StartTitle

-----------------------------------------------------------------------------
(* Download() *)

LEMMA ReturnCases ==
  ASSUME TypeOK, NEW value \in {"ok", "failed"}, Return(value)
  PROVE  /\ phase' \in {"idle", "verify"}
         /\ result' \in {"ok", "failed", "killed"}
         /\ used' \in {"ext", "plain", "unset"}
         /\ phase' = "verify" => title \in Titles
         /\ phase' = "idle" => title = NoTitle /\ result' = value
<1>1. CASE title = NoTitle
  BY <1>1 DEF TypeOK, Return
<1>2. CASE title # NoTitle
  BY <1>2 DEF TypeOK, Return, endVars
<1> QED
  BY <1>1, <1>2

LEMMA RequestStep == IInv /\ Request => IInv'
<1> SUFFICES ASSUME IInv, Request PROVE IInv'
  OBVIOUS
<1> USE DEF IInv
<1>1. /\ phase = "fill" /\ total # count /\ load < Window
      /\ UNCHANGED <<fileVars, title, keys, answered, historyVars>>
  BY DEF Request
<1>2. CASE /\ urls' = urls \cup {NextId}
           /\ total' = total + 1 /\ load' = load + 1
           /\ UNCHANGED <<phase, begin, count, done, endVars>>
  <2>1. /\ {begin, count, done, total, load} \subseteq Nat
        /\ IsFiniteSet(urls) /\ Window \in Nat
    BY RequestsFinite, ExtKeyAssumption
  <2>2. /\ load = Cardinality(urls) /\ load <= Window
        /\ done + load = total /\ total <= count
        /\ urls \cap DOMAIN answered = {}
        /\ urls \cup DOMAIN answered = begin .. (begin + total - 1)
    BY <1>1 DEF Accounting
  <2>3. /\ NextId \notin urls \cup DOMAIN answered
        /\ begin .. (begin + total' - 1) = begin .. (begin + total - 1) \cup {NextId}
    BY <1>2, <2>1, <2>2 DEF NextId
  <2>4. Cardinality(urls') = load + 1
    BY <1>2, <2>1, <2>2, <2>3, FS_AddElement
  <2>5. NextId \in Ids
    <3>1. NextId \in begin .. (begin + count - 1)
      BY <1>1, <2>1, <2>2 DEF NextId
    <3> QED
      BY <3>1, <1>1 DEF RangeKnown, Loading
  <2>6. TypeOK'
    <3>1. {begin', count', done', total', load'} \subseteq Nat
      BY <1>2, <2>1
    <3>2. urls' \subseteq Ids
      BY <1>2, <2>5 DEF TypeOK
    <3> QED
      BY <1>1, <1>2, <3>1, <3>2
         DEF TypeOK, IsRecords, fileVars, historyVars, endVars
  <2>7. Accounting'
    <3>1. load' <= Window /\ done' + load' = total' /\ total' <= count'
      BY <1>1, <1>2, <2>1, <2>2
    <3>2. /\ urls' \cap DOMAIN answered' = {}
          /\ urls' \cup DOMAIN answered' = begin' .. (begin' + total' - 1)
      BY <1>1, <1>2, <2>2, <2>3
    <3> QED
      BY <1>2, <2>4, <3>1, <3>2 DEF Accounting
  <2>8. RangeKnown' /\ KeysKnown' /\ FileKept' /\ CacheGrows' /\ TitleGetsItsKey'
    BY <1>1, <1>2
       DEF RangeKnown, Loading, KeysKnown, Delivered, FileKept, CacheGrows,
           TitleGetsItsKey, fileVars, historyVars, endVars
  <2> QED
    BY <2>6, <2>7, <2>8
<1>3. CASE /\ urls' = {} /\ Return("failed")
           /\ UNCHANGED <<begin, count, done, total, load>>
  <2>1. TypeOK'
    BY <1>1, <1>3, ReturnCases DEF TypeOK, IsRecords, fileVars, historyVars
  <2>2. Accounting' /\ RangeKnown' /\ TitleGetsItsKey'
    BY <1>1, <1>3, ReturnCases
       DEF Accounting, RangeKnown, Loading, TitleGetsItsKey, NoTitle
  <2>3. KeysKnown' /\ FileKept' /\ CacheGrows'
    BY <1>1, <1>3, ReturnCases
       DEF KeysKnown, Delivered, FileKept, CacheGrows, Keeps, fileVars, historyVars
  <2> QED
    BY <2>1, <2>2, <2>3
<1> QED
  BY <1>2, <1>3 DEF Request

LEMMA EndFillStep == IInv /\ EndFill => IInv'
<1> SUFFICES ASSUME IInv, EndFill PROVE IInv'
  OBVIOUS
<1>1. /\ phase = "fill" /\ phase' = "poll"
      /\ UNCHANGED <<fileVars, title, keys, loopVars, endVars, answered, historyVars>>
  BY DEF EndFill
<1>2. TypeOK'
  BY <1>1 DEF IInv, TypeOK, IsRecords, fileVars, loopVars, endVars, historyVars
<1> QED
  BY <1>1, <1>2
     DEF IInv, Accounting, RangeKnown, Loading, KeysKnown, Delivered, FileKept,
         CacheGrows, TitleGetsItsKey, fileVars, loopVars, endVars, historyVars

\* What a pass over the requests adds to what the run knows.
LEMMA RecordedProperties ==
  ASSUME NEW map, NEW data
  PROVE  /\ \A id : id \in DOMAIN OnHttpsGetExtKey(map, data) <=>
                    id \in DOMAIN map \/ (id \in DOMAIN data /\ data[id] # "none")
         /\ \A id \in DOMAIN map : OnHttpsGetExtKey(map, data)[id] = map[id]
         /\ \A id \in DOMAIN data \ DOMAIN map :
              data[id] # "none" => OnHttpsGetExtKey(map, data)[id] = data[id]
  BY DEF OnHttpsGetExtKey, Insert, Restrict

LEMMA PerformStep == IInv /\ Perform => IInv'
<1> SUFFICES ASSUME IInv, Perform PROVE IInv'
  OBVIOUS
<1> USE DEF IInv
<1>0. PICK over \in SUBSET urls \ {{}} : \E data \in Deliveries(over) :
        /\ urls' = urls \ over
        /\ keys' = OnHttpsGetExtKey(keys, data)
        /\ answered' = Insert(answered, data)
        /\ Count(over)
  BY DEF Perform
<1>1. PICK data \in Deliveries(over) :
        /\ urls' = urls \ over
        /\ keys' = OnHttpsGetExtKey(keys, data)
        /\ answered' = Insert(answered, data)
        /\ Count(over)
  BY <1>0
<1>2. /\ phase = "poll"
      /\ phase' = IF total # count \/ urls' = {} THEN LoopOr(done') ELSE "poll"
      /\ UNCHANGED <<fileVars, title, begin, count, total, endVars, historyVars>>
  BY DEF Perform
<1>3. phase' \in {"fill", "open", "poll"}
  BY <1>2 DEF LoopOr
<1>4. over \subseteq urls /\ data \in [over -> {"none"} \cup Records] /\ DOMAIN data = over
  BY <1>0, <1>1 DEF Deliveries
<1>5. /\ {begin, count, done, total, load} \subseteq Nat
      /\ IsFiniteSet(urls) /\ IsFiniteSet(over) /\ Cardinality(over) \in Nat
      /\ Cardinality(over) <= Cardinality(urls)
      /\ Cardinality(urls \ over) = Cardinality(urls) - Cardinality(over)
  <2>1. IsFiniteSet(urls) /\ {begin, count, done, total, load} \subseteq Nat
    BY RequestsFinite
  <2>2. over \in SUBSET urls /\ urls \cap over = over
    BY <1>4
  <2>3. IsFiniteSet(over) /\ Cardinality(over) <= Cardinality(urls)
    BY <2>1, <2>2, FS_Subset
  <2> QED
    BY <2>1, <2>2, <2>3, FS_Difference, FS_CardinalityType
<1>6. /\ load = Cardinality(urls) /\ load <= Window
      /\ done + load = total /\ total <= count
      /\ urls \cap DOMAIN answered = {}
      /\ urls \cup DOMAIN answered = begin .. (begin + total - 1)
  BY <1>2 DEF Accounting
<1>7. done' = done + Cardinality(over) /\ load' = load - Cardinality(over)
  BY <1>1 DEF Count
<1>8. /\ DOMAIN answered' = DOMAIN answered \cup over
      /\ \A id \in DOMAIN answered : answered'[id] = answered[id]
      /\ \A id \in over : answered'[id] = data[id]
  <2>1. DOMAIN answered' = DOMAIN answered \cup DOMAIN data
    BY <1>1 DEF Insert
  <2>2. \A id \in DOMAIN answered \cup DOMAIN data :
          answered'[id] = IF id \in DOMAIN answered THEN answered[id] ELSE data[id]
    BY <1>1 DEF Insert
  <2> QED
    BY <1>4, <1>6, <2>1, <2>2
<1>9. LET told == {id \in over : data[id] # "none"}
      IN  /\ Delivered' = Delivered \cup told
          /\ DOMAIN keys' = DOMAIN keys \cup told
          /\ \A id \in DOMAIN keys : keys'[id] = keys[id]
          /\ \A id \in told \ DOMAIN keys : keys'[id] = data[id]
  <2> DEFINE told == {id \in over : data[id] # "none"}
  <2>1. \A id : id \in told <=> id \in DOMAIN data /\ data[id] # "none"
    BY <1>4
  <2>2. Delivered' = Delivered \cup told
    BY <1>8, <1>4, <1>6 DEF Delivered
  <2> HIDE DEF told
  <2>3. /\ DOMAIN keys' = DOMAIN keys \cup told
        /\ \A id \in DOMAIN keys : keys'[id] = keys[id]
        /\ \A id \in told \ DOMAIN keys : keys'[id] = data[id]
    <3>1. \A id : id \in DOMAIN keys' <=>
                  id \in DOMAIN keys \/ (id \in DOMAIN data /\ data[id] # "none")
      BY <1>1, RecordedProperties
    <3>2. \A id \in DOMAIN keys : keys'[id] = keys[id]
      BY <1>1, RecordedProperties
    <3>3. \A id \in told \ DOMAIN keys : keys'[id] = data[id]
      BY <1>1, <2>1, RecordedProperties
    <3> QED
      BY <2>1, <3>1, <3>2, <3>3
  <2> QED
    BY <2>2, <2>3 DEF told
<1>10. TypeOK'
  <2>1. {begin', count', done', total', load'} \subseteq Nat
    <3>1. load - Cardinality(over) \in Nat
      BY <1>5, <1>6
    <3> QED
      BY <1>2, <1>5, <1>7, <3>1
  <2>2. IsRecords(keys')
    <3>1. DOMAIN keys' \subseteq Ids
      BY <1>4, <1>9 DEF TypeOK, IsRecords
    <3>2. ASSUME NEW id \in DOMAIN keys'
          PROVE  keys'[id] \in Records
      <4>1. CASE id \in DOMAIN keys
        BY <1>9, <4>1 DEF TypeOK, IsRecords
      <4>2. CASE id \notin DOMAIN keys
        BY <1>4, <1>9, <3>2, <4>2
      <4> QED
        BY <4>1, <4>2
    <3> QED
      BY <3>1, <3>2 DEF IsRecords
  <2>3. DOMAIN answered' \subseteq Ids /\ urls' \subseteq Ids
    BY <1>1, <1>4, <1>8 DEF TypeOK
  <2>4. /\ server' \subseteq Ids /\ IsRecords(file') /\ IsRecords(before')
        /\ title' \in Titles \cup {NoTitle} /\ result' \in {"ok", "failed", "killed"}
        /\ used' \in {"ext", "plain", "unset"} /\ cut' \in BOOLEAN
        /\ runs' \in 0 .. MaxRuns /\ kills' \in 0 .. MaxKills
    BY <1>2 DEF TypeOK, fileVars, endVars, historyVars
  <2> QED
    BY <1>3, <2>1, <2>2, <2>3, <2>4 DEF TypeOK
<1>11. Accounting'
  <2>1. load' = Cardinality(urls')
    BY <1>1, <1>5, <1>6, <1>7
  <2>2. load' <= Window /\ done' + load' = total' /\ total' <= count'
    BY <1>2, <1>5, <1>6, <1>7, ExtKeyAssumption
  <2>3. /\ urls' \cap DOMAIN answered' = {}
        /\ urls' \cup DOMAIN answered' = begin' .. (begin' + total' - 1)
    BY <1>1, <1>2, <1>4, <1>6, <1>8
  <2> QED
    BY <2>1, <2>2, <2>3 DEF Accounting
<1>12. RangeKnown'
  BY <1>2, <1>3 DEF RangeKnown, Loading
<1>13. KeysKnown'
  <2>1. /\ DOMAIN keys = DOMAIN before \cup Delivered
        /\ \A id \in DOMAIN keys :
             keys[id] = IF id \in DOMAIN before THEN before[id] ELSE answered[id]
    BY <1>2 DEF KeysKnown
  <2>2. before' = before
    BY <1>2 DEF historyVars
  <2>3. DOMAIN keys' = DOMAIN before' \cup Delivered'
    BY <1>9, <2>1, <2>2
  <2>4. ASSUME NEW id \in DOMAIN keys'
        PROVE  keys'[id] = IF id \in DOMAIN before' THEN before'[id] ELSE answered'[id]
    <3>1. CASE id \in DOMAIN keys
      BY <1>8, <1>9, <2>1, <2>2, <3>1 DEF Delivered
    <3>2. CASE id \notin DOMAIN keys
      BY <1>8, <1>9, <2>1, <2>2, <2>4, <3>2
    <3> QED
      BY <3>1, <3>2
  <2> QED
    BY <2>3, <2>4 DEF KeysKnown
<1>14. FileKept'
  BY <1>2, <1>3 DEF FileKept, fileVars, historyVars
<1>15. CacheGrows' /\ TitleGetsItsKey'
  BY <1>3 DEF CacheGrows, TitleGetsItsKey
<1> QED
  BY <1>10, <1>11, <1>12, <1>13, <1>14, <1>15

-----------------------------------------------------------------------------
(* The file *)

LEMMA OpenFileStep == IInv /\ OpenFile => IInv'
<1> SUFFICES ASSUME IInv, OpenFile PROVE IInv'
  OBVIOUS
<1> USE DEF IInv
<1>1. /\ phase = "open"
      /\ UNCHANGED <<server, title, keys, loopVars, answered, historyVars>>
  BY DEF OpenFile
<1>2. CASE file' = Empty /\ phase' = "write" /\ UNCHANGED endVars
  <2>1. IsRecords(file')
    BY <1>2 DEF IsRecords, Empty
  <2>2. TypeOK'
    BY <1>1, <1>2, <2>1 DEF TypeOK, IsRecords, loopVars, endVars, historyVars
  <2>3. KeysKnown'
    BY <1>1, <1>2 DEF KeysKnown, Delivered, historyVars
  <2> QED
    BY <1>2, <2>2, <2>3
       DEF Accounting, RangeKnown, Loading, FileKept, CacheGrows, TitleGetsItsKey
<1>3. CASE Return("failed") /\ UNCHANGED file
  <2>1. TypeOK'
    BY <1>1, <1>3, ReturnCases DEF TypeOK, IsRecords, loopVars, historyVars
  <2>2. Accounting' /\ RangeKnown' /\ TitleGetsItsKey'
    BY <1>1, <1>3, ReturnCases
       DEF Accounting, RangeKnown, Loading, TitleGetsItsKey, NoTitle
  <2>3. KeysKnown' /\ FileKept' /\ CacheGrows'
    BY <1>1, <1>3, ReturnCases
       DEF KeysKnown, Delivered, FileKept, CacheGrows, Keeps, historyVars
  <2> QED
    BY <2>1, <2>2, <2>3
<1> QED
  BY <1>2, <1>3 DEF OpenFile

LEMMA WriteFileStep == IInv /\ WriteFile => IInv'
<1> SUFFICES ASSUME IInv, WriteFile PROVE IInv'
  OBVIOUS
<1> USE DEF IInv
<1>1. /\ phase = "write" /\ file' = keys /\ Return("ok")
      /\ UNCHANGED <<server, title, keys, loopVars, answered, historyVars>>
  BY DEF WriteFile, ToWrite
<1>2. TypeOK'
  BY <1>1, ReturnCases DEF TypeOK, IsRecords, loopVars, historyVars
<1>3. Accounting' /\ RangeKnown' /\ TitleGetsItsKey'
  BY <1>1, ReturnCases DEF Accounting, RangeKnown, Loading, TitleGetsItsKey, NoTitle
<1>4. Keeps(file', before')
  BY <1>1 DEF KeysKnown, Keeps, historyVars
<1>5. KeysKnown' /\ FileKept'
  BY <1>1, <1>4, ReturnCases DEF KeysKnown, Delivered, FileKept, historyVars
<1>6. CacheGrows'
  <2>1. \A id \in DOMAIN answered' \ DOMAIN before' :
          answered'[id] # "none" => id \in DOMAIN file' /\ file'[id] = answered'[id]
    BY <1>1 DEF KeysKnown, Delivered, historyVars
  <2> QED
    BY <1>4, <2>1 DEF CacheGrows
<1> QED
  BY <1>2, <1>3, <1>5, <1>6

LEMMA UseKeyStep == IInv /\ UseKey => IInv'
<1> SUFFICES ASSUME IInv, UseKey PROVE IInv'
  OBVIOUS
<1> USE DEF IInv
<1>1. /\ phase = "verify" /\ phase' = "idle" /\ result' = "ok"
      /\ UNCHANGED <<fileVars, title, keys, loopVars, answered, historyVars>>
  BY DEF UseKey
<1>2. TypeOK'
  BY <1>1 DEF UseKey, TypeOK, IsRecords, fileVars, loopVars, historyVars
<1>3. Accounting' /\ RangeKnown' /\ KeysKnown' /\ FileKept'
  BY <1>1 DEF Accounting, RangeKnown, Loading, KeysKnown, FileKept
<1>4. CacheGrows'
  <2>1. title' # NoTitle
    BY <1>1 DEF RangeKnown, Titles, NoTitle
  <2> QED
    BY <1>1, <2>1 DEF CacheGrows, FileKept, Keeps, fileVars, historyVars
<1>5. TitleGetsItsKey'
  <2> SUFFICES ASSUME title.High = "app",
                      title.Id \in DOMAIN Insert(before, answered),
                      Insert(before, answered)[title.Id] = "good"
               PROVE  used' = "ext"
    BY <1>1 DEF TitleGetsItsKey, historyVars
  <2>1. title.Id \in DOMAIN keys /\ keys[title.Id] = "good"
    <3>1. CASE title.Id \in DOMAIN before
      BY <1>1, <3>1 DEF Insert, KeysKnown
    <3>2. CASE title.Id \notin DOMAIN before
      <4>1. title.Id \in DOMAIN answered /\ answered[title.Id] = "good"
        BY <3>2 DEF Insert
      <4>2. title.Id \in Delivered
        BY <4>1 DEF Delivered
      <4> QED
        BY <1>1, <3>2, <4>1, <4>2 DEF KeysKnown
    <3> QED
      BY <3>1, <3>2
  <2> QED
    BY <2>1 DEF UseKey, Recorded
<1> QED
  BY <1>2, <1>3, <1>4, <1>5

LEMMA KillStep == IInv /\ Kill => IInv'
<1> SUFFICES ASSUME IInv, Kill PROVE IInv'
  OBVIOUS
<1> USE DEF IInv
<1>1. /\ phase # "idle" /\ kills < MaxKills /\ kills' = kills + 1
      /\ phase' = "idle" /\ result' = "killed" /\ urls' = {}
      /\ UNCHANGED <<server, title, keys, begin, count, done, total, load, used,
                     answered, before, runs>>
  BY DEF Kill
<1>2. IsRecords(file') /\ cut' \in BOOLEAN
  <2>1. CASE phase = "write"
    <3>1. cut' = TRUE /\ file' \in CutFile
      BY <2>1 DEF Kill
    <3>2. IsRecords(Empty)
      BY DEF IsRecords, Empty
    <3>3. ASSUME NEW last \in DOMAIN keys, NEW tail \in Records,
                 file' = CutAfter(last, tail)
          PROVE  IsRecords(file')
      BY <3>3 DEF IsRecords, TypeOK, CutAfter
    <3>4. file' = Empty \/ \E last \in DOMAIN keys, tail \in Records :
                              file' = CutAfter(last, tail)
      BY <3>1 DEF CutFile
    <3>5. IsRecords(file')
      BY <3>2, <3>3, <3>4
    <3> QED
      BY <3>1, <3>5
  <2>2. CASE phase # "write"
    BY <2>2 DEF Kill, TypeOK
  <2> QED
    BY <2>1, <2>2
<1>3. kills' \in 0 .. MaxKills
  BY <1>1, ExtKeyAssumption DEF TypeOK
<1>4. TypeOK'
  BY <1>1, <1>2, <1>3 DEF TypeOK, IsRecords
<1>5. Accounting' /\ RangeKnown' /\ KeysKnown' /\ FileKept' /\ TitleGetsItsKey'
  BY <1>1 DEF Accounting, RangeKnown, Loading, KeysKnown, FileKept, TitleGetsItsKey
<1>6. CacheGrows'
  <2>1. CASE phase = "write"
    BY <2>1 DEF Kill, CacheGrows
  <2>2. CASE phase # "write"
    <3>1. Keeps(file, before)
      BY <1>1, <2>2 DEF TypeOK, FileKept, Keeps
    <3>2. file' = file
      BY <2>2 DEF Kill
    <3> QED
      BY <1>1, <3>1, <3>2 DEF CacheGrows
  <2> QED
    BY <2>1, <2>2
<1> QED
  BY <1>4, <1>5, <1>6

LEMMA StutterStep == IInv /\ UNCHANGED vars => IInv'
<1> SUFFICES ASSUME IInv, UNCHANGED vars PROVE IInv'
  OBVIOUS
<1>1. TypeOK'
  BY DEF IInv, TypeOK, IsRecords, vars, fileVars, loopVars, endVars, historyVars
<1> QED
  BY <1>1
     DEF IInv, Accounting, RangeKnown, Loading, KeysKnown, Delivered, FileKept,
         CacheGrows, TitleGetsItsKey, vars, fileVars, loopVars, endVars, historyVars

LEMMA StepCorrect == IInv /\ [Next]_vars => IInv'
  BY StartDownloadStep, StartTitleStep, RequestStep, EndFillStep, PerformStep,
     OpenFileStep, WriteFileStep, UseKeyStep, KillStep, StutterStep
     DEF Next, Program

LEMMA InvariantHolds == Spec => []IInv
  BY InitCorrect, StepCorrect, PTL DEF Spec

-----------------------------------------------------------------------------
(* The theorems *)

\* Every variable keeps its type: in particular no request is ever started for an
\* id outside the range of ids (ncch.cpp Download).
THEOREM TypeCorrect == Spec => []TypeOK
<1>1. IInv => TypeOK
  BY DEF IInv
<1> QED
  BY <1>1, InvariantHolds, PTL

\* For every range and window, and in whatever order requests end, the counters of
\* Download() agree with the requests under way and each id is asked for once.
THEOREM AccountingInvariant == Spec => []Accounting
<1>1. IInv => Accounting
  BY DEF IInv
<1> QED
  BY <1>1, InvariantHolds, PTL

\* However often the program is run and killed, no run loses a record of ext_key.txt
\* unless it is killed while it writes the file (ncch.cpp writeExtKey).
THEOREM CacheGrowsInvariant == Spec => []CacheGrows
<1>1. IInv => CacheGrows
  BY DEF IInv
<1> QED
  BY <1>1, InvariantHolds, PTL

\* A key of a title that is known or delivered is used (ncch.cpp calculateKey).
THEOREM TitleKeyInvariant == Spec => []TitleGetsItsKey
<1>1. IInv => TitleGetsItsKey
  BY DEF IInv
<1> QED
  BY <1>1, InvariantHolds, PTL
=============================================================================
