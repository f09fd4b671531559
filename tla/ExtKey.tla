-------------------------------- MODULE ExtKey --------------------------------
(***************************************************************************)
(* The ext keys of NCCH titles (src/src/ncch.cpp, url_manager.cpp).  They  *)
(* are kept in ext_key.txt beside the program: "--download" asks the       *)
(* server for a range of unique ids, up to a window of requests at once,   *)
(* and calculateKey() asks for the one it needs if the file lacks it.      *)
(* Requests end in any order, with the key, with nothing or with something *)
(* else: the body of an error page and a body cut short look like keys.    *)
(* The program may be killed at any time, also while it writes the file.   *)
(*                                                                         *)
(* Operators named ...Mutant are what the definition after them would be   *)
(* with a plausible slip in the code.                                      *)
(***************************************************************************)
EXTENDS Integers, FiniteSets, Functions

CONSTANTS
  Ids,         \* the unique ids of titles
  Window,      \* how many requests may be under way: 256 in Download()
  MaxRuns,     \* bound: how often the program is started
  MaxKills     \* bound: how often it is killed

\* The ids are those of a range: five hexadecimal digits.
ASSUME ExtKeyAssumption ==
  /\ Ids \subseteq Nat /\ IsFiniteSet(Ids)
  /\ \A low, high \in Ids : low .. high \subseteq Ids
  /\ Window \in Nat \ {0}
  /\ MaxRuns \in Nat /\ MaxKills \in Nat

VARIABLES
  server,      \* the ids whose key the server has
  file,        \* ext_key.txt: what is recorded for which id
  phase,       \* where the program is
  title,       \* the title that needs its key, or the job is "--download"
  keys,        \* m_mExtKey
  begin,       \* m_nDownloadBegin
  count,       \* uCount
  done,        \* uDownloadCount
  total,       \* uTotalLoadCount
  load,        \* uLoadCount
  urls,        \* CUrlManager::m_sUrl: the ids whose request is under way
  result,      \* what the last run returned, or "killed"
  used,        \* the key it used for a title
  answered,    \* history: what was delivered for which id in this run
  before,      \* history: the file when the run began
  cut,         \* history: the run was killed while it wrote the file
  runs, kills

fileVars == <<server, file>>
loopVars == <<begin, count, done, total, load, urls>>
endVars == <<result, used>>
historyVars == <<before, cut, runs, kills>>
vars == <<fileVars, phase, title, keys, loopVars, endVars, answered, historyVars>>

\* A record holds a key of the right size that verifies, or anything else.
Records == {"good", "bad"}
Empty == [id \in {} |-> "bad"]

\* std::map::insert: what is there stays.
Insert(map, more) ==
  [id \in DOMAIN map \cup DOMAIN more |-> IF id \in DOMAIN map THEN map[id] ELSE more[id]]

NoTitle == [High |-> "none", Id |-> 0]

Titles == [High : {"app", "other"}, Id : Ids]

\* The record is looked for in the file again.
RecordedMutant == title.High = "app" /\ title.Id \in DOMAIN file

\* Titles of other kinds have unique ids too, but keys are recorded for
\* applications only: the id of the record is formatted with their high part.
Recorded == title.High = "app" /\ title.Id \in DOMAIN keys

-----------------------------------------------------------------------------
(* The start of a run                                                      *)

\* Either option may be missing, and they may come in the wrong order.
DownloadRange(b, e) ==
  LET low == IF b > e THEN e ELSE b
      high == IF b > e THEN b ELSE e
  IN (IF low < 0 THEN high ELSE low) .. high

\* Download() is entered for the ids of a range.
Enter(range) ==
  /\ begin' = (CHOOSE b \in range : \A id \in range : b <= id)
  /\ count' = Cardinality(range)
  /\ done' = 0 /\ total' = 0 /\ load' = 0
  /\ urls' = {}
  /\ phase' = "fill"

StartRun ==
  /\ phase = "idle"
  /\ runs < MaxRuns
  /\ runs' = runs + 1
  /\ before' = file
  /\ cut' = FALSE
  /\ keys' = file
  /\ answered' = Empty
  /\ UNCHANGED <<fileVars, endVars, kills>>

\* C3dsTool::download().
StartDownload ==
  /\ StartRun
  /\ \E b, e \in Ids \cup {-1} :
       /\ b >= 0 \/ e >= 0
       /\ Enter(DownloadRange(b, e))
  /\ title' = NoTitle

\* calculateKey() of a title whose flags ask for an ext key.
StartTitle ==
  /\ StartRun
  /\ title' \in Titles
  /\ IF title'.High = "app" /\ title'.Id \in DOMAIN file
     THEN phase' = "verify" /\ UNCHANGED loopVars
     ELSE Enter({title'.Id})

-----------------------------------------------------------------------------
(* Download()                                                              *)

\* A run of "--download" is over; calculateKey goes on to look for the key.
Return(value) ==
  IF title = NoTitle
  THEN phase' = "idle" /\ result' = value /\ UNCHANGED used
  ELSE phase' = "verify" /\ UNCHANGED endVars

NextId == begin + total

\* A request is started, or curl has no handle for it and all are given up.
Request ==
  /\ phase = "fill"
  /\ total # count /\ load < Window
  /\ \/ /\ urls' = urls \cup {NextId}
        /\ total' = total + 1
        /\ load' = load + 1
        /\ UNCHANGED <<phase, begin, count, done, endVars>>
     \/ /\ urls' = {}
        /\ Return("failed")
        /\ UNCHANGED <<begin, count, done, total, load>>
  /\ UNCHANGED <<fileVars, title, keys, answered, historyVars>>

EndFill ==
  /\ phase = "fill"
  /\ total = count \/ load >= Window
  /\ phase' = "poll"
  /\ UNCHANGED <<fileVars, title, keys, loopVars, endVars, answered, historyVars>>

\* The condition of the outer loop, for the counter n.
LoopOr(n) == IF n # count THEN "fill" ELSE "open"

\* What the transfers of the ids in over may have delivered when they end.
Deliveries(over) ==
  {data \in [over -> {"none"} \cup Records] : \A id \in over : data[id] = "good" => id \in server}

\* A transfer that failed is recorded, too.
OnHttpsGetExtKeyMutant(map, data) == Insert(map, data)

\* Nothing is kept of a transfer that delivered no byte.
OnHttpsGetExtKey(map, data) ==
  Insert(map, Restrict(data, {id \in DOMAIN data : data[id] # "none"}))

\* The room in the window is not given back.
CountMutant(over) ==
  /\ done' = done + Cardinality(over)
  /\ load' = load

\* Only one is counted of those that ended together.
CountOnceMutant(over) ==
  /\ done' = done + 1
  /\ load' = load - Cardinality(over)

Count(over) ==
  /\ done' = done + Cardinality(over)
  /\ load' = load - Cardinality(over)

\* One pass of Perform() over the requests in which some have ended.  The inner
\* loop is left at once when there is more to request, else when none is left;
\* entered with none it would do nothing, again and again.
Perform ==
  /\ phase = "poll"
  /\ \E over \in SUBSET urls \ {{}} : \E data \in Deliveries(over) :
       /\ urls' = urls \ over
       /\ keys' = OnHttpsGetExtKey(keys, data)
       /\ answered' = Insert(answered, data)
       /\ Count(over)
  /\ phase' = IF total # count \/ urls' = {} THEN LoopOr(done') ELSE "poll"
  /\ UNCHANGED <<fileVars, title, begin, count, total, endVars, historyVars>>

-----------------------------------------------------------------------------
(* writeExtKey()                                                           *)

\* The file is emptied when it is opened, if it can be.
OpenFile ==
  /\ phase = "open"
  /\ \/ /\ file' = Empty
        /\ phase' = "write"
        /\ UNCHANGED endVars
     \/ /\ Return("failed")
        /\ UNCHANGED file
  /\ UNCHANGED <<server, title, keys, loopVars, answered, historyVars>>

\* Only what was downloaded is written.
ToWriteMutant == Restrict(keys, DOMAIN keys \cap DOMAIN answered)

ToWrite == keys

WriteFile ==
  /\ phase = "write"
  /\ file' = ToWrite
  /\ Return("ok")
  /\ UNCHANGED <<server, title, keys, loopVars, answered, historyVars>>

-----------------------------------------------------------------------------
(* The rest of calculateKey()                                              *)

\* Without a record, or with one of another size, the key is made from the
\* signature alone; one of the right size that does not verify leaves the keys
\* as they were.
UseKey ==
  /\ phase = "verify"
  /\ \/ Recorded /\ keys[title.Id] = "good" /\ used' = "ext"
     \/ Recorded /\ keys[title.Id] = "bad" /\ used' \in {"plain", "unset"}
     \/ ~Recorded /\ used' = "plain"
  /\ result' = "ok"
  /\ phase' = "idle"
  /\ UNCHANGED <<fileVars, title, keys, loopVars, answered, historyVars>>

\* The records of the first ids in the order of the map are in the file, maybe
\* with a part of the next one.
CutAfter(last, tail) ==
  [id \in {i \in DOMAIN keys : i <= last} |-> IF id = last THEN tail ELSE keys[id]]

CutFile == {Empty} \cup {CutAfter(last, tail) : last \in DOMAIN keys, tail \in Records}

Kill ==
  /\ phase # "idle"
  /\ kills < MaxKills
  /\ kills' = kills + 1
  /\ IF phase = "write"
     THEN file' \in {f \in CutFile : \A id \in DOMAIN f : f[id] \in {keys[id], "bad"}} /\ cut' = TRUE
     ELSE UNCHANGED <<file, cut>>
  /\ phase' = "idle"
  /\ result' = "killed"
  /\ urls' = {}
  /\ UNCHANGED <<server, title, keys, begin, count, done, total, load, used, answered,
                 before, runs>>

-----------------------------------------------------------------------------

Init ==
  /\ server \in SUBSET Ids
  /\ file = Empty
  /\ phase = "idle"
  /\ title = NoTitle
  /\ keys = Empty
  /\ begin = 0 /\ count = 0 /\ done = 0 /\ total = 0 /\ load = 0
  /\ urls = {}
  /\ result = "ok" /\ used = "unset"
  /\ answered = Empty
  /\ before = Empty
  /\ cut = FALSE
  /\ runs = 0 /\ kills = 0

Program == Request \/ EndFill \/ Perform \/ OpenFile \/ WriteFile \/ UseKey

Next == StartDownload \/ StartTitle \/ Program \/ Kill

\* A run goes on until it ends, and curl ends every transfer some time.
Spec == Init /\ [][Next]_vars /\ WF_vars(Program)

-----------------------------------------------------------------------------
(* Properties                                                              *)

IsRecords(f) == DOMAIN f \subseteq Ids /\ \A id \in DOMAIN f : f[id] \in Records

TypeOK ==
  /\ server \subseteq Ids
  /\ IsRecords(file) /\ IsRecords(keys) /\ IsRecords(before)
  /\ phase \in {"idle", "fill", "poll", "open", "write", "verify"}
  /\ title \in Titles \cup {NoTitle}
  /\ {begin, count, done, total, load} \subseteq Nat
  /\ urls \subseteq Ids
  /\ result \in {"ok", "failed", "killed"}
  /\ used \in {"ext", "plain", "unset"}
  /\ DOMAIN answered \subseteq Ids
  /\ cut \in BOOLEAN
  /\ runs \in 0 .. MaxRuns /\ kills \in 0 .. MaxKills

\* Whatever the order in which requests end, the three counters agree with what is
\* under way, the window is never exceeded, and every id of the range up to the
\* last one requested is either under way or was answered, once (ncch.cpp Download).
Accounting ==
  phase \in {"fill", "poll"} =>
    /\ load = Cardinality(urls) /\ load <= Window
    /\ done + load = total /\ total <= count
    /\ urls \cap DOMAIN answered = {}
    /\ urls \cup DOMAIN answered = begin .. (begin + total - 1)

Keeps(f, g) == \A id \in DOMAIN g : id \in DOMAIN f /\ f[id] = g[id]

\* Unless a run is killed while it writes the file, what was in it stays in it; and
\* after a run that returned true it also holds what was delivered for every other id
\* (ncch.cpp readExtKey, onHttpsGetExtKey, writeExtKey).
CacheGrows ==
  phase = "idle" /\ ~cut =>
    /\ Keeps(file, before)
    /\ result = "ok" /\ title = NoTitle =>
         \A id \in DOMAIN answered \ DOMAIN before :
           answered[id] # "none" => id \in DOMAIN file /\ file[id] = answered[id]

\* An application gets its key if it was in the file or is delivered now, be the file
\* writable or not (ncch.cpp calculateKey).
TitleGetsItsKey ==
  /\ phase = "idle" /\ result = "ok" /\ title.High = "app"
  /\ LET known == Insert(before, answered) IN title.Id \in DOMAIN known /\ known[title.Id] = "good"
  => used = "ext"

\* A key that "--download" got from the server is in the file afterwards.
DownloadedIsRecorded ==
  phase = "idle" /\ result = "ok" /\ title = NoTitle =>
    \A id \in DOMAIN answered : answered[id] = "good" =>
      id \in DOMAIN file /\ file[id] = "good"

\* Every run ends: the two nested loops always come to the last id (ncch.cpp Download).
RunsEnd == phase # "idle" ~> phase = "idle"
=============================================================================
