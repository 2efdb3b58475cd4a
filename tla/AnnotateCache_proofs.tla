------------------------ MODULE AnnotateCache_proofs ------------------------
(***************************************************************************)
(* Proofs of the safety properties of AnnotateCache, for any number of     *)
(* requests and refs.                                                      *)
(***************************************************************************)
EXTENDS AnnotateCache, TLAPS

-----------------------------------------------------------------------------
(* The inductive invariant, part by part *)

\* An entry is for the file that one of its ref's requests has downloaded, or
\* for the local file of the ref: no two entries share a file.
Held ==
  \A r \in Refs : Cached(r) =>
    IF cache[r].owned
    THEN cache[r].file \in Requests /\ ref[cache[r].file] = r
    ELSE cache[r].file = r /\ r \notin Remote

\* No entry is expired before one has outlived its TTL.
NoneExpired == expiries = 0 => \A r \in Refs : Cached(r) => ~cache[r].expired

\* A stream of a URL's file is of a downloaded one, which is there until an
\* entry has outlived its TTL.
StreamsHold ==
  \A p \in Requests : pc[p] = "stream" /\ ref[p] \in Remote =>
    file[p] \in Requests /\ (expiries = 0 => file[p] \in disk)

Kept == TypeOK /\ Held /\ CachedFilesExist /\ NoneExpired

\* Two downloads of a ref at the same time have crossed.
Overlaps ==
  \A p, q \in Requests :
    p # q /\ pc[p] = "download" /\ pc[q] = "download" /\ ref[p] = ref[q] => p \in crossed

\* Only files of URLs are downloaded; a download has found no entry, and one that
\* has been set since is that of a download that it has crossed.
DownloadsMiss ==
  \A p \in Requests : pc[p] = "download" =>
    /\ ref[p] \in Remote
    /\ Cached(ref[p]) => p \in crossed /\ cache[ref[p]].file \in crossed

-----------------------------------------------------------------------------
(* The cache and the disk *)

\* An eviction removes entries, and only the files that are theirs.
LEMMA Evicted ==
  ASSUME Kept, NEW S \in SUBSET Refs, \A s \in S : Cached(s), NEW spared
  PROVE  /\ AfterEviction(S, spared).entries \in [Refs -> Entry \cup {NoEntry}]
         /\ \A r \in Refs :
              AfterEviction(S, spared).entries[r] = IF r \in S THEN NoEntry ELSE cache[r]
         /\ AfterEviction(S, spared).files \subseteq disk
         /\ \A f \in disk \ AfterEviction(S, spared).files :
              f \in Requests /\ ref[f] \in S /\ cache[ref[f]].file = f
         /\ \A s \in S : cache[s].owned /\ cache[s].file \in AfterEviction(S, spared).files =>
              cache[s].file \in spared
<1>1. AfterEviction(S, spared).entries = [r \in Refs |-> IF r \in S THEN NoEntry ELSE cache[r]]
  BY DEF AfterEviction
<1>2. AfterEviction(S, spared).files = disk \ (FilesOf(S) \ spared)
  BY DEF AfterEviction
<1>3. ASSUME NEW f \in FilesOf(S)
      PROVE  f \in Requests /\ ref[f] \in S /\ cache[ref[f]].file = f
  <2>1. PICK s \in S : cache[s].owned /\ f = cache[s].file
    BY DEF FilesOf
  <2> QED
    BY <2>1 DEF Kept, Held
<1>4. \A s \in S : cache[s].owned => cache[s].file \in FilesOf(S)
  BY DEF FilesOf
<1> QED
  BY <1>1, <1>2, <1>3, <1>4 DEF Kept, TypeOK

\* The files that an unlink fails to remove are counted.
LEMMA Spared ==
  ASSUME TypeOK, NEW S, NEW spared, Spare(S, spared)
  PROVE  faults' \in 0 .. MaxFaults /\ stray' = stray \cup spared /\ stray' \subseteq Files
<1>1. spared \subseteq Files
  BY DEF Spare, TypeOK
<1>2. CASE spared = {}
  BY <1>2 DEF Spare, TypeOK
<1>3. CASE spared # {}
  BY <1>1, <1>3, AnnotateAssumption DEF Spare, Fault, TypeOK
<1> QED
  BY <1>2, <1>3

\* An eviction leaves the cache sound.
LEMMA DropKeeps ==
  ASSUME Kept, NEW S \in SUBSET Refs, \A s \in S : Cached(s), Drop(S),
         UNCHANGED <<ref, expiries>>
  PROVE  /\ cache' \in [Refs -> Entry \cup {NoEntry}] /\ disk' \subseteq Files
         /\ Held' /\ CachedFilesExist' /\ NoneExpired'
         /\ faults' \in 0 .. MaxFaults /\ stray \subseteq stray' /\ stray' \subseteq Files
         /\ \A r \in Refs : cache'[r] = IF r \in S THEN NoEntry ELSE cache[r]
         /\ disk' \subseteq disk
         /\ \A f \in disk \ disk' : f \in Requests /\ ref[f] \in S /\ cache[ref[f]].file = f
         /\ \A s \in S : cache[s].owned /\ cache[s].file \in disk' => cache[s].file \in stray'
<1>0. PICK spared :
        /\ Spare(S, spared)
        /\ cache' = AfterEviction(S, spared).entries /\ disk' = AfterEviction(S, spared).files
  BY DEF Drop
<1>a. TypeOK
  BY DEF Kept
<1>b. faults' \in 0 .. MaxFaults /\ stray' = stray \cup spared /\ stray' \subseteq Files
  BY <1>0, <1>a, Spared
<1> DEFINE left == AfterEviction(S, spared)
<1>e. /\ left.entries \in [Refs -> Entry \cup {NoEntry}]
      /\ \A r \in Refs : left.entries[r] = IF r \in S THEN NoEntry ELSE cache[r]
      /\ left.files \subseteq disk
      /\ \A f \in disk \ left.files : f \in Requests /\ ref[f] \in S /\ cache[ref[f]].file = f
      /\ \A s \in S : cache[s].owned /\ cache[s].file \in left.files => cache[s].file \in spared
  BY Evicted
<1>f. cache' = left.entries /\ disk' = left.files
  BY <1>0
<1> HIDE DEF left
<1>c. /\ cache' \in [Refs -> Entry \cup {NoEntry}]
      /\ \A r \in Refs : cache'[r] = IF r \in S THEN NoEntry ELSE cache[r]
      /\ disk' \subseteq disk
      /\ \A f \in disk \ disk' : f \in Requests /\ ref[f] \in S /\ cache[ref[f]].file = f
      /\ \A s \in S : cache[s].owned /\ cache[s].file \in disk' => cache[s].file \in spared
  BY <1>e, <1>f
<1>1. \A r \in Refs : Cached(r)' => Cached(r) /\ r \notin S /\ cache'[r] = cache[r]
  BY <1>c DEF Cached
<1>2. ASSUME NEW r \in Refs, Cached(r)', cache'[r].owned PROVE cache'[r].file \in disk'
  <2>1. Cached(r) /\ r \notin S /\ cache[r].owned /\ cache'[r] = cache[r]
    BY <1>1, <1>2
  <2>2. cache[r].file \in disk /\ ref[cache[r].file] = r
    BY <2>1 DEF Kept, Held, CachedFilesExist
  <2> QED
    BY <1>c, <2>1, <2>2
<1>3. Held'
  BY <1>1 DEF Kept, Held
<1>4. NoneExpired'
  BY <1>1 DEF Kept, NoneExpired
<1> QED
  BY <1>b, <1>c, <1>2, <1>3, <1>4 DEF Kept, TypeOK, CachedFilesExist

\* So does setting an entry for a file that is there.
LEMMA CacheSetKeeps ==
  ASSUME Kept, NEW r \in Refs, NEW f \in Files, NEW owned \in BOOLEAN, CacheSet(r, f, owned),
         IF owned THEN f \in Requests /\ ref[f] = r ELSE f = r /\ r \notin Remote,
         UNCHANGED <<ref, expiries>>
  PROVE  /\ cache' \in [Refs -> Entry \cup {NoEntry}] /\ disk' \subseteq Files
         /\ Held' /\ CachedFilesExist' /\ NoneExpired'
         /\ cache'[r] = [file |-> f, owned |-> owned, expired |-> FALSE]
         /\ \A s \in Refs \ {r} : cache'[s] = IF s \in Expired(Refs) THEN NoEntry ELSE cache[s]
         /\ f \in disk' /\ disk' \subseteq disk \cup {f}
         /\ \A g \in disk \ disk' : g \in Requests /\ ref[g] \in Expired(Refs)
         /\ faults' \in 0 .. MaxFaults /\ stray \subseteq stray' /\ stray' \subseteq Files
         /\ \A s \in Expired(Refs) :
              cache[s].owned /\ cache[s].file \in disk' => cache[s].file \in stray' \cup {f}
<1> DEFINE S == Expired(Refs)
           new == [file |-> f, owned |-> owned, expired |-> FALSE]
<1>a. PICK spared :
        /\ Spare(S, spared)
        /\ cache' = [AfterEviction(S, spared).entries EXCEPT ![r] = new]
        /\ disk' = AfterEviction(S, spared).files \cup {f}
  BY DEF CacheSet
<1>b. TypeOK
  BY DEF Kept
<1>c. faults' \in 0 .. MaxFaults /\ stray' = stray \cup spared /\ stray' \subseteq Files
  BY <1>a, <1>b, Spared
<1> DEFINE left == AfterEviction(S, spared)
<1>0. S \in SUBSET Refs /\ \A s \in S : Cached(s) /\ cache[s].expired
  BY DEF Expired
<1>1. new \in Entry /\ new # NoEntry
  <2>1. FALSE \in BOOLEAN
    OBVIOUS
  <2>2. new \in Entry
    BY <2>1 DEF Entry
  <2> QED
    BY <2>2, AnnotateAssumption
<1>2. cache' = [left.entries EXCEPT ![r] = new] /\ disk' = left.files \cup {f}
  BY <1>a
<1>e. /\ left.entries \in [Refs -> Entry \cup {NoEntry}]
      /\ \A s \in Refs : left.entries[s] = IF s \in S THEN NoEntry ELSE cache[s]
      /\ left.files \subseteq disk
      /\ \A g \in disk \ left.files : g \in Requests /\ ref[g] \in S /\ cache[ref[g]].file = g
      /\ \A s \in S : cache[s].owned /\ cache[s].file \in left.files => cache[s].file \in spared
  BY <1>0, Evicted
<1> HIDE DEF left
<1>3. cache'[r] = new /\ \A s \in Refs \ {r} : cache'[s] = IF s \in S THEN NoEntry ELSE cache[s]
  <2> HIDE DEF new, S
  <2> QED
    BY <1>2, <1>e
<1>4. \A s \in Refs \ {r} : Cached(s)' => Cached(s) /\ s \notin S /\ cache'[s] = cache[s]
  BY <1>3 DEF Cached
<1>5. ASSUME NEW s \in Refs, Cached(s)', cache'[s].owned PROVE cache'[s].file \in disk'
  <2>1. CASE s = r
    BY <1>2, <1>3, <2>1
  <2>2. CASE s # r
    <3>1. Cached(s) /\ s \notin S /\ cache[s].owned /\ cache'[s] = cache[s]
      BY <1>4, <1>5, <2>2
    <3>2. cache[s].file \in disk /\ ref[cache[s].file] = s
      BY <3>1 DEF Kept, Held, CachedFilesExist
    <3>3. cache[s].file \in left.files
      BY <1>e, <3>1, <3>2
    <3> QED
      BY <1>2, <3>1, <3>3
  <2> QED
    BY <2>1, <2>2
<1>6. Held'
  <2>1. new.file = f /\ new.owned = owned
    OBVIOUS
  <2> HIDE DEF new
  <2> QED
    BY <1>3, <1>4, <2>1 DEF Kept, Held
<1>7. NoneExpired'
  <2>1. new.expired = FALSE
    OBVIOUS
  <2> HIDE DEF new
  <2> QED
    BY <1>3, <1>4, <2>1 DEF Kept, NoneExpired
<1>8. cache' \in [Refs -> Entry \cup {NoEntry}] /\ disk' \subseteq Files
  <2> HIDE DEF new
  <2> QED
    BY <1>1, <1>2, <1>e DEF Kept, TypeOK
<1>9. \A g \in disk \ disk' : g \in Requests /\ ref[g] \in S
  BY <1>2, <1>e
<1>10. f \in disk' /\ disk' \subseteq disk \cup {f}
  BY <1>2, <1>e
<1>11. \A s \in S : cache[s].owned /\ cache[s].file \in disk' => cache[s].file \in stray' \cup {f}
  BY <1>2, <1>c, <1>e
<1> QED
  BY <1>3, <1>5, <1>6, <1>7, <1>8, <1>9, <1>10, <1>11, <1>c DEF CachedFilesExist

-----------------------------------------------------------------------------
(* The steps *)

\* Whether a file is streamed, marked or done with next, pc stays a label.
LEMMA PathTyped ==
  ASSUME TypeOK, NEW p \in Requests, NEW f \in Files, WithPath(p, f)
  PROVE  /\ pc' \in [Requests -> Labels] /\ file' \in [Requests -> Files \cup {NoFile}]
         /\ file' = [file EXCEPT ![p] = f]
         /\ \A q \in Requests \ {p} : pc'[q] = pc[q]
         /\ pc'[p] \in {"done", "failed", "stream", "mark"}
<1>1. kind[p] \in {"meta", "file", "save"}
  BY DEF TypeOK
<1>2. \E next \in {"done", "failed", "stream", "mark"} : Goto(p, next)
  <2>1. CASE kind[p] = "meta"
    BY <2>1 DEF WithPath
  <2>2. CASE kind[p] = "file"
    BY <2>2 DEF WithPath
  <2>3. CASE kind[p] = "save"
    BY <2>3 DEF WithPath
  <2> QED
    BY <1>1, <2>1, <2>2, <2>3
<1> QED
  BY <1>2 DEF WithPath, Goto, TypeOK, Labels

\* What the fetch of a path may do.
LEMMA FetchCases ==
  ASSUME Kept, NEW p \in Requests, FetchPath(p)
  PROVE  \/ /\ CacheHit(ref[p]) /\ UNCHANGED <<cache, disk, history>>
            /\ cache[ref[p]].file \in Files /\ WithPath(p, cache[ref[p]].file)
         \/ \E S \in SUBSET Refs :
              /\ S = {r \in {ref[p]} : Cached(r)} /\ ~CacheHit(ref[p]) /\ Drop(S)
              /\ UNCHANGED file
              /\ \/ /\ Goto(p, "download") /\ ref[p] \in Remote
                    /\ crossed' = crossed \cup Crossing(p)
                 \/ Goto(p, "failed") /\ UNCHANGED crossed
         \/ /\ ~CacheHit(ref[p]) /\ ref[p] \notin Remote
            /\ CacheSet(ref[p], ref[p], FALSE) /\ WithPath(p, ref[p]) /\ UNCHANGED crossed
<1> DEFINE r == ref[p]
           S == {s \in {r} : Cached(s)}
<1>0. r \in Refs /\ S \in SUBSET Refs
  BY DEF Kept, TypeOK
<1>2. CASE CacheHit(r) /\ WithPath(p, cache[r].file) /\ UNCHANGED <<cache, disk, history>>
  <2>1. cache[r] \in Entry
    BY <1>0, <1>2 DEF CacheHit, Usable, Cached, Kept, TypeOK
  <2>2. cache[r].file \in Files
    BY <2>1 DEF Entry
  <2> QED
    BY <1>2, <2>2
<1>3. CASE /\ ~CacheHit(r) /\ r \in Remote /\ Drop(S)
           /\ crossed' = crossed \cup Crossing(p)
           /\ Goto(p, "download") /\ UNCHANGED file
  BY <1>0, <1>3
<1>4. CASE /\ ~CacheHit(r) /\ r \notin Remote /\ CacheSet(r, r, FALSE) /\ WithPath(p, r)
           /\ UNCHANGED crossed
  BY <1>4
<1>5. CASE ~CacheHit(r) /\ Drop(S) /\ Goto(p, "failed") /\ UNCHANGED <<file, crossed>>
  BY <1>0, <1>5
<1> QED
  BY <1>2, <1>3, <1>4, <1>5 DEF FetchPath

\* One step keeps the cache sound.
LEMMA KeptStep == Kept /\ [Next]_vars => Kept'
<1> SUFFICES ASSUME Kept, [Next]_vars PROVE Kept'
  OBVIOUS
<1>a. {"idle", "row", "fetch", "download", "stream", "mark", "callback", "done", "failed", "gone"}
        = Labels
  BY DEF Labels
<1>b. ASSUME NEW p \in Requests, NEW l \in Labels, Goto(p, l) PROVE pc' \in [Requests -> Labels]
  BY <1>b DEF Goto, Kept, TypeOK
<1>0. ASSUME UNCHANGED <<cache, disk, ref, expiries>>
      PROVE  /\ cache' \in [Refs -> Entry \cup {NoEntry}] /\ disk' \subseteq Files
             /\ Held' /\ CachedFilesExist' /\ NoneExpired'
  BY <1>0 DEF Kept, TypeOK, Held, CachedFilesExist, NoneExpired, Cached
<1>c. ASSUME UNCHANGED history PROVE /\ faults' \in 0 .. MaxFaults /\ stray' \subseteq Files
                                     /\ crossed' \subseteq Requests
  BY <1>c DEF history, Kept, TypeOK
<1>1. ASSUME NEW p \in Requests, FetchPath(p) PROVE Kept'
  <2>1. UNCHANGED <<expiries, kind, ref, marked>> /\ ref[p] \in Refs
    BY <1>1 DEF FetchPath, given, Kept, TypeOK
  <2>2. CASE /\ UNCHANGED <<cache, disk, history>>
             /\ cache[ref[p]].file \in Files /\ WithPath(p, cache[ref[p]].file)
    BY <1>0, <1>c, <2>1, <2>2, PathTyped DEF Kept, TypeOK
  <2>3. CASE \E S \in SUBSET Refs :
               /\ S = {r \in {ref[p]} : Cached(r)} /\ Drop(S)
               /\ UNCHANGED file
               /\ \/ Goto(p, "download") /\ crossed' = crossed \cup Crossing(p)
                  \/ Goto(p, "failed") /\ UNCHANGED crossed
    <3>1. PICK S \in SUBSET Refs : S = {r \in {ref[p]} : Cached(r)} /\ Drop(S)
      BY <2>3
    <3>2. \A s \in S : Cached(s)
      BY <3>1
    <3>3. /\ cache' \in [Refs -> Entry \cup {NoEntry}] /\ disk' \subseteq Files
          /\ Held' /\ CachedFilesExist' /\ NoneExpired'
          /\ faults' \in 0 .. MaxFaults /\ stray' \subseteq Files
      BY <2>1, <3>1, <3>2, DropKeeps
    <3>4. pc' \in [Requests -> Labels]
      BY <1>a, <1>b, <2>3
    <3>5. crossed' \subseteq Requests
      BY <2>3 DEF Crossing, Kept, TypeOK
    <3> QED
      BY <2>1, <2>3, <3>3, <3>4, <3>5 DEF Kept, TypeOK
  <2>4. CASE /\ ref[p] \notin Remote /\ CacheSet(ref[p], ref[p], FALSE) /\ WithPath(p, ref[p])
             /\ UNCHANGED crossed
    <3>1. ref[p] \in Files
      BY <2>1 DEF Files
    <3>2. /\ cache' \in [Refs -> Entry \cup {NoEntry}] /\ disk' \subseteq Files
          /\ Held' /\ CachedFilesExist' /\ NoneExpired'
          /\ faults' \in 0 .. MaxFaults /\ stray' \subseteq Files
      BY <2>1, <2>4, <3>1, CacheSetKeeps
    <3> QED
      BY <2>1, <2>4, <3>1, <3>2, PathTyped DEF Kept, TypeOK
  <2> QED
    BY <1>1, <2>2, <2>3, <2>4, FetchCases
<1>2. ASSUME NEW p \in Requests, Download(p) PROVE Kept'
  <2>1. UNCHANGED <<expiries, kind, ref, marked, crossed>> /\ ref[p] \in Refs /\ p \in Files
    BY <1>2 DEF Download, given, Kept, TypeOK, Files
  <2>2. CASE CacheSet(ref[p], p, TRUE) /\ WithPath(p, p)
    <3>1. /\ cache' \in [Refs -> Entry \cup {NoEntry}] /\ disk' \subseteq Files
          /\ Held' /\ CachedFilesExist' /\ NoneExpired'
          /\ faults' \in 0 .. MaxFaults /\ stray' \subseteq Files
      BY <2>1, <2>2, CacheSetKeeps
    <3> QED
      BY <2>1, <2>2, <3>1, PathTyped DEF Kept, TypeOK
  <2>3. CASE Goto(p, "failed") /\ UNCHANGED <<cache, disk, file, faults, stray>>
    BY <1>0, <1>a, <1>b, <2>1, <2>3 DEF Kept, TypeOK
  <2>4. CASE /\ Fault({p}) /\ disk' = disk \cup {p} /\ Goto(p, "failed") /\ UNCHANGED <<cache, file>>
    <3>1. faults' \in 0 .. MaxFaults /\ stray' \subseteq Files
      BY <2>1, <2>4, AnnotateAssumption DEF Fault, Kept, TypeOK
    <3>2. Held' /\ CachedFilesExist' /\ NoneExpired'
      BY <2>1, <2>4 DEF Kept, Held, CachedFilesExist, NoneExpired, Cached
    <3>3. pc' \in [Requests -> Labels]
      BY <1>a, <1>b, <2>4
    <3> QED
      BY <2>1, <2>4, <3>1, <3>2, <3>3 DEF Kept, TypeOK
  <2> QED
    BY <1>2, <2>2, <2>3, <2>4 DEF Download
<1>3. ASSUME NEW p \in Requests,
             Call(p) \/ GetRow(p) \/ StreamFile(p) \/ MarkHighlighted(p) \/ SendCallback(p)
      PROVE  Kept'
  <2>1. UNCHANGED <<cache, disk, expiries, kind, ref, file, history>>
    BY <1>3 DEF Call, GetRow, StreamFile, MarkHighlighted, SendCallback, given
  <2>2. pc' \in [Requests -> Labels]
    BY <1>3, <1>a, <1>b DEF Call, GetRow, StreamFile, MarkHighlighted, SendCallback
  <2>3. marked' \subseteq Refs
    BY <1>3 DEF Call, GetRow, StreamFile, MarkHighlighted, SendCallback, Kept, TypeOK
  <2> QED
    BY <1>0, <1>c, <2>1, <2>2, <2>3 DEF Kept, TypeOK
<1>4. ASSUME NEW r \in Refs, Expire(r) PROVE Kept'
  <2>1. /\ cache[r] \in Entry /\ expiries' = expiries + 1 /\ expiries < MaxExpiries
        /\ cache' = [cache EXCEPT ![r].expired = TRUE]
        /\ UNCHANGED <<disk, pc, kind, ref, file, marked, faults, stray, crossed>>
    BY <1>4 DEF Expire, Cached, Kept, TypeOK, given, history
  <2>2. /\ [cache[r] EXCEPT !.expired = TRUE] \in Entry
        /\ [cache[r] EXCEPT !.expired = TRUE].owned = cache[r].owned
        /\ [cache[r] EXCEPT !.expired = TRUE].file = cache[r].file
    BY <2>1 DEF Entry
  <2>3. cache' = [cache EXCEPT ![r] = [cache[r] EXCEPT !.expired = TRUE]]
    BY <2>1
  <2> DEFINE new == [cache[r] EXCEPT !.expired = TRUE]
  <2> HIDE DEF new
  <2>4. new \in Entry /\ new.owned = cache[r].owned /\ new.file = cache[r].file
    BY <2>2 DEF new
  <2>5. cache'[r] = new /\ \A s \in Refs \ {r} : cache'[s] = cache[s]
    BY <2>3 DEF new, Kept, TypeOK
  <2>6. Cached(r)
    BY <1>4 DEF Expire
  <2>7. Held' /\ CachedFilesExist'
    BY <2>1, <2>4, <2>5, <2>6 DEF Kept, Held, CachedFilesExist, Cached
  <2>8. cache' \in [Refs -> Entry \cup {NoEntry}]
    BY <2>3, <2>4 DEF new, Kept, TypeOK
  <2>9. expiries' \in 0 .. MaxExpiries /\ expiries' # 0
    BY <2>1, AnnotateAssumption DEF Kept, TypeOK
  <2> QED
    BY <2>1, <2>7, <2>8, <2>9 DEF Kept, TypeOK, NoneExpired
<1>5. ASSUME NEW r \in Refs, RemoveSource(r) PROVE Kept'
  <2>1. CachedFilesExist'
    BY <1>5, AnnotateAssumption DEF RemoveSource, Kept, Held, CachedFilesExist, Cached
  <2> QED
    BY <1>5, <2>1 DEF RemoveSource, Kept, TypeOK, Held, NoneExpired, Cached, given, history
<1>6. CASE UNCHANGED vars
  BY <1>0, <1>6 DEF vars, Kept, TypeOK
<1>7. CASE Restart
  <2>1. \A r \in Refs : cache'[r] = NoEntry
    BY <1>7 DEF Restart
  <2>2. cache' \in [Refs -> Entry \cup {NoEntry}] /\ Held' /\ CachedFilesExist' /\ NoneExpired'
    BY <1>7, <2>1 DEF Restart, Held, CachedFilesExist, NoneExpired, Cached
  <2>3. faults' \in 0 .. MaxFaults /\ stray' \subseteq Files
    BY <1>7, AnnotateAssumption DEF Restart, Fault, Kept, TypeOK
  <2>4. pc' \in [Requests -> Labels]
    BY <1>7, <1>a DEF Restart, Kept, TypeOK
  <2> QED
    BY <1>7, <2>2, <2>3, <2>4 DEF Restart, given, Kept, TypeOK
<1> QED
  BY <1>1, <1>2, <1>3, <1>4, <1>5, <1>6, <1>7 DEF Next, Step

\* A file that goes away is a local one that CPA removes, or one of ours whose
\* entry has outlived its TTL.
LEMMA FilesRemoved ==
  ASSUME Kept, [Next]_vars, NEW f \in disk \ disk'
  PROVE  \/ f \in Refs /\ \E r \in Refs : RemoveSource(r)
         \/ f \in Requests /\ expiries # 0 /\ ref[f] \in Expired(Refs)
<1>0. \A r \in Refs : Cached(r) /\ cache[r].expired => expiries # 0 /\ r \in Expired(Refs)
  BY DEF Kept, NoneExpired, Expired
<1>1. ASSUME NEW p \in Requests, FetchPath(p)
      PROVE  f \in Requests /\ expiries # 0 /\ ref[f] \in Expired(Refs)
  <2>1. CASE \E S \in SUBSET Refs :
               S = {r \in {ref[p]} : Cached(r)} /\ ~CacheHit(ref[p]) /\ Drop(S)
    <3>1. PICK S \in SUBSET Refs : S = {r \in {ref[p]} : Cached(r)} /\ ~CacheHit(ref[p]) /\ Drop(S)
      BY <2>1
    <3>0. UNCHANGED <<ref, expiries>> /\ \A s \in S : Cached(s)
      BY <1>1, <3>1 DEF FetchPath, given
    <3>2. f \in Requests /\ ref[f] \in S /\ cache[ref[f]].file = f
      BY <3>0, <3>1, DropKeeps
    <3>3. ref[f] = ref[p] /\ Cached(ref[f]) /\ ref[f] \in Refs
      BY <3>1, <3>2
    <3>4. cache[ref[f]].expired
      BY <3>1, <3>2, <3>3 DEF CacheHit, Usable
    <3> QED
      BY <1>0, <3>2, <3>3, <3>4
  <2>2. CASE ref[p] \notin Remote /\ CacheSet(ref[p], ref[p], FALSE)
    <3>1. ref[p] \in Refs /\ ref[p] \in Files /\ UNCHANGED <<ref, expiries>>
      BY <1>1 DEF FetchPath, given, Kept, TypeOK, Files
    <3>2. f \in Requests /\ ref[f] \in Expired(Refs)
      BY <2>2, <3>1, CacheSetKeeps
    <3> QED
      BY <1>0, <3>2 DEF Expired
  <2>3. CASE UNCHANGED disk
    BY <2>3
  <2> QED
    BY <1>1, <2>1, <2>2, <2>3, FetchCases
<1>2. ASSUME NEW p \in Requests, Download(p)
      PROVE  f \in Requests /\ expiries # 0 /\ ref[f] \in Expired(Refs)
  <2>1. CacheSet(ref[p], p, TRUE)
    BY <1>2 DEF Download
  <2>2. ref[p] \in Refs /\ p \in Files /\ UNCHANGED <<ref, expiries>>
    BY <1>2 DEF Download, given, Kept, TypeOK, Files
  <2>3. f \in Requests /\ ref[f] \in Expired(Refs)
    BY <2>1, <2>2, CacheSetKeeps
  <2> QED
    BY <1>0, <2>3 DEF Expired
<1>3. ASSUME NEW r \in Refs, RemoveSource(r) PROVE f \in Refs
  BY <1>3 DEF RemoveSource
<1>4. CASE /\ \A p \in Requests : ~FetchPath(p) /\ ~Download(p)
           /\ \A r \in Refs : ~RemoveSource(r)
  BY <1>4 DEF Next, Step, Call, GetRow, StreamFile, MarkHighlighted, SendCallback, Expire, Restart,
              vars
<1> QED
  BY <1>1, <1>2, <1>3, <1>4

\* A request keeps its ref, and time passes.
LEMMA ExpiriesGrow ==
  ASSUME Kept, [Next]_vars
  PROVE  ref' = ref /\ expiries \in Nat /\ expiries' \in Nat /\ expiries' >= expiries
<1>0. expiries \in Nat
  BY AnnotateAssumption DEF Kept, TypeOK
<1>1. ASSUME NEW p \in Requests, Call(p) \/ Step(p) PROVE UNCHANGED <<ref, expiries>>
  <2>1. CASE FetchPath(p)
    BY <2>1 DEF FetchPath, given
  <2>2. CASE Download(p)
    BY <2>2 DEF Download, given
  <2>3. CASE Call(p) \/ GetRow(p) \/ StreamFile(p) \/ MarkHighlighted(p) \/ SendCallback(p)
    BY <2>3 DEF Call, GetRow, StreamFile, MarkHighlighted, SendCallback, given
  <2> QED
    BY <1>1, <2>1, <2>2, <2>3 DEF Step
<1>2. ASSUME NEW r \in Refs, Expire(r) \/ RemoveSource(r)
      PROVE  ref' = ref /\ expiries' \in {expiries, expiries + 1}
  BY <1>2 DEF Expire, RemoveSource, given
<1>3. Restart => UNCHANGED <<ref, expiries>>
  BY DEF Restart, given
<1>4. UNCHANGED vars => UNCHANGED <<ref, expiries>>
  BY DEF vars
<1> QED
  BY <1>0, <1>1, <1>2, <1>3, <1>4 DEF Next

\* A stream has been given a file that is there; it keeps it.
LEMMA StreamsStep == Kept /\ StreamsHold /\ [Next]_vars => StreamsHold'
<1> SUFFICES ASSUME Kept, StreamsHold, [Next]_vars, NEW q \in Requests,
                    pc'[q] = "stream", ref'[q] \in Remote
             PROVE  file'[q] \in Requests /\ (expiries' = 0 => file'[q] \in disk')
  BY DEF StreamsHold
<1>1. ref' = ref /\ (expiries' = 0 => expiries = 0)
  BY ExpiriesGrow
<1>2. CASE pc[q] = "stream" /\ file'[q] = file[q]
  <2>1. file[q] \in Requests /\ (expiries = 0 => file[q] \in disk)
    BY <1>1, <1>2 DEF StreamsHold
  <2>2. file[q] \notin Refs
    BY <2>1, AnnotateAssumption
  <2> QED
    BY <1>1, <1>2, <2>1, <2>2, FilesRemoved
<1>3. CASE FetchPath(q)
  <2>1. CASE /\ CacheHit(ref[q]) /\ UNCHANGED <<cache, disk, history>>
             /\ cache[ref[q]].file \in Files /\ WithPath(q, cache[ref[q]].file)
    <3>1. file'[q] = cache[ref[q]].file
      BY <2>1, PathTyped DEF Kept, TypeOK
    <3>2. ref[q] \in Refs /\ Cached(ref[q]) /\ cache[ref[q]].file \in disk
      BY <2>1 DEF CacheHit, Usable, Kept, TypeOK
    <3>3. cache[ref[q]].file \in Requests
      BY <1>1, <3>2 DEF Kept, Held
    <3> QED
      BY <2>1, <3>1, <3>2, <3>3
  <2>2. CASE Goto(q, "download") \/ Goto(q, "failed")
    BY <2>2 DEF Goto, Kept, TypeOK
  <2> QED
    BY <1>1, <1>3, <2>1, <2>2, FetchCases
<1>4. CASE Download(q)
  <2>1. CASE CacheSet(ref[q], q, TRUE) /\ WithPath(q, q)
    <3>1. ref[q] \in Refs /\ q \in Files /\ UNCHANGED <<ref, expiries>>
      BY <1>4 DEF Download, given, Kept, TypeOK, Files
    <3>2. q \in disk'
      BY <2>1, <3>1, CacheSetKeeps
    <3>3. file'[q] = q
      BY <2>1, <3>1, PathTyped DEF Kept, TypeOK
    <3> QED
      BY <3>2, <3>3
  <2>2. CASE Goto(q, "failed")
    BY <2>2 DEF Goto, Kept, TypeOK
  <2> QED
    BY <1>4, <2>1, <2>2 DEF Download
<1>5. CASE ~FetchPath(q) /\ ~Download(q)
  <2>1. ASSUME NEW p \in Requests, p # q, FetchPath(p) \/ Download(p)
        PROVE  pc'[q] = pc[q] /\ file'[q] = file[q]
    <3>1. ASSUME NEW f \in Files, WithPath(p, f) PROVE pc'[q] = pc[q] /\ file'[q] = file[q]
      BY <2>1, <3>1, PathTyped DEF Kept, TypeOK
    <3>2. ASSUME Goto(p, "download") \/ Goto(p, "failed"), UNCHANGED file
          PROVE  pc'[q] = pc[q] /\ file'[q] = file[q]
      BY <2>1, <3>2 DEF Goto, Kept, TypeOK
    <3>3. p \in Files /\ ref[p] \in Files
      BY DEF Kept, TypeOK, Files
    <3>4. CASE FetchPath(p)
      BY <3>1, <3>2, <3>3, <3>4, FetchCases
    <3>5. CASE Download(p)
      BY <3>1, <3>2, <3>3, <3>5 DEF Download
    <3> QED
      BY <2>1, <3>4, <3>5
  <2>2. ASSUME NEW p \in Requests, 
               Call(p) \/ GetRow(p) \/ StreamFile(p) \/ MarkHighlighted(p) \/ SendCallback(p)
        PROVE  pc[q] = "stream" /\ file'[q] = file[q]
    <3>1. file' = file
      BY <2>2 DEF Call, GetRow, StreamFile, MarkHighlighted, SendCallback
    <3>2. pc'[p] # "stream"
      BY <2>2 DEF Call, GetRow, StreamFile, MarkHighlighted, SendCallback, Goto, Kept, TypeOK
    <3>3. \A s \in Requests \ {p} : pc'[s] = pc[s]
      BY <2>2 DEF Call, GetRow, StreamFile, MarkHighlighted, SendCallback, Goto, Kept, TypeOK
    <3> QED
      BY <3>1, <3>2, <3>3
  <2>3. ASSUME UNCHANGED <<pc, file>> PROVE pc[q] = "stream" /\ file'[q] = file[q]
    BY <2>3
  <2>4. ~Restart
    BY DEF Restart, Kept, TypeOK, Active, Ended
  <2>5. pc[q] = "stream" /\ file'[q] = file[q]
    BY <1>5, <2>1, <2>2, <2>3, <2>4 DEF Next, Step, Expire, RemoveSource, vars
  <2> QED
    BY <1>2, <2>5
<1> QED
  BY <1>3, <1>4, <1>5

\* One step keeps it true of the streams that have found their file gone.
LEMMA SurviveStep ==
  Kept /\ StreamsHold /\ StreamsSurvive /\ [Next]_vars => StreamsSurvive'
<1> SUFFICES ASSUME Kept, StreamsHold, StreamsSurvive, [Next]_vars, NEW q \in Requests,
                    pc'[q] = "gone", ref'[q] \in Remote
             PROVE  expiries' > 0
  BY DEF StreamsSurvive
<1>1. ref' = ref /\ expiries \in Nat /\ expiries' \in Nat /\ expiries' >= expiries
  BY ExpiriesGrow
<1>2. pc[q] = "gone" \/ (pc[q] = "stream" /\ file[q] \notin disk)
  <2>1. ASSUME NEW p \in Requests, FetchPath(p) \/ Download(p) PROVE pc[q] = "gone"
    <3>1. \/ \E f \in Files : WithPath(p, f)
          \/ Goto(p, "download") \/ Goto(p, "failed")
      <4>1. p \in Files /\ ref[p] \in Files
        BY DEF Kept, TypeOK, Files
      <4> QED
        BY <2>1, <4>1, FetchCases DEF Download
    <3>2. \A s \in Requests \ {p} : pc'[s] = pc[s]
      BY <3>1, PathTyped DEF Goto, Kept, TypeOK
    <3>3. pc'[p] # "gone"
      BY <3>1, PathTyped DEF Goto, Kept, TypeOK
    <3> QED
      BY <3>2, <3>3
  <2>2. ASSUME NEW p \in Requests,
               Call(p) \/ GetRow(p) \/ StreamFile(p) \/ MarkHighlighted(p) \/ SendCallback(p)
        PROVE  pc[q] = "gone" \/ (pc[q] = "stream" /\ file[q] \notin disk)
    BY <2>2 DEF Call, GetRow, StreamFile, MarkHighlighted, SendCallback, Goto, Kept, TypeOK
  <2>3. CASE UNCHANGED pc
    BY <2>3
  <2>4. CASE Restart
    BY <2>4 DEF Restart, Kept, TypeOK
  <2> QED
    BY <2>1, <2>2, <2>3, <2>4 DEF Next, Step, Expire, RemoveSource, vars
<1>3. expiries # 0
  <2>1. CASE pc[q] = "gone"
    <3>1. expiries > 0
      BY <1>1, <2>1 DEF StreamsSurvive
    <3> QED
      BY <1>1, <3>1
  <2>2. CASE pc[q] = "stream" /\ file[q] \notin disk
    BY <1>1, <2>2 DEF StreamsHold
  <2> QED
    BY <1>2, <2>1, <2>2
<1> QED
  BY <1>1, <1>3

\* What cache, files and streams satisfy together, in every reachable state.
LEMMA KeptInvariant == Spec => [](Kept /\ StreamsHold /\ StreamsSurvive)
<1>1. Init => Kept /\ StreamsHold /\ StreamsSurvive
  BY AnnotateAssumption DEF Init, Kept, TypeOK, Held, CachedFilesExist, NoneExpired, StreamsHold,
                            StreamsSurvive, Cached, Labels, Files
<1>2. Kept /\ StreamsHold /\ StreamsSurvive /\ [Next]_vars
        => (Kept /\ StreamsHold /\ StreamsSurvive)'
  BY KeptStep, StreamsStep, SurviveStep
<1> QED
  BY <1>1, <1>2, PTL DEF Spec

\* CacheIsSound: types are kept, an entry's downloaded file is there whoever
\* evicts what, and a stream never loses its file before an entry has outlived
\* its TTL.
THEOREM CacheSound == Spec => []CacheIsSound
<1>1. Kept /\ StreamsSurvive => CacheIsSound
  BY DEF Kept, CacheIsSound
<1> QED
  BY <1>1, KeptInvariant, PTL

\* OnlyOwnFilesDeleted: "never delete something we didn't create".
THEOREM OwnFilesOnly == Spec => OnlyOwnFilesDeleted
<1>1. ASSUME Kept, [Next]_vars
      PROVE  [\A r \in Refs : r \in disk /\ r \notin disk' => pc' = pc /\ cache' = cache]_vars
  BY <1>1, FilesRemoved, AnnotateAssumption DEF RemoveSource
<1> QED
  BY <1>1, KeptInvariant, PTL DEF Spec, OnlyOwnFilesDeleted

-----------------------------------------------------------------------------
(* Downloads at the same time *)

Apart == Kept /\ Overlaps /\ DownloadsMiss

\* What a request's own step does to the others, and to the history.
LEMMA OwnStep ==
  ASSUME Kept, NEW p \in Requests, Call(p) \/ Step(p)
  PROVE  /\ \A s \in Requests \ {p} : pc'[s] = pc[s]
         /\ crossed \subseteq crossed' /\ pc'[p] # pc[p]
<1>1. CASE FetchPath(p)
  <2>1. pc[p] = "fetch" /\ ref[p] \in Files
    BY <1>1 DEF FetchPath, Kept, TypeOK, Files
  <2>2. \/ \E f \in Files : WithPath(p, f)
        \/ Goto(p, "download") \/ Goto(p, "failed")
    BY <1>1, <2>1, FetchCases
  <2>3. crossed \subseteq crossed'
    BY <1>1, FetchCases DEF history
  <2> QED
    BY <2>1, <2>2, <2>3, PathTyped DEF Goto, Kept, TypeOK
<1>2. CASE Download(p)
  <2>1. pc[p] = "download" /\ p \in Files /\ crossed' = crossed
    BY <1>2 DEF Download, Files
  <2>2. WithPath(p, p) \/ Goto(p, "failed")
    BY <1>2 DEF Download
  <2> QED
    BY <2>1, <2>2, PathTyped DEF Goto, Kept, TypeOK
<1>3. CASE Call(p) \/ GetRow(p) \/ StreamFile(p) \/ MarkHighlighted(p) \/ SendCallback(p)
  BY <1>3 DEF Call, GetRow, StreamFile, MarkHighlighted, SendCallback, Goto, history, Kept, TypeOK
<1> QED
  BY <1>1, <1>2, <1>3 DEF Step

LEMMA CrossedGrows ==
  ASSUME Kept, [Next]_vars
  PROVE  crossed \subseteq crossed'
<1>1. ASSUME NEW p \in Requests, Call(p) \/ Step(p) PROVE crossed \subseteq crossed'
  BY <1>1, OwnStep
<1>2. CASE (\E r \in Refs : Expire(r) \/ RemoveSource(r)) \/ Restart \/ UNCHANGED vars
  BY <1>2 DEF Expire, RemoveSource, Restart, history, vars
<1> QED
  BY <1>1, <1>2 DEF Next

\* A request that downloads has been at it, or finds no entry and marks those
\* whose downloads it crosses.
LEMMA DownloadsBegin ==
  ASSUME Kept, [Next]_vars, NEW q \in Requests, pc'[q] = "download"
  PROVE  \/ pc[q] = "download"
         \/ /\ ref[q] \in Remote /\ ~Cached(ref[q])'
            /\ \A s \in Requests \ {q} : pc'[s] = pc[s]
            /\ crossed' = crossed \cup Crossing(q)
<1>1. ref[q] \in Refs /\ ref[q] \in Files
  BY DEF Kept, TypeOK, Files
<1>2. CASE FetchPath(q)
  <2>1. ~ \E f \in Files : WithPath(q, f)
    BY PathTyped DEF Kept
  <2>2. ~Goto(q, "failed")
    BY DEF Goto, Kept, TypeOK
  <2>3. PICK S \in SUBSET Refs :
          /\ S = {s \in {ref[q]} : Cached(s)} /\ Drop(S) /\ ref[q] \in Remote
          /\ crossed' = crossed \cup Crossing(q)
    BY <1>1, <1>2, <2>1, <2>2, FetchCases
  <2>4. UNCHANGED <<ref, expiries>> /\ \A s \in S : Cached(s)
    BY <1>2, <2>3 DEF FetchPath, given
  <2>5. \A r \in Refs : cache'[r] = IF r \in S THEN NoEntry ELSE cache[r]
    BY <2>3, <2>4, DropKeeps
  <2>6. cache'[ref[q]] = NoEntry
    BY <1>1, <2>3, <2>5 DEF Cached
  <2>7. ~Cached(ref[q])'
    BY <2>4, <2>6 DEF Cached
  <2>8. \A s \in Requests \ {q} : pc'[s] = pc[s]
    BY <1>2, OwnStep DEF Step
  <2> QED
    BY <2>3, <2>7, <2>8
<1>3. CASE ~FetchPath(q)
  <2>1. ASSUME NEW p \in Requests, p # q, Call(p) \/ Step(p) PROVE pc'[q] = pc[q]
    BY <2>1, OwnStep
  <2>2. Download(q) => pc[q] = "download"
    BY DEF Download
  <2>3. ~(Call(q) \/ GetRow(q) \/ StreamFile(q) \/ MarkHighlighted(q) \/ SendCallback(q))
    BY DEF Call, GetRow, StreamFile, MarkHighlighted, SendCallback, Goto, Kept, TypeOK
  <2>4. ~Restart \/ pc'[q] = pc[q]
    BY DEF Restart
  <2> QED
    BY <1>3, <2>1, <2>2, <2>3, <2>4 DEF Next, Step, Expire, RemoveSource, vars
<1> QED
  BY <1>2, <1>3

\* Two downloads of a ref mark each other when the second begins.
LEMMA OverlapsStep == Kept /\ Overlaps /\ [Next]_vars => Overlaps'
<1> SUFFICES ASSUME Kept, Overlaps, [Next]_vars, NEW p \in Requests, NEW q \in Requests, p # q,
                    pc'[p] = "download", pc'[q] = "download", ref'[p] = ref'[q]
             PROVE  p \in crossed'
  BY DEF Overlaps
<1>1. crossed \subseteq crossed' /\ ref' = ref
  BY CrossedGrows, ExpiriesGrow
<1>2. CASE pc[p] = "download" /\ pc[q] = "download"
  BY <1>1, <1>2 DEF Overlaps
<1>3. CASE pc[p] # "download"
  <2>1. pc'[q] = pc[q] /\ crossed' = crossed \cup Crossing(p)
    BY <1>3, DownloadsBegin
  <2> QED
    BY <1>1, <2>1 DEF Crossing
<1>4. CASE pc[q] # "download"
  <2>1. pc'[p] = pc[p] /\ crossed' = crossed \cup Crossing(q)
    BY <1>4, DownloadsBegin
  <2> QED
    BY <1>1, <2>1 DEF Crossing
<1> QED
  BY <1>2, <1>3, <1>4

\* An entry stays, or is set for a local file, or by a download that is done.
LEMMA EntryChanges ==
  ASSUME Kept, [Next]_vars, NEW r \in Refs, Cached(r)'
  PROVE  \/ Cached(r) /\ cache'[r].file = cache[r].file
         \/ r \notin Remote
         \/ \E p \in Requests : /\ ref[p] = r /\ pc[p] = "download" /\ pc'[p] # "download"
                                /\ cache'[r].file = p
<1> DEFINE Same == Cached(r) /\ cache'[r].file = cache[r].file
<1>1. ASSUME NEW p \in Requests, FetchPath(p) PROVE Same \/ r \notin Remote
  <2>1. ref[p] \in Refs /\ ref[p] \in Files /\ UNCHANGED <<ref, expiries>>
    BY <1>1 DEF FetchPath, given, Kept, TypeOK, Files
  <2>2. CASE \E S \in SUBSET Refs : S = {s \in {ref[p]} : Cached(s)} /\ Drop(S)
    <3>1. PICK S \in SUBSET Refs : S = {s \in {ref[p]} : Cached(s)} /\ Drop(S)
      BY <2>2
    <3>2. \A s \in S : Cached(s)
      BY <3>1
    <3>3. cache'[r] = IF r \in S THEN NoEntry ELSE cache[r]
      BY <2>1, <3>1, <3>2, DropKeeps
    <3> QED
      BY <3>3 DEF Cached
  <2>3. CASE ref[p] \notin Remote /\ CacheSet(ref[p], ref[p], FALSE)
    <3>1. \A s \in Refs \ {ref[p]} : cache'[s] \in {NoEntry, cache[s]}
      BY <2>1, <2>3, CacheSetKeeps
    <3>2. CASE r = ref[p]
      BY <2>3, <3>2
    <3>3. CASE r # ref[p]
      BY <3>1, <3>3 DEF Cached
    <3> QED
      BY <3>2, <3>3
  <2>4. CASE UNCHANGED cache
    BY <2>4 DEF Cached
  <2> QED
    BY <1>1, <2>2, <2>3, <2>4, FetchCases
<1>2. ASSUME NEW p \in Requests, Download(p)
      PROVE  Same \/ (ref[p] = r /\ pc[p] = "download" /\ pc'[p] # "download" /\ cache'[r].file = p)
  <2>1. ref[p] \in Refs /\ p \in Files /\ UNCHANGED <<ref, expiries>> /\ pc[p] = "download"
    BY <1>2 DEF Download, given, Kept, TypeOK, Files
  <2>2. CASE CacheSet(ref[p], p, TRUE) /\ WithPath(p, p)
    <3>1. \A s \in Refs \ {ref[p]} : cache'[s] \in {NoEntry, cache[s]}
      BY <2>1, <2>2, CacheSetKeeps
    <3>2. cache'[ref[p]].file = p
      <4>1. cache'[ref[p]] = [file |-> p, owned |-> TRUE, expired |-> FALSE]
        BY <2>1, <2>2, CacheSetKeeps
      <4> QED
        BY <4>1
    <3>3. pc'[p] # "download"
      BY <1>2, <2>1, OwnStep DEF Step
    <3>4. CASE r = ref[p]
      BY <2>1, <3>2, <3>3, <3>4
    <3>5. CASE r # ref[p]
      BY <3>1, <3>5 DEF Cached
    <3> QED
      BY <3>4, <3>5
  <2>3. CASE UNCHANGED cache
    BY <2>3 DEF Cached
  <2> QED
    BY <1>2, <2>2, <2>3 DEF Download
<1>3. ASSUME NEW s \in Refs, Expire(s) PROVE Same
  <2>1. /\ cache[s] \in Entry /\ cache' = [cache EXCEPT ![s] = [cache[s] EXCEPT !.expired = TRUE]]
        /\ Cached(s)
    BY <1>3 DEF Expire, Cached, Kept, TypeOK
  <2>2. [cache[s] EXCEPT !.expired = TRUE].file = cache[s].file
    BY <2>1 DEF Entry
  <2>3. CASE r = s
    BY <2>1, <2>2, <2>3 DEF Kept, TypeOK
  <2>4. CASE r # s
    BY <2>1, <2>4 DEF Cached, Kept, TypeOK
  <2> QED
    BY <2>3, <2>4
<1>4. CASE UNCHANGED cache
  BY <1>4 DEF Cached
<1>5. ~Restart
  BY DEF Restart, Cached
<1> QED
  BY <1>1, <1>2, <1>3, <1>4, <1>5
     DEF Next, Step, Call, GetRow, StreamFile, MarkHighlighted, SendCallback, RemoveSource, vars

\* An entry that is set while a ref is being downloaded is that of a download
\* it has crossed.
LEMMA DownloadsMissStep == Apart /\ [Next]_vars => DownloadsMiss'
<1> SUFFICES ASSUME Apart, [Next]_vars, NEW q \in Requests, pc'[q] = "download"
             PROVE  /\ ref'[q] \in Remote
                    /\ Cached(ref[q])' => q \in crossed' /\ cache'[ref'[q]].file \in crossed'
  BY DEF DownloadsMiss
<1> USE DEF Apart
<1>1. crossed \subseteq crossed' /\ ref' = ref /\ ref[q] \in Refs
  BY CrossedGrows, ExpiriesGrow DEF Kept, TypeOK
<1>2. CASE pc[q] # "download"
  BY <1>1, <1>2, DownloadsBegin
<1>3. CASE pc[q] = "download"
  <2>1. ref[q] \in Remote /\ (Cached(ref[q]) => q \in crossed /\ cache[ref[q]].file \in crossed)
    BY <1>3 DEF DownloadsMiss
  <2>2. ASSUME Cached(ref[q])' PROVE q \in crossed' /\ cache'[ref[q]].file \in crossed'
    <3>0. PICK r \in Refs : r = ref[q]
      BY <1>1
    <3>1. Cached(r)'
      BY <1>1, <2>2, <3>0 DEF Cached
    <3>2. CASE Cached(r) /\ cache'[r].file = cache[r].file
      BY <1>1, <2>1, <3>0, <3>2
    <3>3. CASE \E p \in Requests : /\ ref[p] = r /\ pc[p] = "download" /\ pc'[p] # "download"
                                   /\ cache'[r].file = p
      BY <1>1, <1>3, <3>0, <3>3 DEF Overlaps
    <3> QED
      BY <2>1, <3>0, <3>1, <3>2, <3>3, EntryChanges
  <2> QED
    BY <1>1, <2>1, <2>2
<1> QED
  BY <1>2, <1>3

\* What downloads know of each other, in every reachable state.
LEMMA ApartInvariant == Spec => []Apart
<1>1. Init => Overlaps /\ DownloadsMiss
  BY DEF Init, Overlaps, DownloadsMiss
<1>2. Apart /\ [Next]_vars => (Overlaps /\ DownloadsMiss)'
  BY OverlapsStep, DownloadsMissStep DEF Apart
<1>3. Apart <=> Kept /\ Overlaps /\ DownloadsMiss
  BY DEF Apart
<1> QED
  BY <1>1, <1>2, <1>3, KeptInvariant, PTL DEF Spec

\* A file of ours whose entry is dropped has gone, or a fault has spared it.
LEMMA StrayGrows ==
  ASSUME Kept, [Next]_vars
  PROVE  stray \subseteq stray'
<1>1. ASSUME NEW p \in Requests, FetchPath(p) PROVE stray \subseteq stray'
  <2>1. ref[p] \in Refs /\ ref[p] \in Files /\ UNCHANGED <<ref, expiries>>
    BY <1>1 DEF FetchPath, given, Kept, TypeOK, Files
  <2>2. CASE \E S \in SUBSET Refs : S = {s \in {ref[p]} : Cached(s)} /\ Drop(S)
    <3>1. PICK S \in SUBSET Refs : S = {s \in {ref[p]} : Cached(s)} /\ Drop(S)
      BY <2>2
    <3>2. \A s \in S : Cached(s)
      BY <3>1
    <3> QED
      BY <2>1, <3>1, <3>2, DropKeeps
  <2>3. CASE ref[p] \notin Remote /\ CacheSet(ref[p], ref[p], FALSE)
    BY <2>1, <2>3, CacheSetKeeps
  <2> QED
    BY <1>1, <2>2, <2>3, FetchCases DEF history
<1>2. ASSUME NEW p \in Requests, Download(p) PROVE stray \subseteq stray'
  <2>1. ref[p] \in Refs /\ p \in Files /\ UNCHANGED <<ref, expiries>>
    BY <1>2 DEF Download, given, Kept, TypeOK, Files
  <2>2. CASE CacheSet(ref[p], p, TRUE)
    BY <2>1, <2>2, CacheSetKeeps
  <2> QED
    BY <1>2, <2>2 DEF Download, Fault
<1> QED
  BY <1>1, <1>2 DEF Next, Step, Call, GetRow, StreamFile, MarkHighlighted, SendCallback, Expire,
                    RemoveSource, Restart, Fault, history, vars

\* NoOrphanFiles: a downloaded file is known to the cache, unless its download
\* has crossed another of the ref, or a fault has left it behind.
THEOREM NoOrphans == Spec => []NoOrphanFiles
<1>1. Init => NoOrphanFiles
  BY AnnotateAssumption DEF Init, NoOrphanFiles
<1>2. ASSUME Apart, NoOrphanFiles, [Next]_vars, NEW q \in Requests \cap disk',
             q \notin stray' \cup crossed'
      PROVE  Cached(ref[q])' /\ cache'[ref'[q]].file = q
  <2> USE <1>2 DEF Apart
  <2>0. /\ ref[q] \in Refs /\ ref' = ref /\ q \notin stray /\ q \notin crossed
    BY CrossedGrows, StrayGrows, ExpiriesGrow DEF Kept, TypeOK
  <2> DEFINE Known(r) == cache'[r] # NoEntry /\ cache'[r].file = q
  <2>1. ASSUME q \in disk
        PROVE  /\ Cached(ref[q]) /\ cache[ref[q]] # NoEntry /\ cache[ref[q]].file = q
               /\ cache[ref[q]] \in Entry /\ cache[ref[q]].owned
    <3>1. Cached(ref[q]) /\ cache[ref[q]].file = q
      BY <2>0, <2>1 DEF NoOrphanFiles
    <3> QED
      BY <2>0, <3>1, AnnotateAssumption DEF Cached, Kept, TypeOK, Held
  <2>2. ASSUME NEW p \in Requests, FetchPath(p) PROVE Known(ref[q])
    <3>0. ref[p] \in Refs /\ ref[p] \in Files /\ UNCHANGED <<ref, expiries>>
      BY <2>2 DEF FetchPath, given, Kept, TypeOK, Files
    <3>1. CASE CacheHit(ref[p]) /\ UNCHANGED <<cache, disk>>
      BY <2>1, <3>1
    <3>2. CASE \E S \in SUBSET Refs : S = {s \in {ref[p]} : Cached(s)} /\ Drop(S)
      <4>1. PICK S \in SUBSET Refs : S = {s \in {ref[p]} : Cached(s)} /\ Drop(S)
        BY <3>2
      <4>2. \A s \in S : Cached(s)
        BY <4>1
      <4>3. q \in disk
        BY <3>0, <4>1, <4>2, DropKeeps
      <4>4. \A s \in S : cache[s].owned /\ cache[s].file \in disk' => cache[s].file \in stray'
        BY <3>0, <4>1, <4>2, DropKeeps
      <4>5. ref[q] \notin S
        BY <2>1, <4>3, <4>4
      <4>6. cache'[ref[q]] = cache[ref[q]]
        BY <2>0, <3>0, <4>1, <4>2, <4>5, DropKeeps
      <4> QED
        BY <2>1, <4>3, <4>6
    <3>3. CASE ~CacheHit(ref[p]) /\ ref[p] \notin Remote /\ CacheSet(ref[p], ref[p], FALSE)
      <4>a. /\ disk' \subseteq disk \cup {ref[p]}
            /\ \A s \in Expired(Refs) : cache[s].owned /\ cache[s].file \in disk' =>
                 cache[s].file \in stray' \cup {ref[p]}
            /\ \A s \in Refs \ {ref[p]} :
                 cache'[s] = IF s \in Expired(Refs) THEN NoEntry ELSE cache[s]
        BY <3>0, <3>3, CacheSetKeeps
      <4>1. q # ref[p] /\ q \in disk
        BY <3>0, <4>a, AnnotateAssumption
      <4>2. ref[q] \notin Expired(Refs)
        BY <2>1, <4>a, <4>1
      <4>3. Usable(ref[q])
        BY <2>0, <2>1, <4>1, <4>2 DEF Expired, Usable
      <4>4. ref[q] # ref[p]
        BY <3>3, <4>3 DEF CacheHit
      <4> QED
        BY <2>0, <2>1, <4>a, <4>1, <4>2, <4>4
    <3> QED
      BY <2>2, <3>1, <3>2, <3>3, FetchCases
  <2>3. ASSUME NEW p \in Requests, Download(p) PROVE Known(ref[q])
    <3>0. ref[p] \in Refs /\ p \in Files /\ pc[p] = "download" /\ UNCHANGED <<ref, expiries>>
      BY <2>3 DEF Download, given, Kept, TypeOK, Files
    <3>1. CASE UNCHANGED <<cache, disk>>
      BY <2>1, <3>1
    <3>2. CASE CacheSet(ref[p], p, TRUE)
      <4>0. /\ cache' \in [Refs -> Entry \cup {NoEntry}]
            /\ cache'[ref[p]] = [file |-> p, owned |-> TRUE, expired |-> FALSE]
            /\ disk' \subseteq disk \cup {p}
            /\ \A s \in Expired(Refs) : cache[s].owned /\ cache[s].file \in disk' =>
                 cache[s].file \in stray' \cup {p}
            /\ \A s \in Refs \ {ref[p]} :
                 cache'[s] = IF s \in Expired(Refs) THEN NoEntry ELSE cache[s]
        BY <3>0, <3>2, CacheSetKeeps
      <4>1. CASE q = p
        <5>1. [file |-> p, owned |-> TRUE, expired |-> FALSE] \in Entry
          <6>1. TRUE \in BOOLEAN /\ FALSE \in BOOLEAN
            OBVIOUS
          <6> QED
            BY <3>0, <6>1 DEF Entry
        <5>2. cache'[ref[p]] # NoEntry
          BY <4>0, <5>1, AnnotateAssumption
        <5>3. cache'[ref[p]].file = p
          BY <4>0
        <5> QED
          BY <4>1, <5>2, <5>3
      <4>2. CASE q # p
        <5>1. q \in disk
          BY <4>0, <4>2
        <5>2. ref[q] # ref[p]
          BY <2>0, <2>1, <3>0, <5>1 DEF DownloadsMiss
        <5>3. ref[q] \notin Expired(Refs)
          BY <2>1, <4>0, <4>2, <5>1
        <5> QED
          BY <2>0, <2>1, <4>0, <5>1, <5>2, <5>3
      <4> QED
        BY <4>1, <4>2
    <3>3. CASE Fault({p}) /\ disk' = disk \cup {p} /\ UNCHANGED cache
      <4>1. q # p
        BY <3>3 DEF Fault
      <4> QED
        BY <2>1, <3>3, <4>1
    <3> QED
      BY <2>3, <3>1, <3>2, <3>3 DEF Download
  <2>4. ASSUME NEW r \in Refs, Expire(r) PROVE Known(ref[q])
    <3>1. /\ cache' = [cache EXCEPT ![r] = [cache[r] EXCEPT !.expired = TRUE]] /\ q \in disk
          /\ cache[r] \in Entry
      BY <2>4 DEF Expire, Cached, Kept, TypeOK
    <3>2. CASE r = ref[q]
      <4>1. /\ [cache[r] EXCEPT !.expired = TRUE] \in Entry
            /\ [cache[r] EXCEPT !.expired = TRUE].file = cache[r].file
        BY <3>1 DEF Entry
      <4>2. cache'[r] = [cache[r] EXCEPT !.expired = TRUE]
        BY <3>1 DEF Kept, TypeOK
      <4> QED
        BY <2>1, <3>1, <3>2, <4>1, <4>2, AnnotateAssumption
    <3>3. CASE r # ref[q]
      BY <2>0, <2>1, <3>1, <3>3 DEF Kept, TypeOK
    <3> QED
      BY <3>2, <3>3
  <2>5. ASSUME cache' = cache, disk' \subseteq disk PROVE Known(ref[q])
    BY <2>1, <2>5
  <2>6. ~Restart
    BY <2>0 DEF Restart, Fault
  <2>7. Known(ref[q])
    BY <2>2, <2>3, <2>4, <2>5, <2>6
       DEF Next, Step, Call, GetRow, StreamFile, MarkHighlighted, SendCallback, RemoveSource, vars
  <2> QED
    BY <2>0, <2>7 DEF Cached
<1>3. Apart /\ NoOrphanFiles /\ [Next]_vars => NoOrphanFiles'
  BY <1>2 DEF NoOrphanFiles
<1> QED
  BY <1>1, <1>3, ApartInvariant, PTL DEF Spec

\* DownloadedOnce: a request takes nothing away that is usable, unless its
\* download has crossed another of the ref.
THEOREM DownloadOnce == Spec => DownloadedOnce
<1>1. ASSUME Apart, [Next]_vars, NEW p \in Requests \ crossed, Step(p), NEW r \in Refs, Usable(r)
      PROVE  cache'[r] = cache[r] /\ cache[r].file \in disk'
  <2> USE <1>1 DEF Apart
  <2>1. Cached(r) /\ r \notin Expired(Refs) /\ cache[r].file \in disk /\ CacheHit(r)
    BY DEF Usable, Expired, CacheHit
  <2>2. cache[r].file \in disk'
    <3>1. cache[r].file \in Requests => ref[cache[r].file] = r
      BY <2>1, AnnotateAssumption DEF Kept, Held
    <3>2. \A s \in Refs : ~RemoveSource(s)
      BY OwnStep DEF RemoveSource
    <3> QED
      BY <2>1, <3>1, <3>2, FilesRemoved
  <2>3. CASE FetchPath(p)
    <3>0. ref[p] \in Refs /\ ref[p] \in Files /\ UNCHANGED <<ref, expiries>>
      BY <2>3 DEF Kept, TypeOK, Files, FetchPath, given
    <3>1. CASE \E S \in SUBSET Refs :
                 S = {s \in {ref[p]} : Cached(s)} /\ ~CacheHit(ref[p]) /\ Drop(S)
      <4>1. PICK S \in SUBSET Refs :
              S = {s \in {ref[p]} : Cached(s)} /\ ~CacheHit(ref[p]) /\ Drop(S)
        BY <3>1
      <4>2. r \notin S /\ \A s \in S : Cached(s)
        BY <2>1, <4>1
      <4> QED
        BY <2>2, <3>0, <4>1, <4>2, DropKeeps
    <3>2. CASE ~CacheHit(ref[p]) /\ ref[p] \notin Remote /\ CacheSet(ref[p], ref[p], FALSE)
      <4>1. \A s \in Refs \ {ref[p]} : cache'[s] = IF s \in Expired(Refs) THEN NoEntry ELSE cache[s]
        BY <3>0, <3>2, CacheSetKeeps
      <4>2. r # ref[p]
        BY <2>1, <3>2
      <4> QED
        BY <2>1, <2>2, <4>1, <4>2
    <3>3. CASE UNCHANGED cache
      BY <2>2, <3>3
    <3> QED
      BY <2>3, <3>1, <3>2, <3>3, FetchCases
  <2>4. CASE Download(p)
    <3>0. ref[p] \in Refs /\ p \in Files /\ pc[p] = "download" /\ UNCHANGED <<ref, expiries>>
      BY <2>4 DEF Kept, TypeOK, Files, Download, given
    <3>1. ref[p] # r
      BY <2>1, <3>0 DEF DownloadsMiss
    <3>2. CASE CacheSet(ref[p], p, TRUE)
      <4>1. \A s \in Refs \ {ref[p]} : cache'[s] = IF s \in Expired(Refs) THEN NoEntry ELSE cache[s]
        BY <3>0, <3>2, CacheSetKeeps
      <4> QED
        BY <2>1, <2>2, <3>1, <4>1
    <3> QED
      BY <2>2, <2>4, <3>2 DEF Download
  <2> QED
    BY <1>1, <2>2, <2>3, <2>4 DEF Step, GetRow, StreamFile, MarkHighlighted, SendCallback
<1>2. ASSUME Apart, [Next]_vars
      PROVE  [\A p \in Requests \ crossed : Step(p) =>
                \A r \in Refs : Usable(r) => cache'[r] = cache[r] /\ cache[r].file \in disk']_vars
  BY <1>1, <1>2
<1> QED
  BY <1>2, ApartInvariant, PTL DEF Spec, DownloadedOnce
=============================================================================
