----------------------------- MODULE AnnotateCache -----------------------------
(***************************************************************************)
(* The annotate router: /{ref}/meta, /{ref}/file and /save over the module *)
(* level cache of source PDFs, and the temporary files it owns.            *)
(*                                                                         *)
(* The cache is shared by all requests on one event loop: code between two *)
(* awaits is atomic.  The lookup of the row, the download, the streaming   *)
(* of the file and the calls to CpaDesk are awaits.  /meta and /save read  *)
(* the file in the same step in which the cache returns it.  The cache is  *)
(* gone when the container restarts, the files are not.                    *)
(***************************************************************************)
EXTENDS FiniteSets, Naturals

CONSTANTS
  Requests,    \* a request also names the file it downloads
  Refs,        \* HighlightGuid
  Remote,      \* refs whose FileURL is a URL; the others name a local file
  MaxExpiries, \* bound: how often an entry outlives its TTL
  MaxFaults,   \* bound: restarts, evictions that cannot remove files, and
               \* downloads that cannot be written
  NoRequest, NoFile, NoEntry

\* A file of ours is named by the request that downloaded it, CPA's own local
\* file by its ref.
Files == Requests \cup Refs
Entry == [file: Files, owned: BOOLEAN, expired: BOOLEAN]

ASSUME AnnotateAssumption ==
  /\ Remote \subseteq Refs /\ Refs \cap Requests = {}
  /\ MaxExpiries \in Nat /\ MaxFaults \in Nat
  /\ NoRequest \notin Requests /\ NoFile \notin Files /\ NoEntry \notin Entry

VARIABLES
  cache,     \* _PDF_FETCH_CACHE
  disk,      \* the files that exist
  expiries,
  pc, kind, ref,
  file,      \* the path _fetch_pdf_path returned
  marked,    \* refs with IsHighlight = 1
  faults,
  stray,     \* history: files of ours that a fault has left behind
  crossed    \* history: requests with another in flight that downloads the same
             \* ref at the same time

vars == <<cache, disk, expiries, pc, kind, ref, file, marked, faults, stray, crossed>>
given   == <<kind, ref>>
history == <<faults, stray, crossed>>

Labels == {"idle", "row", "fetch", "download", "stream", "mark", "callback", "done", "failed",
           "gone"}

TypeOK ==
  /\ cache \in [Refs -> Entry \cup {NoEntry}]
  /\ disk \subseteq Files
  /\ expiries \in 0 .. MaxExpiries
  /\ pc \in [Requests -> Labels]
  /\ kind \in [Requests -> {"meta", "file", "save"}]
  /\ ref \in [Requests -> Refs]
  /\ file \in [Requests -> Files \cup {NoFile}]
  /\ marked \subseteq Refs
  /\ faults \in 0 .. MaxFaults /\ stray \subseteq Files /\ crossed \subseteq Requests

Init ==
  /\ cache = [r \in Refs |-> NoEntry]
  /\ disk = Refs \ Remote
  /\ expiries = 0
  /\ pc = [p \in Requests |-> "idle"]
  /\ kind \in [Requests -> {"meta", "file", "save"}]
  /\ ref \in [Requests -> Refs]
  /\ file = [p \in Requests |-> NoFile]
  /\ marked = {}
  /\ faults = 0 /\ stray = {} /\ crossed = {}

Ended(p)  == pc[p] \in {"done", "failed", "gone"}
Active(p) == pc[p] # "idle" /\ ~Ended(p)

Goto(p, label) == pc' = [pc EXCEPT ![p] = label]

\* A fault that leaves the files S of ours behind.
Fault(S) == faults < MaxFaults /\ faults' = faults + 1 /\ stray' = stray \cup S

-----------------------------------------------------------------------------
(* _pdf_cache_get and _pdf_cache_set *)

Cached(r)  == cache[r] # NoEntry
Usable(r)  == Cached(r) /\ ~cache[r].expired /\ cache[r].file \in disk

\* Mutant of CacheHit: the cache is never consulted.
NoCacheHit(r) == FALSE

\* _pdf_cache_get returns the entry's path.
CacheHit(r) == Usable(r)

Expired(S) == {r \in S : Cached(r) /\ cache[r].expired}

\* Mutant of FilesOf: files that we did not create are deleted as well.
EveryFileOf(S) == {cache[r].file : r \in S}

\* The files that go with the entries of S: those that we created.
FilesOf(S) == {cache[r].file : r \in {s \in S : cache[s].owned}}

\* Mutants of AfterEviction: the entry stays; the file stays.
AfterEvictionOfFiles(S, spared)   == [entries |-> cache, files |-> disk \ (FilesOf(S) \ spared)]
AfterEvictionOfEntries(S, spared) ==
  [entries |-> [r \in Refs |-> IF r \in S THEN NoEntry ELSE cache[r]], files |-> disk]

\* The cache and the disk without the entries of S.
AfterEviction(S, spared) ==
  [entries |-> [r \in Refs |-> IF r \in S THEN NoEntry ELSE cache[r]],
   files   |-> disk \ (FilesOf(S) \ spared)]

\* The entries of S are popped; an OSError of unlink is swallowed.
Spare(S, spared) ==
  /\ spared \subseteq FilesOf(S) \cap disk
  /\ IF spared = {} THEN UNCHANGED <<faults, stray>> ELSE Fault(spared)

Drop(S) ==
  \E spared \in SUBSET FilesOf(S) :
    /\ Spare(S, spared)
    /\ cache' = AfterEviction(S, spared).entries /\ disk' = AfterEviction(S, spared).files

\* Every entry that has outlived its TTL is dropped, then r's entry is set.
CacheSet(r, f, owned) ==
  \E spared \in SUBSET FilesOf(Expired(Refs)) :
    LET left == AfterEviction(Expired(Refs), spared)
    IN  /\ Spare(Expired(Refs), spared)
        /\ cache' = [left.entries EXCEPT ![r] = [file |-> f, owned |-> owned, expired |-> FALSE]]
        /\ disk' = left.files \cup {f}

-----------------------------------------------------------------------------
(* The endpoints *)

Call(p) ==
  /\ pc[p] = "idle"
  /\ Goto(p, "row")
  /\ UNCHANGED <<cache, disk, expiries, given, file, marked, history>>

\* _get_highlight_row: the row and its token, or 404, 401, 503.
GetRow(p) ==
  /\ pc[p] = "row"
  /\ \E next \in {"fetch", "failed"} : Goto(p, next)
  /\ UNCHANGED <<cache, disk, expiries, given, file, marked, history>>

\* What follows once the path is known: /meta has read the page count, /save
\* has burned the annotations into a file of its own and removed it, unless
\* what was fetched is not a readable PDF.
WithPath(p, f) ==
  /\ file' = [file EXCEPT ![p] = f]
  /\ \E next \in CASE kind[p] = "meta" -> {"done", "failed"}
                   [] kind[p] = "file" -> {"stream"}
                   [] kind[p] = "save" -> {"mark", "failed"} : Goto(p, next)

\* The requests whose downloads overlap once p downloads.
Crossing(p) ==
  LET others == {q \in Requests : pc[q] = "download" /\ ref[q] = ref[p]}
  IN  IF others = {} THEN {} ELSE others \cup {p}

\* _fetch_pdf_path: the cached file; else the download, or the local file.
FetchPath(p) ==
  /\ pc[p] = "fetch"
  /\ LET r    == ref[p]
         mine == {s \in {r} : Cached(s)}
     IN  \/ /\ CacheHit(r)
            /\ WithPath(p, cache[r].file) /\ UNCHANGED <<cache, disk, history>>
         \/ /\ ~CacheHit(r) /\ r \in Remote
            /\ Drop(mine)
            /\ crossed' = crossed \cup Crossing(p)
            /\ Goto(p, "download") /\ UNCHANGED file
         \/ /\ ~CacheHit(r) /\ r \notin Remote /\ r \in disk
            /\ CacheSet(r, r, FALSE)
            /\ WithPath(p, r) /\ UNCHANGED crossed
         \/ /\ ~CacheHit(r) /\ r \notin Remote /\ r \notin disk
            /\ Drop(mine)
            /\ Goto(p, "failed") /\ UNCHANGED <<file, crossed>>
  /\ UNCHANGED <<expiries, given, marked>>

\* The answer of CPA's file host is written to a file of its own and cached, or
\* is not written whole.
Download(p) ==
  /\ pc[p] = "download"
  /\ \/ CacheSet(ref[p], p, TRUE) /\ WithPath(p, p)
     \/ /\ Goto(p, "failed") /\ UNCHANGED <<cache, disk, file, faults, stray>>
     \/ /\ Fault({p}) /\ disk' = disk \cup {p}
        /\ Goto(p, "failed") /\ UNCHANGED <<cache, file>>
  /\ UNCHANGED <<expiries, given, marked, crossed>>

\* FileResponse opens the file after the handler has returned.
StreamFile(p) ==
  /\ pc[p] = "stream"
  /\ Goto(p, IF file[p] \in disk THEN "done" ELSE "gone")
  /\ UNCHANGED <<cache, disk, expiries, given, file, marked, history>>

\* _mark_highlighted, whose failure goes unnoticed.
MarkHighlighted(p) ==
  /\ pc[p] = "mark"
  /\ marked' \in {marked, marked \cup {ref[p]}}
  /\ Goto(p, "callback")
  /\ UNCHANGED <<cache, disk, expiries, given, file, history>>

\* _send_highlight_callback, delivered or not.
SendCallback(p) ==
  /\ pc[p] = "callback"
  /\ Goto(p, "done")
  /\ UNCHANGED <<cache, disk, expiries, given, file, marked, history>>

\* _PDF_FETCH_CACHE_TTL_SECONDS pass.
Expire(r) ==
  /\ Cached(r) /\ ~cache[r].expired
  /\ expiries < MaxExpiries /\ expiries' = expiries + 1
  /\ cache' = [cache EXCEPT ![r].expired = TRUE]
  /\ UNCHANGED <<disk, pc, given, file, marked, history>>

\* CPA removes a local file of its own.
RemoveSource(r) ==
  /\ r \in disk \cap Refs
  /\ disk' = disk \ {r}
  /\ UNCHANGED <<cache, expiries, pc, given, file, marked, history>>

\* The container restarts: requests and cache are gone, the storage volume stays.
Restart ==
  /\ Fault(Requests \cap disk)
  /\ cache' = [r \in Refs |-> NoEntry]
  /\ pc' = [p \in Requests |-> IF Active(p) THEN "failed" ELSE pc[p]]
  /\ UNCHANGED <<disk, expiries, given, file, marked, crossed>>

Step(p) ==
  GetRow(p) \/ FetchPath(p) \/ Download(p) \/ StreamFile(p) \/ MarkHighlighted(p) \/ SendCallback(p)

Next ==
  \/ \E p \in Requests : Call(p) \/ Step(p)
  \/ \E r \in Refs : Expire(r) \/ RemoveSource(r)
  \/ Restart

Spec == Init /\ [][Next]_vars

-----------------------------------------------------------------------------
(* Properties *)

\* "never delete something we didn't create": no request removes a file of
\* CPA's, neither on expiry nor when its entry is replaced.
OnlyOwnFilesDeleted ==
  [][\A r \in Refs : r \in disk /\ r \notin disk' => pc' = pc /\ cache' = cache]_vars

\* A file that the cache will hand out and that we created is there: whoever
\* removes it takes its entry away, also from a request that overtook it.
CachedFilesExist == \A r \in Refs : Cached(r) /\ cache[r].owned => cache[r].file \in disk

\* A stream that finds its downloaded file gone has been given it before an
\* entry outlived its TTL: neither another request for the ref nor one for
\* another ref takes a file away from a stream about to open it.
StreamsSurvive ==
  \A p \in Requests : pc[p] = "gone" /\ ref[p] \in Remote => expiries > 0

\* The cache and its files: the type invariant and the two above.
CacheIsSound == TypeOK /\ CachedFilesExist /\ StreamsSurvive

\* "so repeat calls reuse the first call's download instead of refetching
\* remotely": whatever requests for the same ref do beside it, /meta beside
\* /file included, a request takes nothing away that is usable, neither the
\* entry nor its file, and replaces none, unless it downloads its ref at the
\* same time as another.
DownloadedOnce ==
  [][\A p \in Requests \ crossed : Step(p) =>
       \A r \in Refs : Usable(r) => cache'[r] = cache[r] /\ cache[r].file \in disk']_vars

\* "Opportunistic cleanup so this never grows unbounded": a file of ours on
\* disk is known to the cache, so that a later request can remove it.  Three
\* things leave one that no request ever finds again: two downloads of a ref at
\* the same time, an unlink or a write that fails, since the error is swallowed
\* after the entry is popped or comes before it is set, and a restart; nothing
\* else does, however requests for the same and other refs overlap.
NoOrphanFiles ==
  \A p \in Requests \cap disk :
    p \in stray \cup crossed \/ (Cached(ref[p]) /\ cache[ref[p]].file = p)
=============================================================================
