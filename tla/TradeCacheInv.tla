--------------------------- MODULE TradeCacheInv ---------------------------
(***************************************************************************)
(* What the theorems of TradeCacheProofs need to know of every reachable   *)
(* state, in three layers:                                                 *)
(*   StateInv  what the threads, the save in progress, memory, manifest,   *)
(*             data file and readers have to do with each other; always;   *)
(*   CoverInv  that no row is missing behind the REST cursor; it holds     *)
(*             where no append fails or nothing is pruned (QuietSaves),    *)
(*             and the run "prunerace" loses a fill where both happen;     *)
(*   FileInv   what is in the two files; where a rollback works, it holds  *)
(*             until a reader drops the only copy of a generation while    *)
(*             the writer is down, which then stays down (FilesOrLost).    *)
(***************************************************************************)
EXTENDS TradeCache

QuietSaves == MaxAppendFaults = 0 \/ MaxPrunes = 0

\* The fills up to and including a time that have not expired, and rows with
\* all of them
Due(time) == {k \in Executed : fills[k] <= time /\ ~Expired(k)}
Covers(rows, time) == Due(time) \subseteq Range(rows)

Older(v, w) == v[1] < w[1] \/ (v[1] = w[1] /\ v[2] <= w[2])

\* Rows that may be certified: executed fills, none twice
Sound(rows) == IsInjective(rows) /\ Range(rows) \subseteq Executed

Committed == job.step \in {"discard", "remember", "publish"}
--------------------------------------------------------------------------------
(* Threads and the save in progress *)

Stopped ==
  ~up => cache = NoUndo /\ undo = NoUndo /\ sync = Resting /\ ~ws /\ job = NoJob

JobShape ==
  \/ job = NoJob
  \/ /\ job.kind = "append" /\ job.by \in {"sync", "ws"}
     /\ job.step \in {"rows", "meta", "remember", "publish"}
  \/ /\ job.kind = "compact" /\ job.by \in {"sync", "ws", "prune"}
     /\ job.step \in {"stage", "data", "meta", "discard", "remember", "publish"}

JobThread ==
  /\ job.by = "sync" => sync.at = "synced"
  /\ job.by = "prune" => sync.at = "pruned"
  /\ job.step = "publish" => job.by = "sync" /\ sync.asked > 0

AppendFits ==
  job.kind = "append" => ~cache.rewrite /\ cache.counts <= Len(cache.rows)

Requests ==
  /\ sync.at \in {"asked", "served", "merged"} => cache.cursor < sync.asked
  /\ sync.at = "synced" /\ sync.asked > 0 => cache.cursor = CursorAfter(sync.asked)
  /\ sync.at \in {"wait", "saved", "pruned"} => sync.asked = 0
  /\ sync.at \notin {"asked", "served"} => sync.got = {}
  /\ sync.asked <= now
  /\ sync.got \subseteq Executed

Undoable ==
  /\ Sound(undo.rows)
  /\ sync.at = "pruned" => undo.cursor = cache.cursor /\ MaxPrunes # 0

Clocks ==
  /\ meta.stream > 0 /\ meta.rev > 0
  /\ up => meta.cursor <= cache.cursor
  /\ meta.cursor < now /\ cache.cursor < now
  /\ marker.time <= meta.cursor + 1
--------------------------------------------------------------------------------
(* Memory and manifest *)

RowsSound == Sound(cache.rows) /\ Sound(meta.rows)

\* Unless the file is due for a rewrite, memory has what is certified, but for
\* what was just pruned; what does not count as saved is not certified yet, and
\* what counts is.
MemoryHasFile ==
  up /\ ~cache.rewrite =>
    \A k \in Range(meta.rows) :
      k \in Range(cache.rows) \/ (sync.at = "pruned" /\ Expired(k))

UnsavedIsNew ==
  ~cache.rewrite /\ ~Committed =>
    \A i \in DOMAIN cache.rows : i > cache.counts => cache.rows[i] \notin Range(meta.rows)

CountedIsSaved ==
  ~cache.rewrite /\ sync.at # "pruned" =>
    /\ cache.counts <= Len(cache.rows)
    /\ \A i \in DOMAIN cache.rows : i <= cache.counts => cache.rows[i] \in Range(meta.rows)

\* A commit saves all of memory: rows, cursor and time.
CommitSaves ==
  Committed =>
    /\ meta.cursor = cache.cursor /\ meta.seen = cache.seen
    /\ job.kind = "compact" => meta.rows = cache.rows
    /\ sync.at # "pruned" => Range(cache.rows) \subseteq Range(meta.rows)
    /\ job.step = "publish" => cache.counts = Len(cache.rows) /\ ~cache.rewrite

FileNotAhead == up /\ ~cache.rewrite => meta.seen <= cache.seen
--------------------------------------------------------------------------------
(* Readers *)

VersionsPast ==
  /\ Older(Version(marker), Version(meta))
  /\ \A r \in Readers : Older(reader[r].ver, Version(meta))

ReadersMatch ==
  \A r \in Readers : reader[r].ver = Version(meta) => reader[r].rows = meta.rows

LoadedIsAsked ==
  \A r \in Readers :
    reader[r].at = "loaded" => reader[r].ver = Version(reader[r].evidence)

\* A permit lasts no longer than the sync it rests on allows.
PermitBounded ==
  \A r \in Readers :
    /\ reader[r].permit.expires <= now + PermitTtl
    /\ reader[r].permit.expires <= meta.cursor + 1 + MaxAge

ThreadInv ==
  /\ Stopped /\ JobShape /\ JobThread /\ AppendFits
  /\ Requests /\ Undoable /\ Clocks

MemoryInv ==
  /\ RowsSound /\ MemoryHasFile /\ UnsavedIsNew /\ CountedIsSaved
  /\ CommitSaves /\ FileNotAhead

ReaderInv == VersionsPast /\ ReadersMatch /\ LoadedIsAsked /\ PermitBounded

--------------------------------------------------------------------------------
(* The data file, as far as saves rely on it *)

\* Where appending is allowed, or a manifest has been written, the data file has
\* what the manifest names.
FileReady ==
  up /\ (~cache.rewrite \/ Committed) /\ ~(job.kind = "compact" /\ job.step = "meta")
    => Certifies(data, meta)

\* What the manifest about to be written will name
Written ==
  job.step = "meta" =>
    /\ job.kind = "append" => data = meta.rows \o Unsaved
    /\ job.kind = "compact" => data = cache.rows

StoredInv == FileReady /\ Written

StateInv == TypeOK /\ ThreadInv /\ MemoryInv /\ ReaderInv /\ StoredInv
--------------------------------------------------------------------------------
(* What is behind the cursor *)

MemoryCovers == Covers(cache.rows, cache.cursor)
FileCovers == Covers(meta.rows, meta.cursor)
UndoCovers == sync.at = "pruned" => Covers(undo.rows, undo.cursor)

\* The response and memory have what was executed before the request.
ResponseCovers ==
  sync.at \in {"served", "merged"} =>
    Due(sync.asked - 1) \subseteq Range(cache.rows) \cup sync.got

\* Between a save and the next cycle the file has what the cursor has passed:
\* where pruning may follow, this is what a failed append would break.
SavedCovers ==
  sync.at \in {"saved", "pruned"} /\ ~cache.rewrite /\ MaxPrunes # 0
    => Covers(meta.rows, cache.cursor)

\* Whoever has the version of the marker has every fill before its time.
MarkerCovers ==
  \A r \in Readers :
    reader[r].ver = Version(marker) => Covers(reader[r].rows, marker.time - 1)

\* A permit outlives no fill by more than MAX_AGE_SEC that its reader lacks.
PermitCovers ==
  \A r \in Readers : Covers(reader[r].rows, reader[r].permit.expires - MaxAge - 1)

CoverInv ==
  /\ MemoryCovers /\ FileCovers /\ UndoCovers /\ ResponseCovers /\ SavedCovers
  /\ MarkerCovers /\ PermitCovers
--------------------------------------------------------------------------------
(* Files *)

\* Only between the two renames of a compaction, or after a crash there, does the
\* data file not have what the manifest names.
DataCertified ==
  up /\ ~(job.kind = "compact" /\ job.step = "meta") => Certifies(data, meta)

CopyHeld ==
  up /\ prev.at = "copy" => job.kind = "compact" /\ job.step \in {"meta", "discard"}

Replaced ==
  job.kind = "compact" =>
    /\ job.step = "data" => prev.at = "link"
    /\ job.step = "meta" => prev.at = "copy" /\ Certifies(prev.rows, meta)

FileInv == DataCertified /\ CopyHeld /\ Replaced /\ Recoverable

Lost == ~up /\ ~Recoverable

FilesOrLost == FileInv \/ Lost
=============================================================================
