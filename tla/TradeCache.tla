----------------------------- MODULE TradeCache -----------------------------
(***************************************************************************)
(* The Binance account cache of fills (cacheManager.py, state_io.py,       *)
(* cacheintegrity.py, binance_cache_health.py): one writer process, whose  *)
(* sync thread pulls fills over REST and whose websocket thread receives   *)
(* them pushed, and trading processes that read its files and ask for a    *)
(* permit before they submit an order (binance_api/bapi_placeorder.py).    *)
(*                                                                         *)
(* A save holds the generation lock and the manager's lock throughout, so  *)
(* its steps are separate only for crashes and failing writes.  The data   *)
(* file is a sequence of rows with perhaps a torn row behind them; a byte  *)
(* boundary is a number of rows and a content digest the rows themselves.  *)
(* One symbol; fills are numbered in the order of their ids, and time is   *)
(* a small clock.                                                          *)
(***************************************************************************)
EXTENDS Integers, Sequences, FiniteSets, Functions

CONSTANTS
  MaxFills,          \* bound: fills the venue executes
  MaxNow,            \* bound: the clock
  MaxAge,            \* MAX_AGE_SEC of the health marker
  PermitTtl,         \* SUBMIT_PERMIT_TTL_SEC
  Retention,         \* RETENTION_DAYS
  Readers,           \* trading processes
  RestoreFails,      \* a rollback to the previous generation can fail
  MaxCrashes,        \* bound: crashes of the writer
  MaxAppendFaults,   \* bound: writes that fail in an append
  MaxCompactFaults,  \* bound: writes that fail in a compaction
  MaxPrunes          \* bound: passes of the retention maintenance

ASSUME BoundAssumption ==
  /\ {MaxFills, MaxCrashes, MaxAppendFaults, MaxCompactFaults, MaxPrunes} \subseteq Nat
  /\ MaxNow \in Nat \ {0}
ASSUME TimeAssumption ==
  /\ MaxAge \in Nat /\ PermitTtl \in 0..MaxAge /\ Retention \in Nat
ASSUME RestoreAssumption == RestoreFails \in BOOLEAN

VARIABLES
  now, fills,   \* the venue: clock, and the time of every fill by its number
  cache,        \* memory of the writer: rows, how many of them are in the file,
                \* REST cursor, fetchtime, whether the file must be rewritten
  undo,         \* memory as it was before pruning
  sync,         \* the sync thread: where it is, request time, response
  ws,           \* the websocket thread has rows to save
  job,          \* the save in progress
  data, prev,   \* the data file and its .previous
  meta,         \* the manifest: version, rows it certifies, cursor, fetchtime
  marker,       \* the health marker: version and time of the last sync
  up,           \* the writer runs
  reader,       \* the trading processes
  spent         \* crashes, faults and prunes so far

venue == <<now, fills>>
memory == <<cache, undo>>
threads == <<sync, ws>>
files == <<data, prev, meta>>
vars == <<venue, memory, threads, job, files, marker, up, reader, spent>>

Ids == 1..MaxFills
Torn == 0                               \* a row cut short by a crash
NoPrev == [at |-> "none", rows |-> <<>>]
NoJob == [by |-> "none", kind |-> "none", step |-> "none"]
NoMarker == [stream |-> 0, rev |-> 0, time |-> 0]
NoPermit == [expires |-> 0]
Resting == [at |-> "wait", asked |-> 0, got |-> {}]
NoUndo == [rows |-> <<>>, counts |-> 0, cursor |-> 0, seen |-> 0, rewrite |-> FALSE]

Executed == DOMAIN fills
Expired(k) == fills[k] + Retention < now
Min2(a, b) == IF a <= b THEN a ELSE b
Max2(a, b) == IF a >= b THEN a ELSE b
Version(m) == <<m.stream, m.rev>>

\* Both bounds of a REST request are the memory's (query_remote_and_update_cache).
RestStart == Min2(cache.cursor, cache.seen)

Init ==
  /\ now = 1 /\ fills = <<>>
  /\ cache = NoUndo /\ undo = NoUndo
  /\ sync = Resting /\ ws = FALSE /\ job = NoJob
  /\ data = <<>> /\ prev = NoPrev
  /\ meta = [stream |-> 1, rev |-> 1, rows |-> <<>>, cursor |-> 0, seen |-> 0]
  /\ marker = NoMarker /\ up = TRUE
  /\ reader = [r \in Readers |->
       [at |-> "free", rows |-> <<>>, ver |-> <<0, 0>>, evidence |-> NoMarker,
        permit |-> NoPermit]]
  /\ spent = [crash |-> 0, append |-> 0, compact |-> 0, prune |-> 0]

Spend(what) == spent' = [spent EXCEPT ![what] = @ + 1]
--------------------------------------------------------------------------------
(* The venue *)

Tick ==
  /\ now < MaxNow
  /\ now' = now + 1
  /\ UNCHANGED <<fills, memory, threads, job, files, marker, up, reader, spent>>

Fill ==
  /\ Len(fills) < MaxFills
  /\ fills' = Append(fills, now)
  /\ UNCHANGED <<now, memory, threads, job, files, marker, up, reader, spent>>
--------------------------------------------------------------------------------
(* Files *)

\* A file holds the certified rows if it begins with them.
Certifies(f, m) == Len(f) >= Len(m.rows) /\ SubSeq(f, 1, Len(m.rows)) = m.rows

PrevRows == IF prev.at = "link" THEN data ELSE prev.rows

Recoverable == Certifies(data, meta) \/ (prev.at # "none" /\ Certifies(PrevRows, meta))

\* read_recovering_previous: a good read discards .previous unless it is a link
\* to the file itself; a bad one puts .previous in its place.
DataRecovered == IF Certifies(data, meta) THEN data ELSE PrevRows
PrevRecovered == IF Certifies(data, meta) /\ prev.at = "link" THEN prev ELSE NoPrev

UncutFile == data                   \* mutant

\* What an interrupted append leaves behind the committed boundary
Unsaved == SubSeq(cache.rows, cache.counts + 1, Len(cache.rows))
Boundary == SubSeq(data, 1, Len(meta.rows))
PartialAppends ==
  {data} \cup {Boundary \o SubSeq(Unsaved, 1, i) : i \in 0..Len(Unsaved)}
         \cup {Boundary \o SubSeq(Unsaved, 1, i) \o <<Torn>> : i \in 0..(Len(Unsaved) - 1)}
--------------------------------------------------------------------------------
(* The sync thread: one REST cycle *)

Free == job = NoJob          \* nobody holds the manager's lock

\* Pages are read until a short one, so the response holds every fill up to
\* some moment between request and return.
Ask ==
  /\ up /\ sync.at = "wait"
  /\ sync' = [at |-> "asked", asked |-> now, got |-> {}]
  /\ UNCHANGED <<venue, memory, ws, job, files, marker, up, reader, spent>>

Serve ==
  /\ up /\ sync.at = "asked"
  /\ sync' = [sync EXCEPT !.at = "served",
                          !.got = {k \in Executed : fills[k] >= RestStart}]
  /\ UNCHANGED <<venue, memory, ws, job, files, marker, up, reader, spent>>

\* An exception ends the cycle before anything is saved.
RestFails ==
  /\ up /\ sync.at \in {"asked", "served"}
  /\ sync' = Resting
  /\ UNCHANGED <<venue, memory, ws, job, files, marker, up, reader, spent>>

\* A set of numbers in ascending order
Ascending(S) ==
  [i \in 1..Cardinality(S) |-> CHOOSE k \in S : Cardinality({j \in S : j < k}) = i - 1]

\* _persist_items: known ids are dropped, and what is not in the file yet is
\* sorted by time and id.
Merged(c, new) ==
  LET add == new \ Range(c.rows)
      tail == add \cup {c.rows[i] : i \in (c.counts + 1)..Len(c.rows)}
      n == Min2(c.counts, Len(c.rows))
  IN  IF add = {} THEN c ELSE [c EXCEPT !.rows = SubSeq(@, 1, n) \o Ascending(tail),
                                        !.seen = Max2(@, now)]

Merge ==
  /\ up /\ sync.at = "served" /\ Free
  /\ cache' = Merged(cache, sync.got)
  /\ sync' = [sync EXCEPT !.at = "merged", !.got = {}]
  /\ UNCHANGED <<venue, undo, ws, job, files, marker, up, reader, spent>>

CursorAhead(asked) == asked + 1     \* mutants
CursorAtReturn(asked) == now

\* The cursor is the request time, less one, whatever arrived meanwhile.
CursorAfter(asked) == asked - 1

\* The cursor moves under a second hold of the lock: what a websocket save writes
\* before it still has the old one.
Advance ==
  /\ up /\ sync.at = "merged" /\ Free
  /\ LET cursor == CursorAfter(sync.asked)
     IN  cache' = [cache EXCEPT !.cursor = cursor, !.seen = Max2(@, cursor)]
  /\ sync' = [sync EXCEPT !.at = "synced"]
  /\ UNCHANGED <<venue, undo, ws, job, files, marker, up, reader, spent>>
--------------------------------------------------------------------------------
(* The websocket thread: one report at a time, late, or never *)

Push(k) ==
  /\ up /\ ~ws /\ Free
  /\ k \in Executed \ Range(cache.rows) /\ ~Expired(k)
  /\ cache' = Merged(cache, {k})
  /\ ws' = TRUE
  /\ UNCHANGED <<venue, undo, sync, job, files, marker, up, reader, spent>>
--------------------------------------------------------------------------------
(* Saves *)

Kind == IF cache.rewrite \/ cache.counts > Len(cache.rows) THEN "compact" ELSE "append"

FirstStep(kind) == IF kind = "append" THEN "rows" ELSE "stage"

\* What the caller of a save does next
Return(by, ok) ==
  /\ job' = NoJob
  /\ ws' = (ws /\ by # "ws")
  /\ sync' = IF by = "ws" THEN sync
             ELSE [Resting EXCEPT !.at = IF by = "sync" THEN "saved" ELSE "wait"]

\* _save_account_trade_append: a file that is newer than memory is not touched.
Save(by) ==
  /\ up /\ Free
  /\ \/ by = "sync" /\ sync.at = "synced"
     \/ by = "ws" /\ ws
  /\ IF meta.seen > cache.seen
     THEN Return(by, FALSE)
     ELSE /\ job' = [by |-> by, kind |-> Kind, step |-> FirstStep(Kind)]
          /\ UNCHANGED threads
  /\ UNCHANGED <<venue, memory, files, marker, up, reader, spent>>

\* Truncate to the boundary, append what is new, fsync
AppendRows ==
  /\ up /\ job.step = "rows"
  /\ data' = Boundary \o Unsaved
  /\ job' = [job EXCEPT !.step = "meta"]
  /\ UNCHANGED <<venue, memory, threads, prev, meta, marker, up, reader, spent>>

\* A write fails; what was written is cut off again, if that works.
AppendFails ==
  /\ up /\ job.kind = "append" /\ job.step \in {"rows", "meta"}
  /\ spent.append < MaxAppendFaults /\ Spend("append")
  /\ data' \in IF job.step = "rows" THEN PartialAppends ELSE {Boundary, data}
  /\ Return(job.by, FALSE)
  /\ UNCHANGED <<venue, memory, prev, meta, marker, up, reader>>

SameRev == meta.rev                 \* mutant

\* The revision grows with the rows; without new rows only cursor and time move.
NextRev == meta.rev + (IF Unsaved = <<>> THEN 0 ELSE 1)

AppendMeta ==
  /\ up /\ job.kind = "append" /\ job.step = "meta"
  /\ meta' = [stream |-> meta.stream,
              rev |-> NextRev,
              rows |-> meta.rows \o Unsaved,
              cursor |-> cache.cursor, seen |-> cache.seen]
  /\ job' = [job EXCEPT !.step = "remember"]
  /\ UNCHANGED <<venue, memory, threads, data, prev, marker, up, reader, spent>>

\* A failed compaction must be made up for; a prune that failed is undone.
CompactionFailed ==
  /\ cache' = [(IF job.by = "prune" THEN undo ELSE cache) EXCEPT !.rewrite = TRUE]
  /\ undo' = IF job.by = "prune" THEN NoUndo ELSE undo
  /\ Return(job.by, FALSE)

StagedNothing == NoPrev             \* mutant

\* atomic_snapshot_file
Staged == [at |-> "link", rows |-> <<>>]     \* a hard link to the data file

\* _stage_prior_account_generation_locked: validate what is there, then link it
CompactStage ==
  /\ up /\ job.step = "stage"
  /\ IF Recoverable
     THEN /\ data' = DataRecovered /\ prev' = Staged
          /\ job' = [job EXCEPT !.step = "data"]
          /\ UNCHANGED <<memory, threads>>
     ELSE CompactionFailed /\ UNCHANGED <<data, prev>>
  /\ UNCHANGED <<venue, meta, marker, up, reader, spent>>

CompactData ==
  /\ up /\ job.step = "data"
  /\ data' = cache.rows
  /\ prev' = IF prev.at = "link" THEN [at |-> "copy", rows |-> data] ELSE prev
  /\ job' = [job EXCEPT !.step = "meta"]
  /\ UNCHANGED <<venue, memory, threads, meta, marker, up, reader, spent>>

CompactMeta ==
  /\ up /\ job.kind = "compact" /\ job.step = "meta"
  /\ meta' = [stream |-> meta.stream + 1, rev |-> 1, rows |-> cache.rows,
              cursor |-> cache.cursor, seen |-> cache.seen]
  /\ job' = [job EXCEPT !.step = "discard"]
  /\ UNCHANGED <<venue, memory, threads, data, prev, marker, up, reader, spent>>

CompactDiscard ==
  /\ up /\ job.step = "discard"
  /\ prev' = NoPrev
  /\ job' = [job EXCEPT !.step = "remember"]
  /\ UNCHANGED <<venue, memory, threads, data, meta, marker, up, reader, spent>>

\* commit_file_and_meta: the previous generation comes back, unless that fails
\* too; in any case .previous is gone afterwards.
CompactFails ==
  /\ up /\ job.kind = "compact" /\ job.step \in {"stage", "data", "meta"}
  /\ spent.compact < MaxCompactFaults /\ Spend("compact")
  /\ CASE job.step = "stage" -> UNCHANGED <<data, prev>>
       [] job.step = "data" -> data' = data /\ prev' = NoPrev
       [] job.step = "meta" -> /\ data' \in {prev.rows} \cup (IF RestoreFails THEN {data} ELSE {})
                               /\ prev' = NoPrev
  /\ CompactionFailed
  /\ UNCHANGED <<venue, meta, marker, up, reader>>

\* _remember_account_commit_locked, with the version for the readers
Remember ==
  /\ up /\ job.step = "remember"
  /\ cache' = [cache EXCEPT !.counts = Len(cache.rows), !.rewrite = FALSE]
  /\ undo' = IF job.by = "prune" THEN NoUndo ELSE undo
  /\ marker' = [marker EXCEPT !.stream = meta.stream, !.rev = meta.rev]
  /\ IF job.by = "sync" /\ sync.asked > 0
     THEN job' = [job EXCEPT !.step = "publish"] /\ UNCHANGED threads
     ELSE Return(job.by, TRUE)
  /\ UNCHANGED <<venue, files, up, reader, spent>>

PublishTime == now                  \* mutant

\* _last_complete_sync_at_ms: the time is that of the request.
SyncTime == sync.asked

\* _publish_periodic_sync_health
Publish ==
  /\ up /\ job.step = "publish"
  /\ marker' = [stream |-> meta.stream, rev |-> meta.rev, time |-> SyncTime]
  /\ Return(job.by, TRUE)
  /\ UNCHANGED <<venue, memory, files, up, reader, spent>>
--------------------------------------------------------------------------------
(* After a save: reconcile memory and file, prune, or wait for the next cycle *)

Rest ==
  /\ up /\ sync.at = "saved"
  /\ sync' = Resting
  /\ UNCHANGED <<venue, memory, ws, job, files, marker, up, reader, spent>>

\* resync_mem_file
Resync ==
  /\ up /\ sync.at = "saved" /\ Free /\ meta.seen # cache.seen
  /\ IF meta.seen > cache.seen
     THEN /\ Recoverable
          /\ data' = DataRecovered /\ prev' = PrevRecovered
          /\ cache' = [cache EXCEPT !.rows = meta.rows, !.counts = Len(meta.rows),
                                    !.cursor = meta.cursor, !.seen = meta.seen]
          /\ UNCHANGED sync
     ELSE /\ sync' = [sync EXCEPT !.at = "synced", !.asked = 0]
          /\ UNCHANGED <<data, prev, cache>>
  /\ UNCHANGED <<venue, undo, ws, job, meta, marker, up, reader, spent>>

\* The rows within the retention horizon, in their order
Kept == LET at == Ascending({i \in DOMAIN cache.rows : ~Expired(cache.rows[i])})
        IN  [j \in DOMAIN at |-> cache.rows[at[j]]]

\* maintain_append_persist: rows leave memory before the locks of the compaction
\* are taken.
Prune ==
  /\ up /\ sync.at = "saved" /\ Free
  /\ spent.prune < MaxPrunes /\ Spend("prune")
  /\ Kept # cache.rows
  /\ undo' = cache
  /\ cache' = [cache EXCEPT !.rows = Kept]
  /\ sync' = [sync EXCEPT !.at = "pruned"]
  /\ UNCHANGED <<venue, ws, job, files, marker, up, reader>>

CompactPruned ==
  /\ up /\ sync.at = "pruned" /\ Free
  /\ job' = [by |-> "prune", kind |-> "compact", step |-> "stage"]
  /\ UNCHANGED <<venue, memory, threads, files, marker, up, reader, spent>>
--------------------------------------------------------------------------------
(* Crash and restart of the writer *)

Crash ==
  /\ up /\ spent.crash < MaxCrashes /\ Spend("crash")
  /\ up' = FALSE
  /\ cache' = NoUndo /\ undo' = NoUndo
  /\ sync' = Resting /\ ws' = FALSE /\ job' = NoJob
  /\ data' \in IF job.step = "rows" THEN PartialAppends ELSE {data}
  /\ UNCHANGED <<venue, prev, meta, marker, reader>>

\* A stored generation is announced with its cursor for the time of its sync.
Announced ==
  IF meta.cursor > 0 /\ now - meta.cursor <= MaxAge
  THEN [stream |-> meta.stream, rev |-> meta.rev, time |-> meta.cursor]
  ELSE NoMarker

\* enable_writer, _load_jsonl, and the announcement
Restart ==
  /\ ~up /\ Recoverable
  /\ up' = TRUE
  /\ data' = DataRecovered /\ prev' = PrevRecovered
  /\ cache' = [rows |-> meta.rows, counts |-> Len(meta.rows), cursor |-> meta.cursor,
               seen |-> meta.seen, rewrite |-> FALSE]
  /\ marker' = Announced
  /\ UNCHANGED <<venue, undo, threads, job, meta, reader, spent>>
--------------------------------------------------------------------------------
(* Trading processes *)

\* inspect_health: the writer that wrote the marker runs, and has synced lately.
Healthy == up /\ marker.time > 0 /\ marker.stream > 0 /\ now - marker.time <= MaxAge

\* _ensure_trade_version_generation_locked.  A loaded version of the same stream
\* is brought up to date from the rows behind it; .previous is consulted when that
\* fails, and discarded when it does not.
Suffix(rr) == rr.rows \o SubSeq(data, Len(rr.rows) + 1, Len(meta.rows))
SuffixFits(rr) ==
  /\ rr.ver[1] = meta.stream /\ Len(rr.rows) <= Len(meta.rows)
  /\ Len(data) >= Len(meta.rows) /\ Suffix(rr) = meta.rows

Load(r, ver, then) ==
  LET rr == reader[r] IN
  /\ IF rr.ver = ver
     THEN /\ reader' = [reader EXCEPT ![r].at = then]
          /\ UNCHANGED <<data, prev>>
     ELSE /\ Free
          /\ IF Version(meta) = ver /\ (SuffixFits(rr) \/ Recoverable)
             THEN /\ reader' = [reader EXCEPT ![r].at = then, ![r].rows = meta.rows, ![r].ver = ver]
                  /\ IF SuffixFits(rr) THEN data' = data /\ prev' = NoPrev
                                       ELSE data' = DataRecovered /\ prev' = PrevRecovered
             ELSE /\ reader' = [reader EXCEPT ![r].at = "free"]
                  /\ UNCHANGED <<data, prev>>
  /\ UNCHANGED <<venue, memory, threads, job, meta, marker, up, spent>>

\* sync_account_reader_if_needed
Refresh(r) == reader[r].at = "free" /\ reader[r].ver # Version(meta) /\ Load(r, Version(meta), "free")

\* require_account_cache_for_submit: marker, rows, marker again
ReadMarker(r) ==
  /\ reader[r].at = "free" /\ reader[r].permit = NoPermit /\ Healthy
  /\ reader' = [reader EXCEPT ![r].at = "asked", ![r].evidence = marker]
  /\ UNCHANGED <<venue, memory, threads, job, files, marker, up, spent>>

Ensure(r) ==
  /\ reader[r].at = "asked"
  /\ Load(r, Version(reader[r].evidence), "loaded")

\* The marker still names the version that was loaded, and the permit expires
\* before the sync it rests on is too old.
Issue(r) ==
  LET ok == /\ Healthy
            /\ Version(marker) = Version(reader[r].evidence)
            /\ now - marker.time + PermitTtl <= MaxAge
  IN  /\ reader[r].at = "loaded"
      /\ reader' = [reader EXCEPT ![r].at = "free", ![r].evidence = NoMarker,
                                  ![r].permit = IF ok THEN [expires |-> now + PermitTtl] ELSE @]
      /\ UNCHANGED <<venue, memory, threads, job, files, marker, up, spent>>

\* Spent on a submit, or refused because it has expired
Consume(r) ==
  /\ reader[r].at = "free" /\ reader[r].permit # NoPermit
  /\ reader' = [reader EXCEPT ![r].permit = NoPermit]
  /\ UNCHANGED <<venue, memory, threads, job, files, marker, up, spent>>
--------------------------------------------------------------------------------
SyncStep ==
  \/ Ask \/ Serve \/ RestFails \/ Merge \/ Advance \/ Save("sync")
  \/ Rest \/ Resync \/ Prune \/ CompactPruned
SaveStep ==
  \/ AppendRows \/ AppendFails \/ AppendMeta
  \/ CompactStage \/ CompactData \/ CompactMeta \/ CompactDiscard \/ CompactFails
  \/ Remember \/ Publish
ReaderStep(r) == Refresh(r) \/ ReadMarker(r) \/ Ensure(r) \/ Issue(r) \/ Consume(r)

Next ==
  \/ Tick \/ Fill
  \/ SyncStep \/ SaveStep
  \/ Save("ws") \/ \E k \in Ids : Push(k)
  \/ Crash \/ Restart
  \/ \E r \in Readers : ReaderStep(r)

Spec == Init /\ [][Next]_vars

\* The threads of the writer run, the supervisor starts it again, a REST request
\* is answered now and then, and readers look at the manifest.
Fairness ==
  /\ WF_vars(Ask \/ Save("sync") \/ Rest \/ CompactPruned)   \* one enabled at a time
  /\ SF_vars(Serve) /\ SF_vars(Merge \/ Advance)
  /\ WF_vars(Save("ws")) /\ WF_vars(SaveStep) /\ WF_vars(Restart)
  /\ \A r \in Readers : SF_vars(Refresh(r)) /\ SF_vars(Ensure(r)) /\ WF_vars(Issue(r))

LiveSpec == Spec /\ Fairness
--------------------------------------------------------------------------------
Rows == Seq(Ids)
Caches == [rows : Rows, counts : 0..MaxFills, cursor : 0..MaxNow, seen : 0..MaxNow,
           rewrite : BOOLEAN]
Versions == Nat \X Nat

\* Types of the variables.
TypeOK ==
  /\ now \in 1..MaxNow /\ fills \in Seq(1..MaxNow) /\ Len(fills) <= MaxFills
  /\ cache \in Caches /\ undo \in Caches
  /\ sync \in [at : {"wait", "asked", "served", "merged", "synced", "saved", "pruned"},
               asked : 0..MaxNow, got : SUBSET Ids]
  /\ ws \in BOOLEAN /\ up \in BOOLEAN
  /\ job \in [by : {"none", "sync", "ws", "prune"}, kind : {"none", "append", "compact"},
              step : {"none", "rows", "stage", "data", "meta", "discard", "remember", "publish"}]
  /\ data \in Seq(Ids \cup {Torn})
  /\ prev \in [at : {"none", "link", "copy"}, rows : Seq(Ids \cup {Torn})]
  /\ meta \in [stream : Nat, rev : Nat, rows : Rows, cursor : 0..MaxNow, seen : 0..MaxNow]
  /\ marker \in [stream : Nat, rev : Nat, time : 0..MaxNow]
  /\ reader \in [Readers -> [at : {"free", "asked", "loaded"}, rows : Rows, ver : Versions,
                            evidence : [stream : Nat, rev : Nat, time : 0..MaxNow],
                            permit : [expires : Nat]]]
  /\ spent \in [{"crash", "append", "compact", "prune"} -> Nat]

\* With the writer down between the two renames of a compaction, the rows behind
\* those of a reader may fit although the rows before them are not the certified
\* ones: it drops the only good copy (cacheManager.py:1373).
LosesCopy ==
  /\ ~Certifies(data, meta)
  /\ \E r \in Readers : SuffixFits(reader[r]) /\ reader'[r].ver # reader[r].ver

\* The certified generation stays on disk, in the data file or in .previous, at
\* every step of every save and in every crash, unless a reader drops it so.
GenerationKept == [][Recoverable /\ ~LosesCopy => Recoverable']_vars

\* REST asks for nothing before the stored cursor again, so every fill before it
\* is certified, or past the retention horizon.
CursorCovered ==
  \A k \in Executed :
    fills[k] < meta.cursor /\ ~Expired(k) => k \in Range(meta.rows)

\* No fill is certified twice, and a reader that holds the certified version
\* holds exactly its rows.
VersionNamesRows ==
  /\ IsInjective(meta.rows)
  /\ \A r \in Readers : reader[r].ver = Version(meta) => reader[r].rows = meta.rows

\* Whoever submits under a permit knows every fill older than MAX_AGE_SEC.
PermitMeansFresh ==
  \A r \in Readers : now <= reader[r].permit.expires =>
    \A k \in Executed :
      fills[k] + MaxAge < now /\ ~Expired(k) => k \in Range(reader[r].rows)

\* What a restart would load
Stored == IF Recoverable THEN meta.rows ELSE <<Torn>>
Store == INSTANCE CertifiedStore WITH
  Fills <- Ids,
  content <- Stored,
  settled <- {k \in Executed : fills[k] < meta.cursor},
  old <- {k \in Executed : Expired(k)},
  view <- [r \in Readers |-> reader[r].rows]
\* Reads, rollbacks and crashes change nothing; only a committed manifest does.
CertifiesAsPromised == Store!Init /\ [][LosesCopy \/ Store!Next]_(Store!storeVars)

\* Every fill gets to every reader, whichever reports and requests were lost.
FillsReachReaders ==
  \A k \in Ids, r \in Readers :
    k \in Executed ~> k \in Range(reader[r].rows) \/ (k \in Executed /\ Expired(k))
=============================================================================
