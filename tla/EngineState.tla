----------------------------- MODULE EngineState -----------------------------
(***************************************************************************)
(* The state of the storage engine: what survives a crash (the paged       *)
(* files, wal.log, master.rec) and what does not (the buffer pool, the log *)
(* buffer, the transaction and dirty page tables, the open transactions),  *)
(* with the disk and pool operations the layers above are written in.      *)
(* The engine is one thread, so its operations interleave only with        *)
(* crashes; pc says where inside a multi-step operation the thread stands. *)
(***************************************************************************)
EXTENDS WalLog

CONSTANTS Names,               \* transaction names the input uses
          PoolSize,            \* config buffer_pool_size
          Policy,              \* config replacement_policy
          CheckpointInterval,  \* config checkpoint_interval
          NoPage,              \* "no page": nothing waits to be installed
          NoXid                \* "no transaction" of a name

ASSUME EngineConfig ==
    /\ PoolSize \in Nat \ {0}
    /\ Policy \in {"LRU", "MRU"}
    /\ CheckpointInterval \in Nat \ {0}
    /\ NoPage \notin Pages
    /\ NoXid \notin Xids

VARIABLES
    disk,       \* page -> bytes in its file; zero beyond the file's end
    fileSize,   \* file -> pages its .bin file really holds
    master,     \* master.rec: LSN of the last checkpoint, NoLsn if missing
    log,        \* wal.log and the log buffer (WalLog!LogState)
    filePages,  \* file -> num_pages, the in-memory page count
    pool,       \* the buffer pool: frames and the OrderedDict's order
    txTable,    \* tx_table
    dpt,        \* dirty_page_table
    nextXid,    \* _next_xid
    opsSinceCkpt,
    openTx,     \* QueryProcessor.open_tx: name -> xid
    pc,         \* where the thread stands
    pending,    \* the stamped page write_page has not installed yet
    scan,       \* recovery's position in the log; else a local of the step
                \* in progress: begin_lsn of a checkpoint, xid being ended
    toUndo,     \* _phase_undo's to_undo: loser -> next LSN to undo
    runs,       \* times the process was started (bound)
    bootLen,    \* records wal.log held when the process started
    acked       \* transactions whose tx_commit was answered "success"

durable  == <<disk, fileSize, master>>
tables   == <<txTable, dpt, nextXid, opsSinceCkpt, openTx>>
recovery == <<scan, toUndo, bootLen>>
vars == <<disk, fileSize, master, log, filePages, pool, txTable, dpt, nextXid,
          opsSinceCkpt, openTx, pc, pending, scan, toUndo, runs, bootLen,
          acked>>

PCs == {"down", "analysis", "redo", "redofresh", "undo", "endloser", "finish",
        "boot", "idle", "ckptbegin", "ckptend", "master", "install", "end",
        "flush", "exit"}
Recovering == {"analysis", "redo", "redofresh", "undo", "endloser", "finish",
               "boot"}

Frame   == [data : Image, dirty : BOOLEAN]
NoFrame == [data |-> ZeroImage, dirty |-> FALSE]
Pool    == [order : Seq(Pages), frame : [Pages -> Frame]]
EmptyPool == [order |-> << >>, frame |-> [p \in Pages |-> NoFrame]]
Nothing == [page |-> NoPage, data |-> ZeroImage]

-----------------------------------------------------------------------------
(* DiskSpaceManager *)

\* _page_error: read_page only knows pages below num_pages.
Allocated(p) == p[2] < filePages[p[1]]

\* write_page / _raw_write: seek past the end leaves a hole that reads as
\* zeroes; both page counts grow to hold the page.
\* counts are the in-memory page counts at the time of the call.
GrownTwice(n, p) == IF p[2] >= n THEN p[2] + 2 ELSE n          \* mutant
Grown(n, p) == IF p[2] >= n THEN p[2] + 1 ELSE n
DiskWrite(p, img, counts) ==
    /\ disk' = [disk EXCEPT ![p] = img]
    /\ fileSize' = [fileSize EXCEPT ![p[1]] = Grown(fileSize[p[1]], p)]
    /\ filePages' = [counts EXCEPT ![p[1]] = Grown(counts[p[1]], p)]

-----------------------------------------------------------------------------
(* BufferManager: the pool as an OrderedDict, oldest use first *)

Cached(p) == p \in Range(pool.order)

\* The bytes an operation sees, and the before-image it logs.
CurrentBytes(p) == IF Cached(p) THEN pool.frame[p].data ELSE disk[p]

\* A sequence without p, which it holds at most once.
Without(s, p) ==
    LET i == CHOOSE i \in DOMAIN s : s[i] = p
    IN  IF p \in Range(s)
        THEN [j \in 1 .. (Len(s) - 1) |-> IF j < i THEN s[j] ELSE s[j + 1]]
        ELSE s

\* pool[key] = data; move_to_end; dirty[key] = d
Touch(po, p, img, d) ==
    [order |-> Append(Without(po.order, p), p),
     frame |-> [po.frame EXCEPT ![p] = [data |-> img, dirty |-> d]]]

\* pool.pop(key); dirty.pop(key)
Drop(po, p) == [order |-> Without(po.order, p),
                frame |-> [po.frame EXCEPT ![p] = NoFrame]]

\* dirty[key] = False
StillDirty(po, p) == po                                        \* mutant
MarkClean(po, p) ==
    [order |-> po.order,
     frame |-> [po.frame EXCEPT ![p] = [data |-> po.frame[p].data,
                                        dirty |-> FALSE]]]

\* dirty_page_table.setdefault: recLSN is the first change since the flush.
LatestDirtied(d, p, lsn) == [d EXCEPT ![p] = lsn]              \* mutant
FirstDirtied(d, p, lsn) == IF d[p] = NoLsn THEN [d EXCEPT ![p] = lsn] ELSE d

\* _victim_key
VictimKey(po) == IF Policy = "MRU" THEN LastOf(po.order) ELSE Head(po.order)

\* _wal_before_flush (WAL #1)
NoWalBeforeFlush(l, img) == l                                  \* mutant
WalBeforeFlush(l, img) == FlushLogUpTo(l, ReadPageLsn(img))

\* A dirty frame goes to disk: the log first, then the page, then page_flushed.
WriteBack(p, counts) ==
    /\ log' = WalBeforeFlush(log, pool.frame[p].data)
    /\ DiskWrite(p, pool.frame[p].data, counts)
    /\ dpt' = [dpt EXCEPT ![p] = NoLsn]

MakeRoomLate(p, img, d, counts) ==                             \* mutant
    LET full   == Len(pool.order) > PoolSize
        victim == VictimKey(pool)
        steal  == full /\ pool.frame[victim].dirty
    IN  /\ pool' = Touch(IF full THEN Drop(pool, victim) ELSE pool, p, img, d)
        /\ \/ steal /\ WriteBack(victim, counts)
           \/ ~steal /\ filePages' = counts
              /\ UNCHANGED <<disk, fileSize, log, dpt>>

\* _make_room, then the new frame: a full pool gives up its victim first.
MakeRoomFor(p, img, d, counts) ==
    LET full   == Len(pool.order) >= PoolSize
        victim == VictimKey(pool)
        steal  == full /\ pool.frame[victim].dirty
    IN  /\ pool' = Touch(IF full THEN Drop(pool, victim) ELSE pool, p, img, d)
        /\ \/ steal /\ WriteBack(victim, counts)
           \/ ~steal /\ filePages' = counts
              /\ UNCHANGED <<disk, fileSize, log, dpt>>
=============================================================================
