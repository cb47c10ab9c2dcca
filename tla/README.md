# A verification project for the WAL crash-recovery engine

The repository is a small database engine in Python: pages in files, a buffer pool, records and
indexes in slotted pages, and write-ahead logging with an ARIES-like recovery at every start. This
directory holds TLA+ modules translated from that code, configurations for TLC, and theorems that
TLAPS checks. Paths below are relative to the repository's root.

## The system

| component | code | its state | operations |
|---|---|---|---|
| archive.main | `archive.py` | - | builds the layers bottom-up (recovery first), feeds the input lines, flushes pool and log at the end |
| QueryProcessor | `query_processor/` | `open_tx`: name -> xid; `log.csv` | tx_begin, tx_op, tx_commit, crash, stats, explain; one line of `log.csv` after each |
| FileIndexManager | `file_index_manager/file_index_manager.py` | - | create type and record, delete, search, range search |
| Catalog | `catalog.py` | pages of `__catalog__.bin` | bootstrap, add, look up, update |
| heap, hash index, B+ tree | `heap_scan.py`, `hash_index.py`, `bplus_tree.py` | pages of `<type>.bin`, `<type>_idx.bin` | insert, look up, delete, scan |
| BufferManager | `buffer_manager/` | `pool` (an OrderedDict), `dirty` | get_page, write_page, allocate_page, flush, eviction |
| DiskSpaceManager | `disk_space_manager/` | the `.bin` files, `wal.log`, `file_pages` | read and write pages, grow files, append to and read the log |
| RecoveryManager | `recovery_manager/` | `_log_buffer`, LSN and xid counters, `tx_table`, `dirty_page_table`, `master.rec` | begin, commit, log_page_update, flush_log_up_to, checkpoint; Analysis, Redo, Undo |

Every layer calls the one below; the RecoveryManager is called from two sides. `write_page` of the
pool calls `log_page_update`, which takes an LSN, logs the byte window that changed, stamps the
LSN into the page header and may run a checkpoint before it returns. Eviction and `flush` call
`flush_log_up_to(pageLSN)` before a dirty page goes to its file and `page_flushed` after it. The
constructor of the RecoveryManager runs recovery on the files directly, before a pool exists.

There is one thread. What makes the engine hard is not interleaving of threads but

- **the crash**: `os._exit` between any two system calls, so files, `wal.log` and `master.rec` are
  whatever the last write left, and it can happen again during recovery;
- **interleaved transactions**: any number are open at once, they change the same pages (an
  operation's bytes, a page's header), and there are no locks;
- **steal and no-force**: a page of an open transaction may reach its file at any eviction, a
  committed one may never have;
- **fuzzy checkpoints**, taken in the middle of a page write;
- **a log above the log**: a line of input is carried out and then written to `log.csv`; the process
  may die, or a commit raise, in between, and `log.csv` is what a person explains the data with;
- **logical structures over physical undo**: records, index nodes and the catalog are spread over
  pages that other transactions change too, and recovery puts bytes back, not records.

What makes it correct: WAL #1 and WAL #2 (the docstring of `recovery_manager.py`), the order of
LSNs, the undo chains, a dirty page table that reaches back far enough, a checkpoint named only
when it is complete, and in sum: after any crash the pages show exactly the committed changes. Above
the pages: one record per primary key, an index that knows exactly the heap's records, statistics that
count them, and in sum a map from keys to records that keeps what was committed. Above the records:
`log.csv` and the data tell the same story.

Three abstract specifications cut the system in layers, and each layer is checked against the one it
implements or stands on:

    QuerySession                      names, lines, log.csv
      uses        RecordMap           records under transactions
      implemented by RecordStore      heap, hash index, B+ tree over PagedFiles
      which uses  (CommittedStore)    cells under transactions
      implemented by WalEngine        pool, files, log, checkpoints, recovery

## The modules

| module | models | extends |
|---|---|---|
| `PageImage` | the bytes of a page as recovery sees them: pageLSN in single bytes, diff window, redo and undo of a window | |
| `WalLog` | the log: records, buffer, flushes, chains, the counters a restart reads back | `PageImage` |
| `EngineState` | all variables; files and pool, with eviction and write-back | `WalLog` |
| `Runtime` | begin, commit, read, allocate, logged write, checkpoint, flush | `EngineState` |
| `CrashRecovery` | crash, shutdown, restart, Analysis, Redo, Undo, bootstrap | `Runtime` |
| `WalEngine` | Init, Next, fairness; what the engine promises | `CrashRecovery` |
| `WalEngineInv` | the inductive invariants of the log, the pool and the tables | `WalEngine` |
| `ReplayInv` | the inductive invariants of the pages' contents | `WalEngineInv` |
| `CommittedStore` | abstract: cells under transactions, of which a crash keeps the committed changes | |
| `EngineStore` | `WalEngine` with the refinement mapping to `CommittedStore` | `WalEngine` |
| `UnloggedWrites` | the engine when EXPLAIN executes a record command outside a transaction | `WalEngine` |
| `EngineClaims` | what docs and comments say and the code does not do | `WalEngine` |
| `MCWalEngine`, `MCEngineStore`, `MCUnloggedWrites`, `MCEngineClaims` | instances for TLC | `ReplayInv` and the modules above |
| `PagedFiles` | the files under the record layer: pages, allocation, physical undo, crash | |
| `HeapFile` | records in slots of data pages | `PagedFiles` |
| `HashIndex` | buckets and overflow chains | `HeapFile` |
| `BPlusTree` | nodes, descent, splits, leaf list | `HashIndex` |
| `RecordStore` | create_type, create_record, delete_record, commit, crash | `BPlusTree` |
| `RecordMap` | abstract: a map of records under transactions, at most one per primary key | |
| `RecordView` | `RecordStore` with the refinement mapping to `RecordMap` | `RecordStore` |
| `RecordClaims`, `MCRecordStore` | claims of the record layer, instances for TLC | `RecordView` |
| `CatalogChain`, `MCCatalog` | the catalog's page chain, its instance | `PagedFiles` |
| `QuerySession`, `MCQuerySession` | names, lines of input, `open_tx`, `log.csv`, over an instance of `RecordMap` | |
| `QuerySessionInv` | the inductive invariant | `QuerySession` |
| `WalEngineProofs` | lemmas about the log's operators, types, WAL #1, the size of the pool | `WalEngineInv` |
| `LogProofs` | the log as a history: order, commits, checkpoints, the transaction table, what Analysis finds | `WalEngineProofs` |
| `ReplayProofs` | files, pool and dirty page table against the log | `LogProofs`, `ReplayInv` |
| `StoreProofs` | what Redo leaves and what is served; the refinement of `CommittedStore`, step by step | `ReplayProofs`, `EngineStore` |
| `FilesProofs` | what the record layer may rely on: stores, saved before-images, what a crash leaves | `PagedFiles` |
| `CatalogProofs` | the catalog's chain, walked and extended | `CatalogChain`, `FilesProofs` |
| `RecordProofs` | records in slots without an index, and the refinement of `RecordMap` | `RecordView`, `FilesProofs` |
| `QuerySessionProofs` | lemmas and theorems of the session | `QuerySessionInv` |

### State

`disk`, `fileSize`, `master` and `log.stable` survive a crash; everything else is memory and
`Forget` resets it. `pool` keeps the frames and the OrderedDict's order. `pc` says where the thread
stands inside an operation that writes to the outside more than once:

    down -> analysis -> redo (-> redofresh) -> undo (-> endloser) -> finish -> boot -> idle
    idle -> install | ckptbegin -> ckptend -> master -> (install) -> idle
    idle -> end -> idle          idle -> flush -> idle          idle -> exit -> down

A step of the model is the code between two places where a crash could be told apart, so a step
writes at most one page or flushes the log, in the code's order. The exception is the victim of an
eviction: its log flush, its page write and the pool change are one step. A crash between the flush
and the page write equals a crash after a longer prefix of the buffer reached the log, which `Kill`
includes.

### Abstractions, and why they keep the control

- A page is a few cells. Cell 0 is `page_type`, two neighbouring cells are the pageLSN in base
  `ByteBase` (low byte first, the rest in the second), the others are slots, and in the claims'
  instances a record count. A data operation changes a set of cells of one page (`WriteSets`) to a
  value. The code keeps eight bytes of pageLSN; two are enough to see that undo restores
  single bytes of the number.
- Commands are dissolved into their page accesses, which may come in any order and from any open
  transaction: a superset of what commands do.
- `Kill` leaves any prefix of the log buffer in `wal.log`. The `crash` command leaves none of it;
  a process that dies inside `_flush_log` leaves some. Files keep what was written: the model's
  crash is the process's death, as in the code's `os._exit`, and not a power failure that loses
  unsynced pages.
- `_write_master` empties `master.rec` before it writes the number, so a crash there leaves the old
  file, the new one or an empty one, which counts as none (`MastersLeft`).
- Log records are kept whole: a torn last line of `wal.log` is not modelled.
- The branch of `_phase_undo` for an LSN the log does not hold is not modelled: `UndoRecord` would
  be disabled there, and `OperationsFinish` shows that this does not happen.
- `write_page` on a page that was not allocated is left out, because all callers allocate first.

`AgedSpec` (in `MCWalEngine`) starts with the files of an engine that ran once before. It is needed
because the change with LSN 0 is lost by redo (see the findings): from an empty directory the
pages touched first are outside `Repeatable`, in an aged one none is. The theorems speak of `Spec`, which
starts from an empty directory; an aged one is what a first engine leaves behind that commits one
empty transaction and exits, so they cover it up to the count of starts.

`Repeatable(p)` and `DirtyWrites` name what the recovery properties leave out. A page is repeatable
when no loser of an *earlier* recovery changed it and none of its changes has LSN 0.
`DirtyWrites = FALSE` restricts the workload to transactions that do not overwrite each other's
uncommitted cells. The code enforces neither; the runs of the findings show what happens without.

`EngineStore` adds the abstract store's variables to the engine as history variables. They are
functions of the engine's state: what is *kept* is the log replayed for the committed transactions,
what is *seen* is read from the page being stamped, the pool or the file, and what a transaction
*changed* are the cells of its logged updates. `ImplementsStore` says that every step of the engine
is then a write, a commit, a crash or a stutter of `CommittedStore`; a page write, a partial flush, a
checkpoint or a step of recovery that moved any of the three would not be. The abstract `Write` has the
guard that `DirtyWrites = FALSE` states, and the mapping starts from an aged directory, for the reason
below.

`UnloggedWrites` is an engine of its own because nothing that `WalEngine` promises holds with it: an
EXPLAIN outside a transaction executes the record command it explains, `log_page_update` returns
without a transaction, and the page is dirty in the pool without a log record and without a stamp.

### The record layer

`PagedFiles` stands for everything below the record layer and assumes what the engine promises: a
restart keeps what committed transactions wrote and puts the before-image of every other changed
cell back. The findings of the engine's runs are about where it does not; here they are assumed away,
so that what the record runs find is the record layer's own.

- A page has a cell for `page_type`, `next_page`, `record_count` (which only tree nodes read) and an
  internal node's first child, and one per slot or node entry. Before-images are kept per cell
  (`undo`), first writer first, because that is what undoing the log backwards ends with. A free
  slot is `Zero`: the code clears the slot's bytes with its bitmap.
- A command is one step. There is one thread, commands never interleave, and a crash inside a
  command undoes what the command wrote. What it does not undo is that files have grown: a page of a
  lost transaction may or may not be in its file at the next start, zeroed. `sizes` keeps every
  page count since the last forced log write, and a crash picks one of them.
- A record is its primary key; `AsStored` is what encoding it and decoding it again makes of it. The
  runs use integer keys, which come back as they were (`Faithful`). A string with a character that is
  not ASCII does not: see the deviations below.
- Look-ups are total: `NoLoc`, `Failed` (a RuntimeError) and `Never` (more steps than pages, so a
  loop) are answers. `Hang` is the step of a thread that got the last one; only the `crash` of the
  process ends it.
- An index that raises after the heap insert leaves the record in the heap, as in the code, which has
  no abort. No run reaches that branch: with one transaction at a time no chain leads to a missing page.
- The workload keeps open transactions off each other's keys (`Undisputed`). The code has no locks;
  with keys shared there is nothing a map could promise. `Interleaved` lists the strategies and keys
  for which a transaction may insert while another has touched the same files: one heap page or one
  leaf then holds uncommitted records of both. `MaxBatch` bounds what one transaction changes: two
  things, the type and a record or two records, so that a crash takes back more than one command.
- `MaxKeys` is 2 in the instances where the code's floor is 4: with 2 the third key splits a leaf and
  five keys make three levels. The split points are the code's expressions.
- Not modelled: values besides the key, several types at once (the catalog's chain is
  `CatalogChain`), `BPlusTree.insert` without a root (create_type always builds one), `remove_type`
  (no caller), and EXPLAIN outside a transaction, whose writes are not logged (`UnloggedWrites`).

`RecordMap` is the abstract specification: `now` (what searches answer), `kept` (what they would
answer after a crash) and `touched`. `RecordView` adds `now` and `kept` to `RecordStore` as history
variables, both functions of the concrete state, so that TLC evaluates the mapping once per step;
`ImplementsMap` is `RecordMap`'s specification under it.

### The session

`QuerySession` is the topmost layer. `pc` alternates between `input`, where the next line is carried
out, and `answer`, where its line of `log.csv` waits to be written; a crash may come at either.

- The records are an instance of `RecordMap`, so what a command does to them is what the record layer
  was shown to promise, and the workload is the one under which it was (`Undisputed`).
- `log.csv` is not kept as a sequence. `audit` is what a reader who takes successful lines at their
  word knows after each: the committed records, and what every name did since its last `tx_begin`. The
  invariants compare that with the data.
- A commit that raises is the only I/O failure. `tx_commit` removes the name before it calls `commit`, so
  the transaction stays behind without a name. If `commit` raised after it had set the entry of the transaction
  table to `committed`, the commit is done and merely reported as a failure. If it raised before, in
  `_flush_log` or `log_fsync`, the transaction is in doubt (`doubt`): its entry stays `active`, searches
  go on seeing its changes, and only the next restart decides. Analysis finds the commit record
  (`FoundCommitted`) when it is in `wal.log`, perhaps by a later flush, and not covered by a checkpoint. Once a
  checkpoint has written the entry as `active`, Analysis starts behind the commit record and Undo, following
  the chain from it, takes the changes back: a commit record in `wal.log` is not final. An empty `master.rec`
  makes Analysis read it after all, and a failed append that is repeated and cut short can hide it; so
  `FoundCommitted` may or may not happen to each transaction in doubt, and `Restart` undoes the rest.
- Three things `log.csv` cannot tell, and `audit` is told: that a crash came between a commit and its
  line, that a commit that raised was done, and which transactions in doubt a restart found committed.
- EXPLAIN outside a transaction carries out the record command it explains and reports it under no name
  (`Unlogged`). The change shows at once, and the reader counts it at once. It has no log record, and what
  Redo and Undo make of its pages depends on evictions, windows and a zeroed pageLSN (`claim_explain`), so the
  restart after it may leave any records at all (`RestartUnlogged`). There the model ends, in
  `pc = "astray"`: `AuditExplains` and `AnswersFollow` are about log and data up to that restart, and in
  particular about all runs without such an EXPLAIN.
- `Unused` gives a transaction an id that nothing in memory or in doubt has; the code's counter does
  the same and never repeats one. Reusing ids keeps the instance finite.
- Every command may be refused for its arguments, without effect. A command that fails after some of its
  page writes is not modelled here (see the record layer).

### Bounds

`MaxPages`, `MaxXid` bound page and transaction ids, `LsnLimit` the LSN beyond which no operation
starts (recovery and operations under way still finish), `MaxRuns` the number of starts.
`CHECK_DEADLOCK FALSE` everywhere: at the bounds, and after a normal exit, the system stops.

The record runs bound pages per file (`MaxPages`: a command that needs more is not taken), keys,
and slots per page. The session has no counter to bound; it is finite for finite sets.

### Fairness

`Fairness` asks for weak fairness of `Recover` and of `Continue`, the rest of an operation that has
begun. There is one thread and no waiting: it goes on unless the process dies. Nothing forces input,
a restart or a crash.

## What the runs show

| run | instance | properties |
|---|---|---|
| `nested` | one page, one frame, log buffer of two, aged directory with LSNs to 7 or empty one with LSNs to 5, each in one byte, three starts, crashes inside recovery | `TypeOK`, `CommitIsDurable`, `LogOrdered`, `MasterIsComplete`, `ChainIntact`, `ServedIsHistory`, `NoZombies` |
| `aged` | aged directory, two values, two slots in one page, two starts, no crash inside recovery | `RepeatsHistory`, `LosersFound`, `ServiceInv`, `ImplementsStore` |
| `evict` | aged directory, three pages, two frames, MRU, log buffer of four, LSNs to 5, three starts, crashes inside recovery, transactions that write the same cells, fair | `PoolSound`, `RecLsnReachesBack`, `WalInv`, `WriteAheadRule`, `CommittedPagesServed`, `ReplayInv`, `OperationsFinish` |
| `rec_index` | all three strategies, two buckets, data and bucket pages of one slot, two keys per node, three keys of which two are deleted again, two of them changed per transaction, four pages per file | `TypeOK`, `KeysUnique`, `CountMatchesHeap`, `IndexMatchesHeap`, `RangeIsExact`, `ImplementsMap` |
| `rec_grow` | two transactions; B+ tree with two keys per node and five keys, one transaction at a time; heap of three slots per page where both may be open, two of the five keys being inserted into pages that hold the other's records; two things changed per transaction; no deletions | `ImplementsMap` |
| `catalog` | three types, one entry per page, first page blank or zeroed | `EntriesReachable`, `UpdatesHit` |
| `session` | two names, two keys, three transaction ids, commits that raise and stay in doubt until a restart, EXPLAIN outside a transaction, crashes anywhere | `SessionInv`, `AuditExplains`, `ReportedByName`, `AnswersFollow` |

One slot per page makes every second key of a bucket take an overflow page, and four index pages let
a lost `create_type` leave zeroed pages behind that the next one allocates after, which is where
`Hang` is reached. Five keys, two per node, are the fewest that split an internal node. In `rec_grow`
there are no deletions: a slot that one open transaction frees and another reuses is a dirty write,
which undo takes back as in `claim_tree`: the later commit is lost.

One page of two slots is enough for the window of one transaction's change to bracket another's;
three pages over two frames are enough for eviction out of allocation order, which leaves holes;
a log buffer of two flushes in the middle of operations, one of four leaves records behind that
only the pageLSN forces out; the LSNs from 2, where an aged log goes on, to 7 hold two interleaved
transactions with a checkpoint and a commit, or two commits. From an empty directory the first page
changed is outside `Repeatable`, so that less is asked of longer logs there: `FreshIsShort` stops at LSN 5
unless the log begins as the aged one does.

`RepeatsHistory` is checked without crashes inside recovery, because it does not hold with them: undo
writes pages directly and enters no table, so after a crash between its write and the `end` record a
checkpoint's dirty page table can still say that the page was clean, and Redo does not repeat the
loser's change. The loser is undone once more, and nothing is lost by that as long as a pageLSN is put
back as a whole: `nested` takes a `ByteBase` above its largest LSN and shows `ServedIsHistory` there.
With a smaller base the bytes of two numbers mix and a committed change can be lost, as described
under the findings; the base is the only reason why `nested` does not meet that. `aged` and `evict` keep the
small base, so that what they show holds with mixed numbers too.

`CommittedPagesServed` is what remains without any of the three restrictions (`DirtyWrites`,
`CrashInRecovery`, the base): no loser touched the page. `evict` checks it, and the invariant behind it,
with all three lifted; it has a single value, so that an overwritten value that differs is left to
the theorem.

Three transaction ids are one more than the names, so that one may be in doubt while both names are
open again, which is when an answer can show the work of a transaction that has no name, and several may be in
doubt when a restart decides.

Properties that are proved are checked all the same: the runs are what the proofs were tried on, and
where a change of the model shows first.

### Findings

| run | what is said | what happens |
|---|---|---|
| `claim_undo` | undo takes the losers back (`recovery_manager.py:15`) | without compensation records the *second* recovery redoes a loser's updates and, having seen its `end`, does not undo them |
| `claim_lsn_zero` | a redo skip means "already on disk" (`:344`) | the update with LSN 0 is skipped, since a never-stamped page also shows 0 |
| `claim_lookup` | `lookup_pointer` "Returns (None, None, n) if not found" (`hash_index.py:167`) | on a type whose first creation was lost in a crash the walk reaches a zeroed page and never ends |
| `claim_explain` | before a page reaches disk its log record does (`buffer_manager.py:169`) | EXPLAIN outside a transaction repacks a B+ tree node with pageLSN 0; the node goes to its file while the record of an open transaction's change of it is still buffered |
| `claim_tree` | "the tree survives restarts intact" (`bplus_tree.py:5`) | undoing one transaction's insert into a leaf takes back cells of another's committed one |

More deviations were met while modelling and have no run of their own. Duplicates "are rejected"
(`file_index_manager.py:148`), but encoding replaces a character that is not ASCII by `?` while look-ups
compare the original: such a string key is stored as another string, never found and accepted again.
Undo restores the pageLSN
with the rest of the before-image, byte by byte, so bytes of different numbers can mix and "flushedLSN
>= pageLSN" (`recovery_manager.py:11`) is lost for pages that undo wrote. More than that: a committed
change can be lost, although `:391-393` says that undo leaves "a later committed change that shares the
window" alone. Let a loser's record with LSN 256 set the high byte of the number and a cell, and a committed
record with LSN 257 the low byte and a cell inside the first one's window. Undoing 256 leaves the
number 1; the process dies before the loser's `end` is in `wal.log`; Redo takes 1 for older than 256, writes the
whole window of 256 with the old value of the committed cell, and the number is 257 again, so that the
committed record is skipped. `UndoSparesCommitted` (`EngineClaims`) says that this does not happen;
`tlc -config ClaimMixed.cfg MCEngineClaims` shows it in 49 steps, with numbers in base 2. A header byte such as the
record count that two transactions changed is put back to the value before both, again against
`:391-393`; `claim_tree` shows the effect on a leaf. And
after redo has recreated the catalog's first page from zeroes the bootstrap is skipped, so the page is
not "recreated deterministically" (`:152-153`): its type and `next_page` stay 0. `catalog` starts from
either first page and shows that look-ups still work, because the walk stops at a page it has seen.

## What is proved

TLAPS checks, for all values of the constants that satisfy the named assumptions `PageLayout`,
`LogBounds`, `EngineConfig`, `RuntimeConfig` and `CrashConfig` (positive sizes, sentinels outside
their sets, header cells inside the page):

- `TypeInvariant` and `TypeCorrect` (`WalEngineProofs`): `Spec => []TypeOK`. `TypeOK` alone is not
  inductive: Undo and the end of a commit index tables with `scan`, and `Install` writes
  `pending.page`. `ScanInv` ties both to `pc`, and that is all the proof needs.
- `WalInvariant` and `WriteAhead` (`WalEngineProofs`): `Spec => WriteAheadRule`. The rule speaks of a
  step; the invariant that makes every step obey it is `WalInv`:
  - `StampedInv`: a change whose record is still buffered is in memory, in the page `write_page`
    is about to install or in a dirty frame, and that copy's pageLSN is at least the record's LSN.
    This is why flushing up to the *page's* LSN is enough, although the page carries several
    changes.
  - `LsnInv`: LSNs in the buffer lie strictly between `flushedLSN` and the next one, so that
    `flush_log_up_to` may compare with `flushedLSN` only; and recovery buffers no update.
  - `PoolInv`: a page is in the pool once (or evicting it would leave a second copy), dirty frames
    are in the pool, pool pages exist, and recovery starts with an empty pool.

  One lemma per action shows that the action keeps the three parts and obeys the rule;
  `WriteBackRule` and `MakeRoomRule` carry the argument for the write itself, `FlushUpToBuf`
  and `EmitBuf` what the log's operators leave in the buffer.
- `PoolIsSound` (`WalEngineProofs`): `Spec => []PoolSound`. `PoolInv` is most of it; that
  `len(pool) <= pool_size` needs the length of the order after every touch and eviction.
- `LsnsIncrease`, `CommitsAreDurable`, `MasterNamesComplete` (`LogProofs`): `LogOrdered`,
  `CommitIsDurable`, `MasterIsComplete`. File and buffer are read as one history,
  `log.stable \o log.buf`. A flush does not change it, so `NextMoves` shows of every step that it
  keeps the history, adds one record, or, a crash, leaves a beginning of it that contains the
  file. On that rest three inductive invariants: `InOrder`, which adds that the next LSN is above all
  and `flushedLSN` the file's last; `CommitInv`, in which the commit that waits at `end` is in the
  file already, so that its answer may be given; and `CheckpointInv`, which follows a
  checkpoint from its begin record at `ckptend` to the flushed end record at `master`.
- `ChainsAreIntact` and `NoTransactionIsLeft` (`LogProofs`): `ChainIntact`, `NoZombies`.
  `TxInv`: the table holds the LSN of the last update of every open transaction, and no update in
  the history has an id that `begin` may still give out. Without the second a restart that
  gave an id twice would start a chain at nothing. It holds across crashes because `Restart` counts
  on from the largest id in the file, and the file is a beginning of the history. `TableInv`: during
  Undo an active entry with nothing left to undo is clean or about to get its `end`; after it no
  active one is left, and after `finish` no committed one. `TablesLogged` says of every checkpoint's
  table what `WellFormed` says of the live one, since Analysis starts from it.
- `AnalysisFindsLosers` (`LogProofs`): `LosersFound`. A table *follows* the first `n` records of a
  log if its entries are what these records say (`Follows`). Analysis keeps that from record to
  record (`ReadRecord`) if nothing is logged of a transaction after its commit or end, and starts
  from a table that follows the log up to the checkpoint's end record. The first is `HistInv`, and
  needs that no id is given out twice. The second closes a circle through the whole engine: the
  table a checkpoint logs follows the log only if every transaction with work in the log is open or
  has a commit or `end` record, which is so because the last recovery gave each loser its `end`
  (`UndoInv`), which is so because its Analysis found them all. `LoserInv` carries this around,
  through crashes at every step of it. The run `aged` checks `LosersFound` without crashes inside
  recovery; the theorem covers them.

- `ReplayInvariant` (`ReplayProofs`): `Spec => []ReplayInv`. The pages themselves. *Replaying* the first
  `n` records of the log gives a cell the after-image of the last update among them that changed it
  (`At`); an image is *shown* by a prefix if its user cells and its pageLSN are those. The
  invariant says of every page that only *trusted* transactions have changed, and not at LSN 0 (`Sound`):
  - `LinkInv`: an update's before-image is the page replayed up to it, inside its window, and the
    header after it carries its LSN.
  - `FileInv`: the file shows the page replayed up to *some* record of `wal.log`; while Redo runs, not
    one before `scan`. No file is known to be current, and nothing else has to be known: a pageLSN
    below a record's LSN says that the prefix ends before the record, and replaying from there on is
    idempotent on whole windows (`LinkInv` again, for what lies between changed bytes).
  - `MemoryInv`: what the engine reads, in the stamped page, the pool or the file, is the page replayed
    to the end of the log, at every step outside Analysis and Redo.
  - `ReachInv`, `LoggedReachInv`, `PastInv`: the dirty page table, the live one and those that
    checkpoints logged, starts no later than the first record the file lacks, and knows no LSN of the
    future. The end record of a checkpoint is written after its table was read: records in between
    are Analysis's to find.
  - `StoreInv`: a file is blank beyond its end, a clean frame equals its page in the file.
  - `UndoListInv`: what Undo still has on its list belongs to transactions without commit or `end`.

  Whom to trust is the crux. Once Redo is over, the committed and the open transactions. Before, if
  recoveries run to their end, everyone that no earlier recovery has undone, which includes the losers
  to come: only so can Redo be said to repeat history. If a recovery may be interrupted, the losers are
  not to be trusted, since Undo may have written their pages already without a trace in the log.
  `Trusted` shrinks at the end of Redo, so the invariant only gets weaker there. There is
  one lemma per action again; `Wrote_Replay`, `WriteBackShows` and `Reapply_Replay` carry the argument
  for the three ways a page changes, `Steady_Step` that for everything that changes none.
- `TablesReachBack` and `CommittedPagesAreServed` (`StoreProofs`): `RecLsnReachesBack` and
  `CommittedPagesServed` follow, without a hypothesis on crashes or on the workload.
- `RedoRepeatsHistory`: `~CrashInRecovery => (Spec => []RepeatsHistory)`.
- `ServiceInvariant` and `ServedIsLogged`: with `~CrashInRecovery` and `~DirtyWrites`,
  `Spec => []ServiceInv` and `Spec => []ServedIsHistory`. `ReplayInv` says nothing about a page of a
  loser once Undo has begun to write. Three parts do: `ApartInv`, two transactions change the same cell
  only when the first has ended (what `DirtyWrites` forbids a transaction to do, read off the log
  through crashes and recoveries); `RepeatedInv`, Undo finds all pages in their files and the
  before-images right; and `ServedInv`, a cell shows the last change that *remains*, where a
  loser's changes remain while Undo's list has not passed them. Taking back a change of a cell
  shows the one before it, which by `ApartInv` is the same loser's or an ended transaction's.

  The two hypotheses are the code's limits and not the proof's. With `~DirtyWrites` alone a
  committed change can be lost (`ClaimMixed.cfg`), `claim_tree` shows on a leaf what undo does to overwritten
  changes, and `claim_undo` and `claim_lsn_zero` why `Repeatable` is needed. `aged` is an instance that
  meets both hypotheses and reaches losers, their undo and the pages served afterwards.

- `EngineImplementsStore` (`StoreProofs`): with the same two conditions, `StoreSpec /\ []FollowedRepeat =>
  ImplementsStore`: on any set `Followed` of pages that recovery can repeat, every step of the engine is a write,
  a commit, a crash or a stutter of `CommittedStore`. The store is a function of the log and of the open
  transactions: `Shows(h, xs)` gives each cell the last change in `h` that one of `xs` made, what is kept is
  `Shows` of the committed and, by `ServedInv`, what is seen is `Shows` of the committed and the open ones
  (`SeenShows`). A step that logs neither a change nor a commit moves neither (`Store_Hidden`), which
  disposes of eviction, checkpoints, Analysis, Redo and Undo at once. `Store_Commit` needs `ApartInv`: what a
  commit keeps is the cell as it is seen, not as the transaction left it, and the two are the same only if
  nobody changed the cell since. `Store_Crash` needs that every commit record is in the
  file once it is written (`CommitsFlushed`), and `Write_Store` that the
  before-image of a new record is what was seen. `[]FollowedRepeat` holds in every state of `aged`, where
  `Followed` is all pages.

Under `FilesConfig` and `ChainConfig` (page 0 is as the bootstrap or as redo leaves it, an entry is not the
value of an empty slot), and with one transaction open at a time:

- `CatalogIsSound` (`CatalogProofs`): `Spec => []CatalogInv`. `EntriesReachable` speaks of what a recursive
  walk finds; the invariant has the chain itself, a sequence of pages: page 0 first, none
  twice, each linked to the next, the last with `NULL_PAGE` or the 0 of a page that redo recreated (`IsChain`);
  every entry on a page of it (`Listed`), no type twice (`OneEach`). That `_iter_pages` walks just this sequence is
  `WalkIs`, by a least counterexample. The invariant says it twice, of the pages and of what a crash would
  leave, there for every number of pages the file may then have (`sizes`): the page that was allocated and not
  yet linked comes back zeroed and is not in the chain. `SlotWritten` and `PageLinked` are the two ways a
  chain changes, `SoundGrows` the third: by blank pages behind it.
- `EntriesAreReachable` and `UpdatesHitTheirEntry`: `EntriesReachable` and `UpdatesHit` follow.

  Both stand on `FilesProofs`, which holds for whatever pages hold and any number of transactions: `FilesInv`
  is kept by every command (`WriteAllFiles`), commit (`CommitFilesOK`) and crash (`CrashFilesOK`), and a
  command changes nothing of what a crash right after it leaves, except that new pages are blank.

  The condition is the code's limit. When a second open transaction links its new catalog page
  from a page of the first, a crash takes that link back with the page it is on, and a
  committed type is not found any more; TLC shows it in five states with `Tx = {t1, t2}` in `Catalog.cfg`.

Under `FilesConfig`, `HeapConfig` and `StoreConfig`, for behaviours with `index_strategy = heap_scan` and keys
that are read back as they were written (`ReadBack`):

- `RecordTypes`, `RecordKeysAreUnique`, `ScansMatchHeap`, `CountsMatchHeap` (`RecordProofs`): `TypeOK`,
  `KeysUnique`, `IndexMatchesHeap`, `CountMatchesHeap`.
- `HeapImplementsMap`: `ViewSpec /\ HeapScan => ImplementsMap`, the refinement of `RecordMap` step by step.

  The proofs read the heap as a function from places to keys, once as it is (`Seen`) and once as a crash
  would leave it (`Left`), and ask of each slot whose before-images are saved for it (`Own`). `Command`,
  `Committed` and `Crashed` say what the three kinds of step do to these functions; from there on nobody speaks
  of pages. `RecordCreated` and `RecordDeleted` reduce the two commands to "one slot changes"
  (`Moves`), through `ScanFinds` for the look-up and `RecordPlaced` for the slot that is chosen or the page
  that is added. The invariant is `SlotInv`: both functions hold a key once and nothing before the type
  exists (`Placed`); a slot has at most one owner, and then holds, now and before it, only what that
  transaction touched, while an unowned slot is the same in both (`OwnedSlot`, `OwnedMark`);
  open transactions touch different things (`Apart`). That is what commit needs: `Left` takes over from `Seen`
  just the slots that `x` owns, and `Apart` keeps them from holding a key that another slot of `Left`
  has. What searches answer is a function of `Seen`, what they would answer after a crash the same one of
  `Left` (`ServedIs`), so each step of the map can be read off. `CountInv` adds that the entry's count is the
  number of full slots, in both.

  The hypotheses are again the code's limits. `SlotsApart`: either nothing is deleted, and then any
  number of transactions may insert into the same pages at once, or transactions follow each other;
  otherwise one may fill the slot that another, still open, has freed, and undo puts the old record over
  the committed one. `Separate`, for the count: two open transactions change one count in the catalog
  entry, and undo puts back the value before both. `ReadBack`: see the deviation about keys that are not ASCII.
  `rec_grow` meets `SlotsApart`, `rec_index` all of them.

Under `SessionConfig` (the type is not a key, no transaction and no name is `NoTx`):

- `SessionIsSound` (`QuerySessionProofs`): `Spec => []SessionInv`. What the three properties of the
  run need and do not say: whose change a change is. `KnownInv` holds the reader's knowledge, the waiting line
  included, against each transaction's own changes, under its name while it is open and under `doubt`
  after its commit raised, until a restart; `ApartInv` keeps transactions apart and what none touched as it was kept;
  `RelationInv` gives every record its type, or a commit could keep a record of a type that is lost.
  All of it holds up to a restart after changes outside any transaction, beyond which nothing is claimed.
- `AuditExplainsData`, `ChangesAreReported`, `AnswersFollowLog`: the run's three properties follow from it.

  Again one lemma per action. `Heard...` are about the reader, `Refused` and `Looked` about lines that
  change nothing, `Changed` about the successful commands, `UnloggedStep` about those outside a transaction,
  `KeptByCommit` and `CommitApart` about what `RecordMap`'s commit keeps, whether a line reports it or a
  restart finds it.

Only model-checked: `ServedIsHistory` when crashes fall inside recovery and a pageLSN is one byte
(`nested`), which needs an invariant of its own for pages that an interrupted Undo has half restored; the properties of the
record store under `hash_index` and `bplus_tree`, which follow from what walks, descents and splits compute, and
with them `RangeIsExact`, which is about the tree only; and `OperationsFinish`, since liveness under
fairness is out of the prover's reach.

## Not modelled

Parsing and its error messages, the texts of `output.txt` and `stats_output.txt`, counters and cost
estimates; the text of a log line and torn lines; log appends that fail half-way inside the engine; the
free lists (`deallocate_page` has no caller); field values besides the primary key; names of types,
which decide on file names and may collide; the result records of `models.py`, which have no behaviour.

## Plan

1. done: log, pool, files, recovery and their interaction; type invariant and WAL #1 proved.
2. done: the record layer over an engine that keeps its promise; refinement of a map of records;
   the catalog's chain.
3. done: the session and `log.csv`, checked and proved; EXPLAIN's unlogged record commands.
4. done: the store of committed changes that `WalEngine` implements, which is what `PagedFiles` assumes.
5. done: the order of the log, the durability of commits, complete checkpoints, intact chains, no
   transaction left behind, the losers found and the size of the pool as theorems.
6. done: the contents of pages as theorems: the dirty page table reaches back, committed pages are
   served, Redo repeats history, and what is served is the history.
7. done: the refinement of `CommittedStore`, step by step, and the catalog's chain as theorems.
8. done: the record store without an index as theorems, with the refinement of `RecordMap`.
9. open: the same for buckets and trees; the catalog with several open transactions; commands that
   fail half-way for want of a page.
