------------------------------- MODULE Runtime -------------------------------
(***************************************************************************)
(* The engine while it serves input: transaction control (QueryProcessor   *)
(* and RecoveryManager.begin/commit), page reads, allocations and logged   *)
(* writes of the BufferManager, fuzzy checkpoints, the flush of `stats`    *)
(* and of a normal shutdown.  An operation that writes twice to the        *)
(* outside is split where a crash between the two could be told apart;     *)
(* pc chains its steps.                                                    *)
(***************************************************************************)
EXTENDS EngineState

CONSTANTS LsnLimit,     \* bound: no operation starts beyond this LSN
          WriteSets,    \* the sets of cells one data operation changes
          Values,       \* what it puts there
          CatalogFile,  \* CATALOG_FILE
          TypeCell,     \* the header cell that holds page_type
          CatalogType,  \* PAGE_TYPE_CATALOG
          DirtyWrites   \* may a transaction overwrite uncommitted cells?

ASSUME RuntimeConfig ==
    /\ LsnLimit \in Nat
    /\ WriteSets \subseteq SUBSET DataCells /\ Values \subseteq Nat
    /\ CatalogFile \in Files /\ TypeCell \in DataCells /\ CatalogType \in Nat
    /\ DirtyWrites \in BOOLEAN

OpenXids == {openTx[n] : n \in Names} \ {NoXid}
History  == log.stable \o log.buf      \* every record emitted and not lost

\* Every operation of the input starts here; the log is bounded.
Ready == pc = "idle" /\ log.next <= LsnLimit

\* _maybe_checkpoint: count the operation; every CheckpointInterval-th one
\* goes through the checkpoint before it continues at resume.
MaybeCheckpoint(resume) ==
    IF opsSinceCkpt + 1 >= CheckpointInterval
    THEN pc' = "ckptbegin" /\ opsSinceCkpt' = 0
    ELSE pc' = resume /\ opsSinceCkpt' = opsSinceCkpt + 1

\* tx_begin: a new transaction for a name that has none open.
TxBegin(n) ==
    /\ Ready
    /\ openTx[n] = NoXid
    /\ nextXid \in Xids
    /\ nextXid' = nextXid + 1
    /\ openTx' = [openTx EXCEPT ![n] = nextXid]
    /\ txTable' = [txTable EXCEPT ![nextXid] = Active(NoLsn)]
    /\ MaybeCheckpoint("idle")
    /\ UNCHANGED <<durable, log, filePages, pool, dpt, pending, recovery,
                   runs, acked>>

\* get_page: a hit refreshes the frame, a miss reads before it evicts.
GetPage(p) ==
    /\ Ready
    /\ Allocated(p)
    /\ \/ /\ Cached(p)
          /\ pool' = Touch(pool, p, pool.frame[p].data, pool.frame[p].dirty)
          /\ UNCHANGED <<disk, fileSize, filePages, log, dpt>>
       \/ ~Cached(p) /\ MakeRoomFor(p, disk[p], FALSE, filePages)
    /\ UNCHANGED <<master, txTable, nextXid, opsSinceCkpt, openTx, pc, pending,
                   recovery, runs, acked>>

\* allocate_page: the next page id from the in-memory count, a dirty zero
\* frame and no log record.  Only operations inside a transaction allocate.
AllocatePage(p) ==
    /\ Ready
    /\ OpenXids # {}
    /\ p[2] = filePages[p[1]]
    /\ MakeRoomFor(p, ZeroImage, TRUE, [filePages EXCEPT ![p[1]] = p[2] + 1])
    /\ UNCHANGED <<master, txTable, nextXid, opsSinceCkpt, openTx, pc, pending,
                   recovery, runs, acked>>

\* The workload of a run: DirtyWrites = FALSE keeps a transaction off cells
\* that another open transaction changed.  The code has no such rule.
Uncontended(x, p, cells) ==
    \A i \in DOMAIN History :
        LET rec == History[i]
        IN  IsUpdateOn(rec, p) /\ rec.xid \in OpenXids \ {x}
            => Differing(rec.before, rec.after) \cap cells = {}

UpdateOf(x, p, before, after) ==
    LET window == DiffRange(before, after)
    IN  [type |-> "update", lsn |-> log.next, prev |-> PrevLsn(txTable, x),
         xid |-> x, page |-> p, window |-> window,
         before |-> Clip(before, window), after |-> Clip(after, window)]

\* write_page up to log_page_update: take an LSN, stamp the page, log the
\* change.  An LSN whose stamp changes nothing is burned without a record.
WritePage(n, p, cells, v) ==
    LET x       == openTx[n]
        before  == CurrentBytes(p)
        changed == [o \in Offsets |-> IF o \in cells THEN v ELSE before[o]]
        stamped == WritePageLsn(changed, log.next)
    IN  /\ Ready
        /\ x # NoXid
        /\ Allocated(p)
        /\ DirtyWrites \/ Uncontended(x, p, cells)
        /\ pending' = [page |-> p, data |-> stamped]
        /\ \/ /\ stamped # before
              /\ log' = Emit(log, UpdateOf(x, p, before, stamped))
              /\ txTable' = Chain(txTable, x, log.next)
              /\ dpt' = FirstDirtied(dpt, p, log.next)
              /\ MaybeCheckpoint("install")
           \/ /\ stamped = before
              /\ log' = TakeLsn(log)
              /\ pc' = "install"
              /\ UNCHANGED <<txTable, dpt, opsSinceCkpt>>
        /\ UNCHANGED <<durable, filePages, pool, nextXid, openTx, recovery,
                       runs, acked>>

\* The rest of write_page: the stamped page enters the pool.
Install ==
    /\ pc = "install"
    /\ \/ /\ Cached(pending.page)
          /\ pool' = Touch(pool, pending.page, pending.data, TRUE)
          /\ UNCHANGED <<disk, fileSize, filePages, log, dpt>>
       \/ /\ ~Cached(pending.page)
          /\ MakeRoomFor(pending.page, pending.data, TRUE, filePages)
    /\ pending' = Nothing
    /\ pc' = "idle"
    /\ UNCHANGED <<master, txTable, nextXid, opsSinceCkpt, openTx, recovery,
                   runs, acked>>

-----------------------------------------------------------------------------
(* _checkpoint: begin record, end record with both tables, flush, master *)

CheckpointBegin ==
    /\ pc = "ckptbegin"
    /\ log' = Emit(log, [type |-> "begin_chkpt", lsn |-> log.next,
                         prev |-> NoLsn, xid |-> SysXid])
    /\ scan' = log.next
    /\ pc' = "ckptend"
    /\ UNCHANGED <<durable, filePages, pool, tables, pending, toUndo, bootLen,
                   runs, acked>>

EndCheckpointRec ==
    [type |-> "end_chkpt", lsn |-> log.next, prev |-> NoLsn, xid |-> SysXid,
     txs |-> txTable, dirty |-> dpt]

CheckpointEndBuffered ==                                       \* mutant
    /\ pc = "ckptend"
    /\ log' = Emit(log, EndCheckpointRec)
    /\ pc' = "master"
    /\ UNCHANGED <<durable, filePages, pool, tables, pending, recovery, runs,
                   acked>>

CheckpointEnd ==
    /\ pc = "ckptend"
    /\ log' = FlushLog(Emit(log, EndCheckpointRec))
    /\ pc' = "master"
    /\ UNCHANGED <<durable, filePages, pool, tables, pending, recovery, runs,
                   acked>>

WriteMaster ==
    /\ pc = "master"
    /\ master' = scan
    /\ scan' = 0
    /\ pc' = IF pending.page = NoPage THEN "idle" ELSE "install"
    /\ UNCHANGED <<disk, fileSize, log, filePages, pool, tables, pending,
                   toUndo, bootLen, runs, acked>>

-----------------------------------------------------------------------------
(* tx_commit: the commit record is durable before the end record follows *)

TxRec(t, x) == [type |-> t, lsn |-> log.next, prev |-> PrevLsn(txTable, x),
                xid |-> x]

CommitRecord(n) ==
    LET x == openTx[n]
    IN  /\ Ready
        /\ x # NoXid
        /\ openTx' = [openTx EXCEPT ![n] = NoXid]
        /\ log' = FlushLog(Emit(log, TxRec("commit", x)))
        /\ txTable' = [txTable EXCEPT ![x] = [status |-> "committed",
                                              lastLSN |-> log.next]]
        /\ scan' = x
        /\ pc' = "end"
        /\ UNCHANGED <<durable, filePages, pool, dpt, nextXid, opsSinceCkpt,
                       pending, toUndo, bootLen, runs, acked>>

CommitEnd ==
    /\ pc = "end"
    /\ log' = FlushLog(Emit(log, TxRec("end", scan)))
    /\ txTable' = [txTable EXCEPT ![scan] = NoTx]
    /\ acked' = acked \cup {scan}
    /\ scan' = 0
    /\ pc' = "idle"
    /\ UNCHANGED <<durable, filePages, pool, dpt, nextXid, opsSinceCkpt, openTx,
                   pending, toUndo, bootLen, runs>>

-----------------------------------------------------------------------------
(* buffer.flush(): by `stats`, and by the end of the input *)

DirtyFrames == {p \in Pages : pool.frame[p].dirty}

StartFlush ==
    /\ Ready
    /\ DirtyFrames # {}
    /\ pc' = "flush"
    /\ UNCHANGED <<durable, log, filePages, pool, tables, pending, recovery,
                   runs, acked>>

Shutdown ==
    /\ pc = "idle"
    /\ pc' = "exit"
    /\ UNCHANGED <<durable, log, filePages, pool, tables, pending, recovery,
                   runs, acked>>

\* One frame at a time, in pool order.
FlushPage(p) ==
    /\ pc \in {"flush", "exit"}
    /\ p \in DirtyFrames
    /\ \E i \in DOMAIN pool.order :
          /\ pool.order[i] = p
          /\ \A j \in 1 .. (i - 1) : pool.order[j] \notin DirtyFrames
    /\ WriteBack(p, filePages)
    /\ pool' = MarkClean(pool, p)
    /\ UNCHANGED <<master, txTable, nextXid, opsSinceCkpt, openTx, pc, pending,
                   recovery, runs, acked>>

FlushDone ==
    /\ pc = "flush"
    /\ DirtyFrames = {}
    /\ pc' = "idle"
    /\ UNCHANGED <<durable, log, filePages, pool, tables, pending, recovery,
                   runs, acked>>
=============================================================================
