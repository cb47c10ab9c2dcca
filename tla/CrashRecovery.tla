--------------------------- MODULE CrashRecovery ---------------------------
(***************************************************************************)
(* Crashes, and what RecoveryManager.__init__ does about them: it reopens  *)
(* the log, then Analysis rebuilds the two tables from the last complete   *)
(* checkpoint, Redo repeats history on the files, Undo takes back the      *)
(* losers, and committed transactions without an end record get one.       *)
(* Recovery reads and writes the files directly, one log record per step,  *)
(* so that a crash can fall between any two page writes.                   *)
(***************************************************************************)
EXTENDS Runtime

CONSTANTS MaxRuns,          \* bound: times the process is started
          CrashInRecovery   \* may a crash fall inside recovery?

ASSUME CrashConfig == MaxRuns \in Nat \ {0} /\ CrashInRecovery \in BOOLEAN

\* The process is gone: what its memory held, at its initial values.
Forget ==
    /\ pc' = "down"
    /\ filePages' = [f \in Files |-> 0]
    /\ pool' = EmptyPool
    /\ txTable' = NoTable /\ dpt' = NoDirty
    /\ nextXid' = 0 /\ opsSinceCkpt' = 0
    /\ openTx' = [n \in Names |-> NoXid]
    /\ pending' = Nothing
    /\ scan' = 0 /\ toUndo' = [x \in Xids |-> NoLsn] /\ bootLen' = 0

\* _write_master empties the file before it writes the number, and
\* _read_master takes an empty file for none.
MastersLeft == IF pc = "master" THEN {master, NoLsn} ELSE {master}

\* The process dies at any point.  Some prefix of the log buffer may have
\* reached wal.log: none for the crash command, more if it dies in a flush.
Kill ==
    /\ pc # "down" /\ runs < MaxRuns
    /\ pc \in Recovering => CrashInRecovery
    /\ \E n \in 0 .. Len(log.buf) :
          log' = ReopenLog(log.stable \o SubSeq(log.buf, 1, n))
    /\ master' \in MastersLeft
    /\ Forget
    /\ UNCHANGED <<disk, fileSize, runs, acked>>

\* End of main(): the pool is flushed, then the tail of the log.
ExitDone ==
    /\ pc = "exit"
    /\ DirtyFrames = {}
    /\ log' = ReopenLog(FlushLog(log).stable)
    /\ Forget
    /\ UNCHANGED <<durable, runs, acked>>

-----------------------------------------------------------------------------
(* __init__ and Phase 1, Analysis *)

\* The end_chkpt that closes the checkpoint which master names, if any.
CheckpointEnds(s, m) ==
    {e \in DOMAIN s :
        /\ s[e].type = "end_chkpt"
        /\ \E b \in 1 .. (e - 1) :
              /\ s[b].type = "begin_chkpt" /\ s[b].lsn = m
              /\ \A k \in b .. (e - 1) : s[k].type # "end_chkpt"}

LoadNothing(s, m) == txTable' = NoTable /\ dpt' = NoDirty      \* mutant
LoadTables(s, m) ==
    \/ \E e \in CheckpointEnds(s, m) :
          txTable' = s[e].txs /\ dpt' = s[e].dirty
    \/ /\ CheckpointEnds(s, m) = {}
       /\ txTable' = NoTable /\ dpt' = NoDirty

Restart ==
    /\ pc = "down" /\ runs < MaxRuns
    /\ runs' = runs + 1
    /\ filePages' = fileSize                   \* _scan_existing_files
    /\ log' = ReopenLog(log.stable)
    /\ nextXid' = NextXid(log.stable)
    /\ LoadTables(log.stable, master)
    /\ scan' = 1
    /\ bootLen' = Len(log.stable)
    /\ pc' = IF log.stable = << >> THEN "boot" ELSE "analysis"
    /\ UNCHANGED <<durable, pool, opsSinceCkpt, openTx, pending, toUndo, acked>>

\* The tables after one more record of the log.
Analyzed(rec) ==
    CASE rec.type = "update" ->
           /\ txTable' = [txTable EXCEPT ![rec.xid] = Active(rec.lsn)]
           /\ dpt' = FirstDirtied(dpt, rec.page, rec.lsn)
      [] rec.type = "commit" ->
           /\ txTable' = IF txTable[rec.xid].status = "none" THEN txTable
                         ELSE [txTable EXCEPT ![rec.xid] =
                                 [status |-> "committed", lastLSN |-> rec.lsn]]
           /\ UNCHANGED dpt
      [] rec.type = "end" ->
           /\ txTable' = [txTable EXCEPT ![rec.xid] = NoTx]
           /\ UNCHANGED dpt
      [] OTHER -> UNCHANGED <<txTable, dpt>>

AnalyzeRecord ==
    /\ pc = "analysis" /\ scan <= bootLen
    /\ IF \E e \in CheckpointEnds(log.stable, master) :
             log.stable[scan].lsn <= log.stable[e].lsn    \* scan_from
       THEN UNCHANGED <<txTable, dpt>>
       ELSE Analyzed(log.stable[scan])
    /\ scan' = scan + 1
    /\ UNCHANGED <<durable, log, filePages, pool, nextXid, opsSinceCkpt, openTx,
                   pc, pending, toUndo, bootLen, runs, acked>>

AnalysisDone ==
    /\ pc = "analysis" /\ scan > bootLen
    /\ pc' = "redo"
    /\ scan' = 1
    /\ UNCHANGED <<durable, log, filePages, pool, tables, pending, toUndo,
                   bootLen, runs, acked>>

-----------------------------------------------------------------------------
(* Phase 2, Redo *)

\* An update of a dirty page at or after its recLSN.  The code also skips
\* everything below the smallest recLSN, which this implies.
ToRedo(rec) == /\ rec.type = "update"
               /\ dpt[rec.page] # NoLsn /\ rec.lsn >= dpt[rec.page]
OnDiskAlmost(rec) ==                                           \* mutant
    Allocated(rec.page) /\ ReadPageLsn(disk[rec.page]) >= rec.lsn - 1
OnDisk(rec) == Allocated(rec.page) /\ ReadPageLsn(disk[rec.page]) >= rec.lsn

Redoing(rec) == pc = "redo" /\ scan <= bootLen /\ ToRedo(rec)

RedoSkip ==
    /\ pc = "redo" /\ scan <= bootLen
    /\ ToRedo(log.stable[scan]) => OnDisk(log.stable[scan])
    /\ scan' = scan + 1
    /\ UNCHANGED <<durable, log, filePages, pool, tables, pc, pending, toUndo,
                   bootLen, runs, acked>>

Reapply(rec) ==
    /\ DiskWrite(rec.page, ApplyAfter(disk[rec.page], rec), filePages)
    /\ scan' = scan + 1
    /\ pc' = "redo"

RedoApply ==
    /\ Redoing(log.stable[scan])
    /\ Allocated(log.stable[scan].page) /\ ~OnDisk(log.stable[scan])
    /\ Reapply(log.stable[scan])
    /\ UNCHANGED <<master, log, pool, tables, pending, toUndo, bootLen, runs,
                   acked>>

\* _ensure_page_exists: zero pages up to the missing one, one write each.
EnsurePageExists ==
    /\ Redoing(log.stable[scan])
    /\ ~Allocated(log.stable[scan].page)
    /\ LET p == log.stable[scan].page
           q == <<p[1], filePages[p[1]]>>
       IN  /\ DiskWrite(q, ZeroImage, filePages)
           /\ pc' = IF q = p THEN "redofresh" ELSE "redo"
    /\ UNCHANGED <<master, log, pool, tables, pending, recovery, runs, acked>>

\* The fresh page takes the change without a look at its pageLSN.
RedoFresh ==
    /\ pc = "redofresh"
    /\ Reapply(log.stable[scan])
    /\ UNCHANGED <<master, log, pool, tables, pending, toUndo, bootLen, runs,
                   acked>>

RedoDone ==
    /\ pc = "redo" /\ scan > bootLen
    /\ pc' = "undo"
    /\ scan' = 0
    /\ toUndo' = [x \in Xids |-> IF txTable[x].status = "active"
                                 THEN txTable[x].lastLSN ELSE NoLsn]
    /\ UNCHANGED <<durable, log, filePages, pool, tables, pending, bootLen,
                   runs, acked>>

-----------------------------------------------------------------------------
(* Phase 3, Undo, and the end records *)

\* The loser with the largest LSN still to be undone.
NextLoser(x) == toUndo[x] # NoLsn /\ \A y \in Xids : toUndo[y] <= toUndo[x]

\* Back to the before-image, if the record is an update of a page in a file.
Restore(rec) ==
    IF rec.type = "update" /\ Allocated(rec.page)
    THEN DiskWrite(rec.page, RestoreBefore(disk[rec.page], rec), filePages)
    ELSE UNCHANGED <<disk, fileSize, filePages>>

\* One record of the loser's chain, found by its LSN (lsn_index).  The code
\* ends the chain at an LSN the log does not hold, the model would stop
\* there: OperationsFinish shows that there is no such LSN.
UndoRecord(x) ==
    /\ pc = "undo"
    /\ NextLoser(x)
    /\ \E i \in 1 .. bootLen :
          LET rec == log.stable[i]
          IN  /\ rec.lsn = toUndo[x]
              /\ Restore(rec)
              /\ toUndo' = [toUndo EXCEPT ![x] = rec.prev]
              /\ \/ rec.prev # NoLsn /\ UNCHANGED <<pc, scan>>
                 \/ rec.prev = NoLsn /\ pc' = "endloser" /\ scan' = x
    /\ UNCHANGED <<master, log, pool, tables, pending, bootLen, runs, acked>>

EmitEndOnly(x) ==                                              \* mutant
    log' = Emit(log, TxRec("end", x)) /\ UNCHANGED txTable
EmitEnd(x) ==
    /\ log' = Emit(log, TxRec("end", x))
    /\ txTable' = [txTable EXCEPT ![x] = NoTx]

\* The chain of a loser is exhausted.
EndLoser ==
    /\ pc = "endloser"
    /\ EmitEnd(scan)
    /\ scan' = 0
    /\ pc' = "undo"
    /\ UNCHANGED <<durable, filePages, pool, dpt, nextXid, opsSinceCkpt, openTx,
                   pending, toUndo, bootLen, runs, acked>>

UndoDone ==
    /\ pc = "undo"
    /\ \A x \in Xids : toUndo[x] = NoLsn
    /\ pc' = "finish"
    /\ UNCHANGED <<durable, log, filePages, pool, tables, pending, recovery,
                   runs, acked>>

FinishCommitted(x) ==
    /\ pc = "finish"
    /\ txTable[x].status = "committed"
    /\ EmitEnd(x)
    /\ UNCHANGED <<durable, filePages, pool, dpt, nextXid, opsSinceCkpt, openTx,
                   pc, pending, recovery, runs, acked>>

RecoveryDone ==
    /\ pc = "finish"
    /\ \A x \in Xids : txTable[x].status # "committed"
    /\ log' = FlushLog(log)
    /\ pc' = "boot"
    /\ UNCHANGED <<durable, filePages, pool, tables, pending, recovery, runs,
                   acked>>

\* Catalog._ensure_first_page: outside any transaction, so never logged.
BlankCatalog == [ZeroImage EXCEPT ![TypeCell] = CatalogType]

Boot ==
    /\ pc = "boot"
    /\ LET first == <<CatalogFile, 0>>
       IN  IF Allocated(first) THEN UNCHANGED <<filePages, pool>>
           ELSE /\ filePages' = [filePages EXCEPT ![CatalogFile] = 1]
                /\ pool' = Touch(pool, first, BlankCatalog, TRUE)
    /\ pc' = "idle"
    /\ scan' = 0
    /\ UNCHANGED <<durable, log, tables, pending, toUndo, bootLen, runs, acked>>
=============================================================================
