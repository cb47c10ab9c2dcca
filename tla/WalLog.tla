------------------------------- MODULE WalLog -------------------------------
(***************************************************************************)
(* The write-ahead log: wal.log (stable), the in-memory buffer of records  *)
(* not yet appended to it (buf), the LSN counter (next) and flushedLSN     *)
(* (flushed).  The operators are the log half of RecoveryManager: emitting *)
(* a record, the automatic flush when the buffer is full, flushing up to   *)
(* an LSN, and the counters a restart reads back from the file.            *)
(***************************************************************************)
EXTENDS PageImage, Sequences, Functions, FiniteSetsExt

CONSTANTS Files,          \* the paged files (.bin)
          MaxPages,       \* most pages a file grows to
          MaxXid,         \* largest transaction id
          LogBufferSize   \* config log_buffer_size

ASSUME LogBounds ==
    /\ MaxPages \in Nat \ {0} /\ MaxXid \in Nat
    /\ LogBufferSize \in Nat \ {0}

Pages == Files \X (0 .. (MaxPages - 1))
Xids  == 0 .. MaxXid
NoLsn == -1               \* _NO_LSN
SysXid == -1              \* _SYS_XID, the owner of checkpoint records
Lsns  == Nat \cup {NoLsn}

\* Entries of tx_table; a transaction that is not in the table is "none".
TxEntry == [status : {"none", "active", "committed"}, lastLSN : Lsns]
NoTx    == [status |-> "none", lastLSN |-> NoLsn]
Active(lsn) == [status |-> "active", lastLSN |-> lsn]
TxTable == [Xids -> TxEntry]
DirtyPageTable == [Pages -> Lsns]    \* page -> recLSN, NoLsn when absent
NoTable == [x \in Xids |-> NoTx]
NoDirty == [p \in Pages |-> NoLsn]

UpdateRecord ==
    [type : {"update"}, lsn : Nat, prev : Lsns, xid : Xids, page : Pages,
     window : SUBSET Offsets, before : Image, after : Image]
TxRecord == [type : {"commit", "end"}, lsn : Nat, prev : Lsns, xid : Xids]
BeginRecord ==
    [type : {"begin_chkpt"}, lsn : Nat, prev : {NoLsn}, xid : {SysXid}]
EndRecord ==
    [type : {"end_chkpt"}, lsn : Nat, prev : {NoLsn}, xid : {SysXid},
     txs : TxTable, dirty : DirtyPageTable]
LogRecord == UpdateRecord \cup TxRecord \cup BeginRecord \cup EndRecord

LogState == [stable : Seq(LogRecord), buf : Seq(LogRecord),
             next : Nat, flushed : Lsns]

LastOf(s) == s[Len(s)]
IsUpdateOn(rec, p) == rec.type = "update" /\ rec.page = p

\* prev_lsn of the next record of x, and the table once it has LSN lsn.
PrevLsn(tt, x) == tt[x].lastLSN
ChainForgotten(tt, x, lsn) == tt                               \* mutant
Chain(tt, x, lsn) ==
    IF tt[x].status = "none" THEN tt ELSE [tt EXCEPT ![x].lastLSN = lsn]

\* _flush_log: append the whole buffer to wal.log.
Flushed(l) == [stable |-> l.stable \o l.buf, buf |-> << >>, next |-> l.next,
               flushed |-> LastOf(l.buf).lsn]
FlushAllButLast(l) ==                                          \* mutant
    IF l.buf = << >> THEN l
    ELSE [Flushed(l) EXCEPT
             !.stable = l.stable \o SubSeq(l.buf, 1, Len(l.buf) - 1)]
FlushLog(l) == IF l.buf = << >> THEN l ELSE Flushed(l)

\* flush_log_up_to: the whole buffer, unless lsn is already durable.
FlushLogBelow(l, lsn) ==                                       \* mutant
    IF lsn <= l.flushed + 1 THEN l ELSE FlushLog(l)
FlushLogUpTo(l, lsn) == IF lsn <= l.flushed THEN l ELSE FlushLog(l)

\* _emit_with_lsn: buffer the record; a full buffer flushes itself.
EmitWithLsn(l, rec) ==
    LET longer == [l EXCEPT !.buf = Append(l.buf, rec)]
    IN  IF Len(longer.buf) >= LogBufferSize THEN FlushLog(longer) ELSE longer

\* _next_lsn += 1
TakeLsn(l) == [l EXCEPT !.next = l.next + 1]

\* _emit: take the next LSN and buffer the record built with it.
Emit(l, rec) == EmitWithLsn(TakeLsn(l), rec)

\* What __init__ recovers from wal.log: the buffer is gone, the counters
\* continue after the last record of the file.
ReopenAtLast(s) ==                                             \* mutant
    LET last == IF s = << >> THEN NoLsn ELSE LastOf(s).lsn
    IN  [stable |-> s, buf |-> << >>, next |-> IF last = NoLsn THEN 0 ELSE last,
         flushed |-> last]
ReopenLog(s) ==
    LET last == IF s = << >> THEN NoLsn ELSE LastOf(s).lsn
    IN  [stable |-> s, buf |-> << >>, next |-> last + 1, flushed |-> last]

\* _next_xid: one more than the largest transaction id in the file.
NextXid(s) ==
    Min({x \in 0 .. (MaxXid + 1) : \A i \in DOMAIN s : s[i].xid < x})
=============================================================================
