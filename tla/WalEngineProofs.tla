--------------------------- MODULE WalEngineProofs ----------------------------
(***************************************************************************)
(* WalEngine for every instance, action by action: its types, WAL #1 and   *)
(* the size of the pool.  The first lemmas are about the operators that the*)
(* actions are built from.  TypeInv and WalInv are inductive, and a step   *)
(* from a state that satisfies them writes no page ahead of its records.   *)
(***************************************************************************)
EXTENDS WalEngineInv, SequenceTheorems, WellFoundedInduction, TLAPS

-----------------------------------------------------------------------------
(* Page images *)

\* A page is stamped with the LSN that can be read back from it
\* (read_page_lsn and write_page_lsn).
LEMMA StampRead ==
    ASSUME NEW img \in Image, NEW lsn \in Nat
    PROVE  /\ WritePageLsn(img, lsn) \in Image
           /\ ReadPageLsn(WritePageLsn(img, lsn)) = lsn
<1>1. /\ LsnOffset \in Offsets /\ LsnOffset + 1 \in Offsets
      /\ LsnOffset # LsnOffset + 1
  BY PageLayout DEF Offsets
<1>2. /\ lsn % ByteBase \in Nat /\ lsn \div ByteBase \in Nat
      /\ (lsn % ByteBase) + ByteBase * (lsn \div ByteBase) = lsn
  BY PageLayout
<1> QED
  BY <1>1, <1>2 DEF WritePageLsn, ReadPageLsn, Image

\* The pageLSN of any page is a natural number (read_page_lsn).
LEMMA PageLsnType ==
    ASSUME NEW img \in Image
    PROVE  ReadPageLsn(img) \in Nat
<1>1. img[LsnOffset] \in Nat /\ img[LsnOffset + 1] \in Nat /\ ByteBase \in Nat
  BY PageLayout DEF Image, Offsets
<1>2. \A m, n \in Nat : m * n \in Nat
  OBVIOUS
<1> QED
  BY <1>1, <1>2 DEF ReadPageLsn

\* Redo and undo make a page image of a page image and a record's two images.
LEMMA ImageTypes ==
    ASSUME NEW img \in Image, NEW rec \in UpdateRecord
    PROVE  ApplyAfter(img, rec) \in Image /\ RestoreBefore(img, rec) \in Image
  BY DEF Image, UpdateRecord, ApplyAfter, RestoreBefore

\* What log_page_update stores of two images.
LEMMA ClipType ==
    ASSUME NEW img \in Image, NEW w
    PROVE  Clip(img, w) \in Image
  BY DEF Image, Clip

-----------------------------------------------------------------------------
(* The log: types *)

\* Every record has an LSN and a predecessor in its chain.
LEMMA RecordFields ==
    ASSUME NEW rec \in LogRecord
    PROVE  /\ rec.lsn \in Nat /\ rec.prev \in Lsns
           /\ rec.type = "update" => rec \in UpdateRecord
           /\ rec.type \in {"commit", "end"} => rec \in TxRecord
           /\ rec.type = "end_chkpt" => rec \in EndRecord
  BY DEF LogRecord, UpdateRecord, TxRecord, BeginRecord, EndRecord, Lsns

\* What an operation may do to wal.log: leave it or append to it.
Extends(new, old) ==
    /\ Len(old.stable) <= Len(new.stable)
    /\ \A i \in DOMAIN old.stable : new.stable[i] = old.stable[i]

\* A longer file begins with the shorter one.
LEMMA AppendedType ==
    ASSUME NEW S, NEW s \in Seq(S), NEW t \in Seq(S)
    PROVE  /\ s \o t \in Seq(S)
           /\ Len(s) <= Len(s \o t)
           /\ \A i \in DOMAIN s : (s \o t)[i] = s[i]
<1>1. Len(s) \in Nat /\ Len(t) \in Nat /\ DOMAIN s = 1 .. Len(s)
  BY LenProperties
<1>2. /\ s \o t \in Seq(S) /\ Len(s \o t) = Len(s) + Len(t)
      /\ \A i \in 1 .. Len(s) + Len(t) :
            (s \o t)[i] = IF i <= Len(s) THEN s[i] ELSE t[i - Len(s)]
  BY ConcatProperties
<1>3. Len(s) <= Len(s \o t)
  BY <1>1, <1>2
<1>4. ASSUME NEW i \in DOMAIN s PROVE (s \o t)[i] = s[i]
  <2>1. i \in 1 .. Len(s) + Len(t) /\ i <= Len(s)
    BY <1>1
  <2> QED
    BY <1>2, <2>1
<1> QED
  BY <1>2, <1>3, <1>4

\* _flush_log and flush_log_up_to return a log state and only append.
LEMMA FlushType ==
    ASSUME NEW l \in LogState
    PROVE  /\ FlushLog(l) \in LogState /\ Extends(FlushLog(l), l)
           /\ FlushLog(l).next = l.next
<1>1. CASE l.buf = << >>
  BY <1>1 DEF FlushLog, LogState, Extends
<1>2. CASE l.buf # << >>
  <2> DEFINE k == l.stable \o l.buf
  <2>1. /\ l.stable \in Seq(LogRecord) /\ l.buf \in Seq(LogRecord)
        /\ Len(l.buf) \in Nat \ {0}
    BY <1>2 DEF LogState
  <2>2. LastOf(l.buf) \in LogRecord
    BY <2>1 DEF LastOf
  <2>3. LastOf(l.buf).lsn \in Lsns
    BY <2>2, RecordFields DEF Lsns
  <2>4. /\ k \in Seq(LogRecord) /\ Len(l.stable) <= Len(k)
        /\ \A i \in DOMAIN l.stable : k[i] = l.stable[i]
    BY <2>1, AppendedType
  <2>5. FlushLog(l) = [stable |-> k, buf |-> << >>, next |-> l.next,
                       flushed |-> LastOf(l.buf).lsn]
    BY <1>2 DEF FlushLog, Flushed
  <2> HIDE DEF k
  <2> QED
    BY <2>3, <2>4, <2>5 DEF LogState, Extends
<1> QED
  BY <1>1, <1>2

LEMMA FlushUpToType ==
    ASSUME NEW l \in LogState, NEW lsn \in Nat
    PROVE  /\ FlushLogUpTo(l, lsn) \in LogState
           /\ Extends(FlushLogUpTo(l, lsn), l)
           /\ FlushLogUpTo(l, lsn).next = l.next
<1>1. CASE lsn <= l.flushed
  BY <1>1 DEF FlushLogUpTo, Extends, LogState
<1>2. CASE ~(lsn <= l.flushed)
  BY <1>2, FlushType DEF FlushLogUpTo
<1> QED
  BY <1>1, <1>2

\* So does emitting a record (_emit_with_lsn, _emit).
LEMMA EmitWithLsnType ==
    ASSUME NEW l \in LogState, NEW rec \in LogRecord
    PROVE  /\ EmitWithLsn(l, rec) \in LogState
           /\ Extends(EmitWithLsn(l, rec), l)
           /\ EmitWithLsn(l, rec).next = l.next
<1> DEFINE longer == [l EXCEPT !.buf = Append(l.buf, rec)]
<1>a. /\ l.stable \in Seq(LogRecord) /\ l.buf \in Seq(LogRecord)
      /\ l.next \in Nat /\ l.flushed \in Lsns
  BY DEF LogState
<1>b. Append(l.buf, rec) \in Seq(LogRecord)
  BY <1>a
<1>c. longer = [stable |-> l.stable, buf |-> Append(l.buf, rec),
                next |-> l.next, flushed |-> l.flushed]
  <2>1. ASSUME NEW b
        PROVE  [l EXCEPT !.buf = b] =
                 [stable |-> l.stable, buf |-> b, next |-> l.next,
                  flushed |-> l.flushed]
    BY DEF LogState
  <2> QED
    BY <2>1
<1>1. longer \in LogState /\ longer.stable = l.stable /\ longer.next = l.next
  <2> HIDE DEF longer
  <2> QED
    BY <1>a, <1>b, <1>c DEF LogState
<1>2. EmitWithLsn(l, rec) \in {longer, FlushLog(longer)}
  BY DEF EmitWithLsn
<1>3. Extends(longer, l)
  BY <1>1 DEF Extends, LogState
<1> HIDE DEF longer
<1>4. FlushLog(longer) \in LogState /\ Extends(FlushLog(longer), l)
  BY <1>1, FlushType DEF Extends
<1> QED
  BY <1>1, <1>2, <1>3, <1>4, FlushType

LEMMA TakeLsnType ==
    ASSUME NEW l \in LogState
    PROVE  /\ TakeLsn(l) \in LogState /\ Extends(TakeLsn(l), l)
           /\ TakeLsn(l).stable = l.stable /\ TakeLsn(l).next = l.next + 1
           /\ TakeLsn(l).buf = l.buf /\ TakeLsn(l).flushed = l.flushed
<1>1. TakeLsn(l) = [stable |-> l.stable, buf |-> l.buf, next |-> l.next + 1,
                    flushed |-> l.flushed]
  BY DEF TakeLsn, LogState
<1>2. /\ l.stable \in Seq(LogRecord) /\ l.buf \in Seq(LogRecord)
      /\ l.next + 1 \in Nat /\ l.flushed \in Lsns
  BY DEF LogState
<1>3. Extends(TakeLsn(l), l)
  BY <1>1, <1>2 DEF Extends
<1> QED
  BY <1>1, <1>2, <1>3 DEF LogState

LEMMA EmitType ==
    ASSUME NEW l \in LogState, NEW rec \in LogRecord
    PROVE  /\ Emit(l, rec) \in LogState
           /\ Extends(Emit(l, rec), l)
           /\ Emit(l, rec).next = l.next + 1
  BY TakeLsnType, EmitWithLsnType DEF Emit, Extends

\* A restart finds the file as it is (__init__).
LEMMA ReopenType ==
    ASSUME NEW s \in Seq(LogRecord)
    PROVE  /\ ReopenLog(s) \in LogState
           /\ ReopenLog(s).stable = s /\ ReopenLog(s).buf = << >>
<1>1. CASE s = << >>
  BY <1>1 DEF ReopenLog, LogState, Lsns, NoLsn
<1>2. CASE s # << >>
  <2>1. LastOf(s) \in LogRecord
    BY <1>2 DEF LastOf
  <2> QED
    BY <1>2, <2>1, RecordFields DEF ReopenLog, LogState, Lsns
<1> QED
  BY <1>1, <1>2

\* The next transaction id exists and lies above every id of the log
\* (__init__).
LEMMA NextXidType ==
    ASSUME NEW s \in Seq(LogRecord)
    PROVE  NextXid(s) \in Nat /\ \A i \in DOMAIN s : s[i].xid < NextXid(s)
<1> DEFINE T == {x \in 0 .. (MaxXid + 1) : \A i \in DOMAIN s : s[i].xid < x}
<1>1. MaxXid + 1 \in T
  <2>1. \A r \in LogRecord : r.xid < MaxXid + 1
    BY LogBounds DEF LogRecord, UpdateRecord, TxRecord, BeginRecord, EndRecord,
                     Xids, SysXid
  <2>2. \A i \in DOMAIN s : s[i] \in LogRecord
    OBVIOUS
  <2> QED
    BY <2>1, <2>2, LogBounds
<1>2. T \subseteq Nat
  BY LogBounds
<1>3. PICK m \in T : \A y \in T : ~(<<y, m>> \in OpToRel(<, Nat))
  BY <1>1, <1>2, WFMin, NatLessThanWellFounded
<1>4. \A y \in T : ~(y < m)
  BY <1>2, <1>3, Zenon DEF OpToRel
<1>5. Min(T) \in T
  BY <1>2, <1>4 DEF Min
<1> QED
  BY <1>2, <1>5 DEF NextXid

PageCounts == [Files -> 0 .. MaxPages]

-----------------------------------------------------------------------------
(* The pool *)

\* Taking a page out of the order, and putting one at its end.
LEMMA WithoutType ==
    ASSUME NEW s \in Seq(Pages), NEW p \in Pages
    PROVE  /\ Without(s, p) \in Seq(Pages)
           /\ Append(Without(s, p), p) \in Seq(Pages)
<1>1. Without(s, p) \in Seq(Pages)
  <2>1. CASE p \in Range(s)
    <3> DEFINE i == CHOOSE i \in DOMAIN s : s[i] = p
               w == [j \in 1 .. (Len(s) - 1) |-> IF j < i THEN s[j] ELSE s[j + 1]]
    <3>1. i \in DOMAIN s
      BY <2>1 DEF Range
    <3>2. Len(s) \in Nat /\ DOMAIN s = 1 .. Len(s)
      OBVIOUS
    <3> HIDE DEF i
    <3>3. \A j \in 1 .. (Len(s) - 1) : w[j] \in Pages
      BY <3>1, <3>2
    <3>4. Len(s) - 1 \in Nat
      BY <3>1, <3>2
    <3>5. w \in Seq(Pages)
      BY <3>3, <3>4, IsASeq
    <3> QED
      BY <2>1, <3>5 DEF Without, i
  <2>2. CASE p \notin Range(s)
    BY <2>2 DEF Without
  <2> QED
    BY <2>1, <2>2
<1> QED
  BY <1>1

\* Pool operations return pools.
LEMMA PoolType ==
    ASSUME NEW po \in Pool, NEW p \in Pages, NEW img \in Image,
           NEW d \in BOOLEAN
    PROVE  /\ Touch(po, p, img, d) \in Pool
           /\ Drop(po, p) \in Pool
           /\ MarkClean(po, p) \in Pool
<1>1. /\ po.order \in Seq(Pages) /\ po.frame \in [Pages -> Frame]
      /\ po.frame[p].data \in Image
  BY DEF Pool, Frame
<1>2. NoFrame \in Frame /\ [data |-> img, dirty |-> d] \in Frame
      /\ [data |-> po.frame[p].data, dirty |-> FALSE] \in Frame
  BY <1>1 DEF NoFrame, Frame, ZeroImage, Image
<1>3. /\ Without(po.order, p) \in Seq(Pages)
      /\ Append(Without(po.order, p), p) \in Seq(Pages)
  BY <1>1, WithoutType
<1>4. \A fr \in Frame : [po.frame EXCEPT ![p] = fr] \in [Pages -> Frame]
  BY <1>1
<1>5. Touch(po, p, img, d) \in Pool
  BY <1>2, <1>3, <1>4 DEF Touch, Pool
<1>6. Drop(po, p) \in Pool
  BY <1>2, <1>3, <1>4 DEF Drop, Pool
<1>7. MarkClean(po, p) \in Pool
  BY <1>1, <1>2, <1>4 DEF MarkClean, Pool
<1> QED
  BY <1>5, <1>6, <1>7

\* A full pool has a victim.
LEMMA VictimType ==
    ASSUME NEW po \in Pool, Len(po.order) >= PoolSize
    PROVE  /\ VictimKey(po) \in Pages
           /\ VictimKey(po) \in Range(po.order)
<1>1. po.order \in Seq(Pages) /\ Len(po.order) \in Nat \ {0}
  BY EngineConfig DEF Pool
<1>2. /\ 1 \in DOMAIN po.order /\ Len(po.order) \in DOMAIN po.order
      /\ Head(po.order) = po.order[1]
      /\ \A i \in DOMAIN po.order : po.order[i] \in Pages
  BY <1>1
<1>3. VictimKey(po) \in {po.order[1], po.order[Len(po.order)]}
  BY <1>2 DEF VictimKey, LastOf
<1> QED
  BY <1>2, <1>3 DEF Range

-----------------------------------------------------------------------------
(* The disk, and making room *)

LEMMA PageParts ==
    ASSUME NEW p \in Pages
    PROVE  /\ p[1] \in Files /\ p[2] \in 0 .. (MaxPages - 1)
           /\ p = <<p[1], p[2]>>
  BY DEF Pages

LEMMA GrownType ==
    ASSUME NEW c \in PageCounts, NEW p \in Pages
    PROVE  [c EXCEPT ![p[1]] = Grown(c[p[1]], p)] \in PageCounts
<1>1. c[p[1]] \in 0 .. MaxPages /\ p[2] \in 0 .. (MaxPages - 1)
  BY PageParts DEF PageCounts
<1>2. Grown(c[p[1]], p) \in 0 .. MaxPages
  BY <1>1, LogBounds DEF Grown
<1> QED
  BY <1>2 DEF PageCounts

\* Writing a page (write_page, _raw_write).
LEMMA DiskWriteType ==
    ASSUME disk \in [Pages -> Image], fileSize \in PageCounts,
           NEW p \in Pages, NEW img \in Image, NEW counts \in PageCounts,
           DiskWrite(p, img, counts)
    PROVE  disk' \in [Pages -> Image] /\ fileSize' \in PageCounts
           /\ filePages' \in PageCounts
<1>1. disk' \in [Pages -> Image]
  BY DEF DiskWrite
<1> QED
  BY <1>1, GrownType DEF DiskWrite

\* Writing a dirty frame back, log first.
LEMMA WriteBackType ==
    ASSUME TypeOK, NEW p \in Pages, NEW counts \in PageCounts,
           WriteBack(p, counts)
    PROVE  /\ disk' \in [Pages -> Image] /\ fileSize' \in PageCounts
           /\ filePages' \in PageCounts
           /\ log' \in LogState /\ Extends(log', log)
           /\ dpt' \in DirtyPageTable
<1>1. pool.frame[p].data \in Image
  BY DEF TypeOK, Pool, Frame
<1>2. log' \in LogState /\ Extends(log', log)
  BY <1>1, PageLsnType, FlushUpToType DEF WriteBack, WalBeforeFlush, TypeOK
<1>3. dpt' \in DirtyPageTable
  BY DEF WriteBack, TypeOK, DirtyPageTable, Lsns
<1> QED
  BY <1>1, <1>2, <1>3, DiskWriteType DEF WriteBack, TypeOK, PageCounts

\* Making room for a page and putting it in (_make_room and what follows).
LEMMA MakeRoomType ==
    ASSUME TypeOK, NEW p \in Pages, NEW img \in Image, NEW d \in BOOLEAN,
           NEW counts \in PageCounts, MakeRoomFor(p, img, d, counts)
    PROVE  /\ disk' \in [Pages -> Image] /\ fileSize' \in PageCounts
           /\ filePages' \in PageCounts
           /\ log' \in LogState /\ Extends(log', log)
           /\ dpt' \in DirtyPageTable /\ pool' \in Pool
<1> DEFINE full   == Len(pool.order) >= PoolSize
           victim == VictimKey(pool)
           steal  == full /\ pool.frame[victim].dirty
<1>1. pool' = Touch(IF full THEN Drop(pool, victim) ELSE pool, p, img, d)
  BY DEF MakeRoomFor
<1>2. full => victim \in Pages
  BY VictimType DEF TypeOK
<1>3. pool' \in Pool
  BY <1>1, <1>2, PoolType DEF TypeOK
<1>4. CASE steal /\ WriteBack(victim, counts)
  BY <1>2, <1>3, <1>4, WriteBackType
<1>5. CASE filePages' = counts /\ UNCHANGED <<disk, fileSize, log, dpt>>
  BY <1>3, <1>5 DEF TypeOK, PageCounts, Extends, LogState
<1> QED
  BY <1>4, <1>5 DEF MakeRoomFor

-----------------------------------------------------------------------------
(* The tables *)

LEMMA TxTableTypes ==
    ASSUME NEW tt \in TxTable, NEW x \in Xids, NEW lsn \in Lsns
    PROVE  /\ PrevLsn(tt, x) \in Lsns
           /\ Chain(tt, x, lsn) \in TxTable
           /\ [tt EXCEPT ![x] = Active(lsn)] \in TxTable
           /\ [tt EXCEPT ![x] = NoTx] \in TxTable
           /\ [tt EXCEPT ![x] = [status |-> "committed", lastLSN |-> lsn]]
                  \in TxTable
<1>1. /\ NoTx \in TxEntry /\ Active(lsn) \in TxEntry
      /\ [status |-> "committed", lastLSN |-> lsn] \in TxEntry
  BY DEF NoTx, Active, TxEntry, Lsns, NoLsn
<1>2. tt[x] \in TxEntry
  BY DEF TxTable
<1>3. [tt[x] EXCEPT !.lastLSN = lsn] \in TxEntry
  BY <1>2 DEF TxEntry
<1>4. \A e \in TxEntry : [tt EXCEPT ![x] = e] \in TxTable
  BY DEF TxTable
<1>5. Chain(tt, x, lsn) \in TxTable
  BY <1>3, <1>4 DEF Chain
<1>6. PrevLsn(tt, x) \in Lsns
  BY <1>2 DEF PrevLsn, TxEntry
<1> QED
  BY <1>1, <1>4, <1>5, <1>6

LEMMA FirstDirtiedType ==
    ASSUME NEW d \in DirtyPageTable, NEW p \in Pages, NEW lsn \in Lsns
    PROVE  FirstDirtied(d, p, lsn) \in DirtyPageTable
  BY DEF FirstDirtied, DirtyPageTable

\* The tables recovery starts from (_deserialise_tx_table, _deserialise_dpt).
LEMMA LoadTablesType ==
    ASSUME NEW s \in Seq(LogRecord), NEW m, LoadTables(s, m)
    PROVE  txTable' \in TxTable /\ dpt' \in DirtyPageTable
<1>1. NoTable \in TxTable /\ NoDirty \in DirtyPageTable
  BY DEF NoTable, NoDirty, TxTable, TxEntry, NoTx, DirtyPageTable, Lsns, NoLsn
<1>2. \A e \in CheckpointEnds(s, m) : s[e] \in EndRecord
  BY RecordFields DEF CheckpointEnds
<1>3. \A e \in CheckpointEnds(s, m) :
         s[e].txs \in TxTable /\ s[e].dirty \in DirtyPageTable
  BY <1>2 DEF EndRecord
<1> QED
  BY <1>1, <1>3 DEF LoadTables

-----------------------------------------------------------------------------
(* Each action keeps the types *)

\* The log only grows, so what recovery knows of it stays true.
LEMMA StableKept ==
    ASSUME TypeInv, log' \in LogState, Extends(log', log), bootLen' = bootLen
    PROVE  /\ bootLen' <= Len(log'.stable)
           /\ \A i \in 1 .. bootLen : log'.stable[i] = log.stable[i]
  BY DEF TypeInv, TypeOK, ScanInv, Extends, LogState

\* The invariant after a step of an operation: outside recovery there is
\* little to say about scan.
LEMMA ScanInvAfter ==
    ASSUME TypeInv, log' \in LogState, Extends(log', log), bootLen' = bootLen,
           pc' \notin {"analysis", "redo", "redofresh"},
           pc' \in {"end", "endloser"} => scan' \in Xids,
           pc' = "install" => pending'.page # NoPage,
           pc' \notin {"install", "ckptbegin", "ckptend", "master"} =>
               pending'.page = NoPage
    PROVE  ScanInv'
  BY StableKept DEF ScanInv

LEMMA SameLog == ASSUME TypeInv, log' = log
                 PROVE  log' \in LogState /\ Extends(log', log)
  BY DEF TypeInv, TypeOK, Extends, LogState

LEMMA TxBegin_Type ==
    ASSUME TypeInv, NEW n \in Names, TxBegin(n)
    PROVE  TypeInv'
<1>1. txTable' \in TxTable
  BY TxTableTypes DEF TypeInv, TypeOK, TxBegin, Lsns
<1>2. /\ openTx' \in [Names -> Xids \cup {NoXid}] /\ nextXid' \in Nat
      /\ opsSinceCkpt' \in Nat /\ pc' \in {"idle", "ckptbegin"}
  BY DEF TypeInv, TypeOK, TxBegin, MaybeCheckpoint
<1>3. /\ pc = "idle"
      /\ UNCHANGED <<disk, fileSize, master, log, filePages, pool, dpt, pending,
                     scan, toUndo, bootLen, runs, acked>>
  BY DEF TxBegin, Ready, durable, recovery
<1>4. TypeOK'
  BY <1>1, <1>2, <1>3 DEF TypeInv, TypeOK, PCs
<1>5. pending'.page = NoPage
  BY <1>3 DEF TypeInv, ScanInv
<1> QED
  BY <1>2, <1>3, <1>4, <1>5, SameLog, ScanInvAfter DEF TypeInv

LEMMA GetPage_Type ==
    ASSUME TypeInv, NEW p \in Pages, GetPage(p)
    PROVE  TypeInv'
<1>1. /\ disk[p] \in Image /\ pool.frame[p].data \in Image
      /\ pool.frame[p].dirty \in BOOLEAN /\ filePages \in PageCounts
  BY DEF TypeInv, TypeOK, Pool, Frame, PageCounts
<1>2. /\ disk' \in [Pages -> Image] /\ fileSize' \in PageCounts
      /\ filePages' \in PageCounts
      /\ log' \in LogState /\ Extends(log', log)
      /\ dpt' \in DirtyPageTable /\ pool' \in Pool
  <2>1. CASE /\ pool' = Touch(pool, p, pool.frame[p].data, pool.frame[p].dirty)
             /\ UNCHANGED <<disk, fileSize, filePages, log, dpt>>
    <3>1. pool' \in Pool
      BY <1>1, <2>1, PoolType DEF TypeInv, TypeOK
    <3> QED
      BY <2>1, <3>1, SameLog DEF TypeInv, TypeOK, PageCounts
  <2>2. CASE MakeRoomFor(p, disk[p], FALSE, filePages)
    BY <1>1, <2>2, MakeRoomType DEF TypeInv
  <2> QED
    BY <2>1, <2>2 DEF GetPage
<1>3. /\ pc = "idle"
      /\ UNCHANGED <<master, txTable, nextXid, opsSinceCkpt, openTx, pc, pending,
                     scan, toUndo, bootLen, runs, acked>>
  BY DEF GetPage, Ready, recovery
<1>4. TypeOK'
  BY <1>2, <1>3 DEF TypeInv, TypeOK, PageCounts
<1>5. pending'.page = NoPage
  BY <1>3 DEF TypeInv, ScanInv
<1> QED
  BY <1>2, <1>3, <1>4, <1>5, ScanInvAfter DEF TypeInv

LEMMA AllocatePage_Type ==
    ASSUME TypeInv, NEW p \in Pages, AllocatePage(p)
    PROVE  TypeInv'
<1>1. [filePages EXCEPT ![p[1]] = p[2] + 1] \in PageCounts
  BY PageParts, LogBounds DEF PageCounts, TypeInv, TypeOK
<1>2. ZeroImage \in Image
  BY DEF ZeroImage, Image
<1>3. MakeRoomFor(p, ZeroImage, TRUE, [filePages EXCEPT ![p[1]] = p[2] + 1])
  BY DEF AllocatePage
<1>4. /\ disk' \in [Pages -> Image] /\ fileSize' \in PageCounts
      /\ filePages' \in PageCounts
      /\ log' \in LogState /\ Extends(log', log)
      /\ dpt' \in DirtyPageTable /\ pool' \in Pool
  BY <1>1, <1>2, <1>3, MakeRoomType DEF TypeInv
<1>5. /\ pc = "idle"
      /\ UNCHANGED <<master, txTable, nextXid, opsSinceCkpt, openTx, pc, pending,
                     scan, toUndo, bootLen, runs, acked>>
  BY DEF AllocatePage, Ready, recovery
<1>6. TypeOK'
  BY <1>4, <1>5 DEF TypeInv, TypeOK, PageCounts
<1>7. pending'.page = NoPage
  BY <1>5 DEF TypeInv, ScanInv
<1> QED
  BY <1>4, <1>5, <1>6, <1>7, ScanInvAfter DEF TypeInv

\* A record of a change is a log record.
LEMMA UpdateOfType ==
    ASSUME TypeInv, NEW x \in Xids, NEW p \in Pages, NEW b \in Image,
           NEW a \in Image
    PROVE  UpdateOf(x, p, b, a) \in LogRecord
<1>1. PrevLsn(txTable, x) \in Lsns /\ log.next \in Nat
  BY DEF TypeInv, TypeOK, TxTable, TxEntry, PrevLsn, LogState
<1>2. DiffRange(b, a) \in SUBSET Offsets
  BY DEF DiffRange
<1> QED
  BY <1>1, <1>2, ClipType DEF UpdateOf, LogRecord, UpdateRecord

LEMMA WritePage_Type ==
    ASSUME TypeInv, NEW n \in Names, NEW p \in Pages, NEW cells \in WriteSets,
           NEW v \in Values, WritePage(n, p, cells, v)
    PROVE  TypeInv'
<1> DEFINE x       == openTx[n]
           before  == CurrentBytes(p)
           changed == [o \in Offsets |-> IF o \in cells THEN v ELSE before[o]]
           stamped == WritePageLsn(changed, log.next)
<1>1. x \in Xids /\ log.next \in Nat /\ log.next \in Lsns
  BY DEF WritePage, TypeInv, TypeOK, LogState, Lsns
<1>2. before \in Image
  BY DEF CurrentBytes, TypeInv, TypeOK, Pool, Frame
<1>3. changed \in Image
  BY <1>2, RuntimeConfig DEF Image
<1>4. stamped \in Image
  BY <1>1, <1>3, StampRead
<1>5. UpdateOf(x, p, before, stamped) \in LogRecord
  BY <1>1, <1>2, <1>4, UpdateOfType
<1> HIDE DEF x, before, changed
<1>6. /\ pending' = [page |-> p, data |-> stamped] /\ pc = "idle"
      /\ UNCHANGED <<disk, fileSize, master, filePages, pool, nextXid, openTx,
                     scan, toUndo, bootLen, runs, acked>>
  BY DEF WritePage, Ready, durable, recovery, x, before, changed
<1>7. /\ log' \in LogState /\ Extends(log', log)
      /\ txTable' \in TxTable /\ dpt' \in DirtyPageTable
      /\ opsSinceCkpt' \in Nat /\ pc' \in {"install", "ckptbegin"}
  <2>1. CASE /\ log' = Emit(log, UpdateOf(x, p, before, stamped))
             /\ txTable' = Chain(txTable, x, log.next)
             /\ dpt' = FirstDirtied(dpt, p, log.next)
             /\ MaybeCheckpoint("install")
    <3>1. log' \in LogState /\ Extends(log', log)
      BY <1>5, <2>1, EmitType DEF TypeInv, TypeOK
    <3>2. txTable' \in TxTable /\ dpt' \in DirtyPageTable
      BY <1>1, <2>1, TxTableTypes, FirstDirtiedType DEF TypeInv, TypeOK
    <3>3. opsSinceCkpt' \in Nat /\ pc' \in {"install", "ckptbegin"}
      BY <2>1 DEF MaybeCheckpoint, TypeInv, TypeOK
    <3> QED
      BY <3>1, <3>2, <3>3
  <2>2. CASE /\ log' = TakeLsn(log)
             /\ pc' = "install"
             /\ UNCHANGED <<txTable, dpt, opsSinceCkpt>>
    <3>1. log' \in LogState /\ Extends(log', log)
      BY <2>2, TakeLsnType DEF TypeInv, TypeOK
    <3> QED
      BY <2>2, <3>1 DEF TypeInv, TypeOK
  <2> QED
    BY <2>1, <2>2 DEF WritePage, x, before, changed
<1> HIDE DEF stamped
<1>8. pending' \in [page : Pages \cup {NoPage}, data : Image]
      /\ pending'.page # NoPage
  BY <1>4, <1>6, EngineConfig
<1>9. TypeOK'
  BY <1>6, <1>7, <1>8 DEF TypeInv, TypeOK, PCs
<1> QED
  BY <1>6, <1>7, <1>8, <1>9, ScanInvAfter DEF TypeInv

LEMMA Install_Type ==
    ASSUME TypeInv, Install
    PROVE  TypeInv'
<1>1. pending.page \in Pages /\ pending.data \in Image /\ filePages \in PageCounts
  BY DEF TypeInv, TypeOK, ScanInv, Install, PageCounts
<1>2. Nothing \in [page : Pages \cup {NoPage}, data : Image]
      /\ Nothing.page = NoPage
  BY DEF Nothing, Image, ZeroImage
<1>3. /\ disk' \in [Pages -> Image] /\ fileSize' \in PageCounts
      /\ filePages' \in PageCounts
      /\ log' \in LogState /\ Extends(log', log)
      /\ dpt' \in DirtyPageTable /\ pool' \in Pool
  <2>1. CASE /\ pool' = Touch(pool, pending.page, pending.data, TRUE)
             /\ UNCHANGED <<disk, fileSize, filePages, log, dpt>>
    <3>1. pool' \in Pool
      BY <1>1, <2>1, PoolType DEF TypeInv, TypeOK
    <3> QED
      BY <2>1, <3>1, SameLog DEF TypeInv, TypeOK, PageCounts
  <2>2. CASE MakeRoomFor(pending.page, pending.data, TRUE, filePages)
    BY <1>1, <2>2, MakeRoomType DEF TypeInv
  <2> QED
    BY <2>1, <2>2 DEF Install
<1>4. /\ pc' = "idle" /\ pending' = Nothing
      /\ UNCHANGED <<master, txTable, nextXid, opsSinceCkpt, openTx,
                     scan, toUndo, bootLen, runs, acked>>
  BY DEF Install, recovery
<1>5. TypeOK'
  BY <1>2, <1>3, <1>4 DEF TypeInv, TypeOK, PageCounts, PCs
<1> QED
  BY <1>2, <1>3, <1>4, <1>5, ScanInvAfter DEF TypeInv

LEMMA CheckpointBegin_Type ==
    ASSUME TypeInv, CheckpointBegin
    PROVE  TypeInv'
<1>1. log.next \in Nat /\ log \in LogState
  BY DEF TypeInv, TypeOK, LogState
<1>2. [type |-> "begin_chkpt", lsn |-> log.next, prev |-> NoLsn,
       xid |-> SysXid] \in LogRecord
  BY <1>1 DEF LogRecord, BeginRecord
<1>3. log' \in LogState /\ Extends(log', log)
  BY <1>1, <1>2, EmitType DEF CheckpointBegin
<1>4. /\ pc' = "ckptend" /\ scan' = log.next
      /\ UNCHANGED <<disk, fileSize, master, filePages, pool, txTable, dpt,
                     nextXid, opsSinceCkpt, openTx, pending, toUndo, bootLen,
                     runs, acked>>
  BY DEF CheckpointBegin, durable, tables
<1>5. TypeOK'
  BY <1>1, <1>3, <1>4 DEF TypeInv, TypeOK, PCs
<1> QED
  BY <1>3, <1>4, <1>5, ScanInvAfter DEF TypeInv

LEMMA CheckpointEnd_Type ==
    ASSUME TypeInv, CheckpointEnd
    PROVE  TypeInv'
<1>1. log.next \in Nat /\ log \in LogState
  BY DEF TypeInv, TypeOK, LogState
<1>2. EndCheckpointRec \in LogRecord
  BY <1>1 DEF LogRecord, EndRecord, EndCheckpointRec, TypeInv, TypeOK
<1>3. log' \in LogState /\ Extends(log', log)
  <2>1. /\ Emit(log, EndCheckpointRec) \in LogState
        /\ Extends(Emit(log, EndCheckpointRec), log)
    BY <1>1, <1>2, EmitType
  <2> QED
    BY <2>1, FlushType DEF CheckpointEnd, Extends
<1>4. /\ pc' = "master"
      /\ UNCHANGED <<disk, fileSize, master, filePages, pool, txTable, dpt,
                     nextXid, opsSinceCkpt, openTx, pending, scan, toUndo,
                     bootLen, runs, acked>>
  BY DEF CheckpointEnd, durable, tables, recovery
<1>5. TypeOK'
  BY <1>3, <1>4 DEF TypeInv, TypeOK, PCs
<1> QED
  BY <1>3, <1>4, <1>5, ScanInvAfter DEF TypeInv

LEMMA WriteMaster_Type ==
    ASSUME TypeInv, WriteMaster
    PROVE  TypeInv'
<1>1. /\ master' = scan /\ scan' = 0
      /\ pc' = IF pending.page = NoPage THEN "idle" ELSE "install"
      /\ UNCHANGED <<disk, fileSize, log, filePages, pool, txTable, dpt,
                     nextXid, opsSinceCkpt, openTx, pending, toUndo,
                     bootLen, runs, acked>>
  BY DEF WriteMaster, tables
<1>2. TypeOK'
  BY <1>1 DEF TypeInv, TypeOK, PCs, Lsns
<1> QED
  BY <1>1, <1>2, SameLog, ScanInvAfter DEF TypeInv

\* The records that end a transaction are log records.
LEMMA TxRecType ==
    ASSUME TypeInv, NEW t \in {"commit", "end"}, NEW x \in Xids
    PROVE  TxRec(t, x) \in LogRecord
<1>1. PrevLsn(txTable, x) \in Lsns /\ log.next \in Nat
  BY DEF TypeInv, TypeOK, TxTable, TxEntry, PrevLsn, LogState
<1> QED
  BY <1>1 DEF TxRec, LogRecord, TxRecord

LEMMA EmitFlushType ==
    ASSUME TypeInv, NEW rec \in LogRecord
    PROVE  /\ Emit(log, rec) \in LogState /\ Extends(Emit(log, rec), log)
           /\ FlushLog(Emit(log, rec)) \in LogState
           /\ Extends(FlushLog(Emit(log, rec)), log)
<1>1. Emit(log, rec) \in LogState /\ Extends(Emit(log, rec), log)
  BY EmitType DEF TypeInv, TypeOK
<1> QED
  BY <1>1, FlushType DEF Extends

LEMMA CommitRecord_Type ==
    ASSUME TypeInv, NEW n \in Names, CommitRecord(n)
    PROVE  TypeInv'
<1> DEFINE x == openTx[n]
<1>1. x \in Xids /\ log.next \in Lsns
  BY DEF CommitRecord, TypeInv, TypeOK, LogState, Lsns
<1> HIDE DEF x
<1>2. log' = FlushLog(Emit(log, TxRec("commit", x)))
  BY DEF CommitRecord, x
<1>3. log' \in LogState /\ Extends(log', log)
  BY <1>1, <1>2, TxRecType, EmitFlushType
<1>4. txTable' \in TxTable
  BY <1>1, TxTableTypes DEF CommitRecord, TypeInv, TypeOK, x
<1>5. /\ pc = "idle" /\ pc' = "end" /\ scan' = x
      /\ openTx' = [openTx EXCEPT ![n] = NoXid]
      /\ UNCHANGED <<disk, fileSize, master, filePages, pool, dpt, nextXid,
                     opsSinceCkpt, pending, toUndo, bootLen, runs, acked>>
  BY DEF CommitRecord, Ready, durable, x
<1>6. TypeOK'
  BY <1>1, <1>3, <1>4, <1>5 DEF TypeInv, TypeOK, PCs, Xids
<1>7. pending'.page = NoPage
  BY <1>5 DEF TypeInv, ScanInv
<1> QED
  BY <1>1, <1>3, <1>5, <1>6, <1>7, ScanInvAfter DEF TypeInv

LEMMA CommitEnd_Type ==
    ASSUME TypeInv, CommitEnd
    PROVE  TypeInv'
<1>1. scan \in Xids /\ pending.page = NoPage
  BY DEF CommitEnd, TypeInv, ScanInv
<1>2. log' = FlushLog(Emit(log, TxRec("end", scan)))
  BY DEF CommitEnd
<1>3. log' \in LogState /\ Extends(log', log)
  BY <1>1, <1>2, TxRecType, EmitFlushType
<1>4. txTable' \in TxTable
  BY <1>1, TxTableTypes DEF CommitEnd, TypeInv, TypeOK, Lsns, NoLsn
<1>5. /\ pc' = "idle" /\ scan' = 0 /\ acked' = acked \cup {scan}
      /\ UNCHANGED <<disk, fileSize, master, filePages, pool, dpt, nextXid,
                     opsSinceCkpt, openTx, pending, toUndo, bootLen, runs>>
  BY DEF CommitEnd, durable
<1>6. TypeOK'
  BY <1>1, <1>3, <1>4, <1>5 DEF TypeInv, TypeOK, PCs
<1> QED
  BY <1>1, <1>3, <1>5, <1>6, ScanInvAfter DEF TypeInv

\* A step that only moves pc between an operation's steps.
LEMMA MovePc_Type ==
    ASSUME TypeInv, pending.page = NoPage, pc' \in {"flush", "exit", "idle"},
           UNCHANGED <<durable, log, filePages, pool, tables, pending, recovery,
                       runs, acked>>
    PROVE  TypeInv'
<1>1. UNCHANGED <<disk, fileSize, master, log, filePages, pool, txTable, dpt,
                  nextXid, opsSinceCkpt, openTx, pending, scan, toUndo,
                  bootLen, runs, acked>>
  BY DEF durable, tables, recovery
<1>2. TypeOK'
  BY <1>1 DEF TypeInv, TypeOK, PCs
<1> QED
  BY <1>1, <1>2, SameLog, ScanInvAfter DEF TypeInv

LEMMA FlushControl_Type ==
    ASSUME TypeInv, StartFlush \/ Shutdown \/ FlushDone
    PROVE  TypeInv'
<1>1. pending.page = NoPage
  BY DEF StartFlush, Shutdown, FlushDone, Ready, TypeInv, ScanInv
<1> QED
  BY <1>1, MovePc_Type DEF StartFlush, Shutdown, FlushDone

LEMMA FlushPage_Type ==
    ASSUME TypeInv, NEW p \in Pages, FlushPage(p)
    PROVE  TypeInv'
<1>1. WriteBack(p, filePages) /\ filePages \in PageCounts
  BY DEF FlushPage, TypeInv, TypeOK, PageCounts
<1>2. /\ disk' \in [Pages -> Image] /\ fileSize' \in PageCounts
      /\ filePages' \in PageCounts
      /\ log' \in LogState /\ Extends(log', log)
      /\ dpt' \in DirtyPageTable
  BY <1>1, WriteBackType DEF TypeInv
<1>3. pool' \in Pool
  <2>1. pool.frame[p].data \in Image
    BY DEF TypeInv, TypeOK, Pool, Frame
  <2> QED
    BY <2>1, PoolType DEF FlushPage, TypeInv, TypeOK
<1>4. /\ pc \in {"flush", "exit"}
      /\ UNCHANGED <<master, txTable, nextXid, opsSinceCkpt, openTx, pc, pending,
                     scan, toUndo, bootLen, runs, acked>>
  BY DEF FlushPage, recovery
<1>5. TypeOK'
  BY <1>2, <1>3, <1>4 DEF TypeInv, TypeOK, PageCounts
<1>6. pending'.page = NoPage
  BY <1>4 DEF TypeInv, ScanInv
<1> QED
  BY <1>2, <1>4, <1>5, <1>6, ScanInvAfter DEF TypeInv

-----------------------------------------------------------------------------
(* Crashes *)

\* A dead process has the initial values of its memory.
LEMMA Forget_Type ==
    ASSUME TypeInv, Forget, log' \in LogState, master' \in Lsns,
           UNCHANGED <<disk, fileSize, runs, acked>>
    PROVE  TypeInv'
<1>1. /\ EmptyPool \in Pool /\ NoTable \in TxTable /\ NoDirty \in DirtyPageTable
      /\ Nothing \in [page : Pages \cup {NoPage}, data : Image]
      /\ Nothing.page = NoPage
  <2>1. ZeroImage \in Image /\ NoFrame \in Frame
    BY DEF ZeroImage, Image, NoFrame, Frame
  <2> QED
    BY <2>1 DEF EmptyPool, Pool, NoTable, TxTable, NoTx, TxEntry, NoDirty,
                DirtyPageTable, Nothing, Lsns, NoLsn
<1>2. /\ filePages' \in [Files -> 0 .. MaxPages]
      /\ openTx' \in [Names -> Xids \cup {NoXid}]
      /\ toUndo' \in [Xids -> Lsns]
  BY LogBounds DEF Forget, Lsns, NoLsn
<1>3. /\ pc' = "down" /\ pool' = EmptyPool /\ txTable' = NoTable
      /\ dpt' = NoDirty /\ nextXid' = 0 /\ opsSinceCkpt' = 0
      /\ pending' = Nothing /\ scan' = 0 /\ bootLen' = 0
      /\ master' \in Lsns /\ UNCHANGED <<disk, fileSize, runs, acked>>
  BY DEF Forget
<1>4. TypeOK'
  BY <1>1, <1>2, <1>3 DEF TypeInv, TypeOK, PCs
<1>5. Len(log'.stable) \in Nat
  BY DEF LogState
<1>6. ScanInv'
  BY <1>1, <1>3, <1>5 DEF ScanInv
<1> QED
  BY <1>4, <1>6 DEF TypeInv

LEMMA Kill_Type ==
    ASSUME TypeInv, Kill
    PROVE  TypeInv'
<1>1. PICK n \in 0 .. Len(log.buf) :
         log' = ReopenLog(log.stable \o SubSeq(log.buf, 1, n))
  BY DEF Kill
<1>2. log.stable \in Seq(LogRecord) /\ log.buf \in Seq(LogRecord)
  BY DEF TypeInv, TypeOK, LogState
<1>3. SubSeq(log.buf, 1, n) \in Seq(LogRecord)
  BY <1>2
<1>4. log.stable \o SubSeq(log.buf, 1, n) \in Seq(LogRecord)
  BY <1>2, <1>3, AppendedType
<1>5. log' \in LogState
  BY <1>1, <1>4, ReopenType
<1>6. master' \in Lsns
  BY DEF Kill, MastersLeft, TypeInv, TypeOK, Lsns
<1> QED
  BY <1>5, <1>6, Forget_Type DEF Kill

LEMMA ExitDone_Type ==
    ASSUME TypeInv, ExitDone
    PROVE  TypeInv'
<1>1. FlushLog(log) \in LogState
  BY FlushType DEF TypeInv, TypeOK
<1>2. FlushLog(log).stable \in Seq(LogRecord)
  BY <1>1 DEF LogState
<1>3. log' \in LogState
  BY <1>2, ReopenType DEF ExitDone
<1>4. master' \in Lsns /\ UNCHANGED <<disk, fileSize, runs, acked>>
  BY DEF ExitDone, durable, TypeInv, TypeOK
<1> QED
  BY <1>3, <1>4, Forget_Type DEF ExitDone

-----------------------------------------------------------------------------
(* Restart and recovery *)

LEMMA Restart_Type ==
    ASSUME TypeInv, Restart
    PROVE  TypeInv'
<1>1. log.stable \in Seq(LogRecord) /\ Len(log.stable) \in Nat
  BY DEF TypeInv, TypeOK, LogState
<1>2. log' \in LogState /\ log'.stable = log.stable
  BY <1>1, ReopenType DEF Restart
<1>3. txTable' \in TxTable /\ dpt' \in DirtyPageTable
  BY <1>1, LoadTablesType DEF Restart
<1>4. nextXid' \in Nat
  BY <1>1, NextXidType DEF Restart
<1>5. /\ pc = "down" /\ pc' \in {"boot", "analysis"} /\ scan' = 1
      /\ runs' \in 0 .. MaxRuns /\ bootLen' = Len(log.stable)
      /\ filePages' = fileSize
      /\ UNCHANGED <<disk, fileSize, master, pool, opsSinceCkpt, openTx,
                     pending, toUndo, acked>>
  BY CrashConfig DEF Restart, TypeInv, TypeOK, durable
<1>6. TypeOK'
  BY <1>1, <1>2, <1>3, <1>4, <1>5 DEF TypeInv, TypeOK, PCs
<1>7. ScanInv'
  BY <1>1, <1>2, <1>5 DEF TypeInv, ScanInv
<1> QED
  BY <1>6, <1>7 DEF TypeInv

\* The record recovery looks at.
LEMMA ScannedRecord ==
    ASSUME TypeInv, scan <= bootLen, scan >= 1
    PROVE  /\ log.stable[scan] \in LogRecord
           /\ log.stable[scan].type = "update" =>
                 log.stable[scan] \in UpdateRecord
<1>1. log.stable \in Seq(LogRecord) /\ scan \in 1 .. Len(log.stable)
  BY DEF TypeInv, TypeOK, ScanInv, LogState
<1> QED
  BY <1>1, RecordFields

LEMMA AnalyzeRecord_Type ==
    ASSUME TypeInv, AnalyzeRecord
    PROVE  TypeInv'
<1> DEFINE rec == log.stable[scan]
<1>1. scan >= 1 /\ pc = "analysis" /\ pending.page = NoPage
  BY DEF AnalyzeRecord, TypeInv, ScanInv
<1>2. /\ rec \in LogRecord /\ rec.lsn \in Lsns
      /\ rec.type = "update" => rec \in UpdateRecord
      /\ rec.type \in {"commit", "end"} => rec \in TxRecord
  BY <1>1, ScannedRecord, RecordFields DEF AnalyzeRecord, Lsns
<1>3. /\ rec.type = "update" => rec.xid \in Xids /\ rec.page \in Pages
      /\ rec.type \in {"commit", "end"} => rec.xid \in Xids
  BY <1>2 DEF UpdateRecord, TxRecord
<1>4. UNCHANGED <<txTable, dpt>> \/ Analyzed(rec)
  BY DEF AnalyzeRecord
<1> HIDE DEF rec
<1>5. txTable' \in TxTable /\ dpt' \in DirtyPageTable
  <2>1. txTable \in TxTable /\ dpt \in DirtyPageTable
    BY DEF TypeInv, TypeOK
  <2>2. CASE rec.type = "update" /\ Analyzed(rec)
    BY <1>2, <1>3, <2>1, <2>2, TxTableTypes, FirstDirtiedType DEF Analyzed
  <2>3. CASE rec.type = "commit" /\ Analyzed(rec)
    <3>1. dpt' = dpt /\ txTable' \in
             {txTable, [txTable EXCEPT ![rec.xid] =
                           [status |-> "committed", lastLSN |-> rec.lsn]]}
      BY <2>3 DEF Analyzed
    <3>2. [txTable EXCEPT ![rec.xid] =
              [status |-> "committed", lastLSN |-> rec.lsn]] \in TxTable
      BY <1>2, <1>3, <2>1, <2>3, TxTableTypes
    <3> QED
      BY <2>1, <3>1, <3>2
  <2>4. CASE rec.type = "end" /\ Analyzed(rec)
    <3>1. dpt' = dpt /\ txTable' = [txTable EXCEPT ![rec.xid] = NoTx]
      BY <2>4 DEF Analyzed
    <3> QED
      BY <1>2, <1>3, <2>1, <2>4, <3>1, TxTableTypes
  <2>5. CASE rec.type \notin {"update", "commit", "end"} /\ Analyzed(rec)
    BY <2>1, <2>5 DEF Analyzed
  <2> QED
    BY <1>4, <2>1, <2>2, <2>3, <2>4, <2>5
<1>6. /\ scan' = scan + 1
      /\ UNCHANGED <<disk, fileSize, master, log, filePages, pool, nextXid,
                     opsSinceCkpt, openTx, pc, pending, toUndo, bootLen, runs,
                     acked>>
  BY DEF AnalyzeRecord, durable
<1>7. TypeOK'
  BY <1>5, <1>6 DEF TypeInv, TypeOK
<1>8. ScanInv'
  BY <1>1, <1>6 DEF TypeInv, TypeOK, ScanInv
<1> QED
  BY <1>7, <1>8 DEF TypeInv

LEMMA AnalysisDone_Type ==
    ASSUME TypeInv, AnalysisDone
    PROVE  TypeInv'
<1>1. /\ pc = "analysis" /\ pc' = "redo" /\ scan' = 1
      /\ UNCHANGED <<disk, fileSize, master, log, filePages, pool, txTable, dpt,
                     nextXid, opsSinceCkpt, openTx, pending, toUndo, bootLen,
                     runs, acked>>
  BY DEF AnalysisDone, durable, tables
<1>2. TypeOK'
  BY <1>1 DEF TypeInv, TypeOK, PCs
<1>3. ScanInv'
  BY <1>1 DEF TypeInv, ScanInv
<1> QED
  BY <1>2, <1>3 DEF TypeInv

LEMMA RedoSkip_Type ==
    ASSUME TypeInv, RedoSkip
    PROVE  TypeInv'
<1>1. /\ pc = "redo" /\ scan' = scan + 1
      /\ UNCHANGED <<disk, fileSize, master, log, filePages, pool, txTable, dpt,
                     nextXid, opsSinceCkpt, openTx, pc, pending, toUndo,
                     bootLen, runs, acked>>
  BY DEF RedoSkip, durable, tables
<1>2. TypeOK'
  BY <1>1 DEF TypeInv, TypeOK
<1>3. ScanInv'
  BY <1>1 DEF TypeInv, TypeOK, ScanInv
<1> QED
  BY <1>2, <1>3 DEF TypeInv

\* A redo step writes one page.
LEMMA Reapply_Type ==
    ASSUME TypeInv, pc \in {"redo", "redofresh"}, scan <= bootLen,
           log.stable[scan].type = "update", Reapply(log.stable[scan]),
           UNCHANGED <<master, log, pool, tables, pending, toUndo, bootLen,
                       runs, acked>>
    PROVE  TypeInv'
<1> DEFINE rec == log.stable[scan]
<1>1. scan >= 1 /\ pending.page = NoPage
  BY DEF TypeInv, ScanInv
<1>2. rec \in UpdateRecord /\ rec.page \in Pages
  BY <1>1, ScannedRecord DEF UpdateRecord
<1> HIDE DEF rec
<1>3. ApplyAfter(disk[rec.page], rec) \in Image /\ filePages \in PageCounts
  BY <1>2, ImageTypes DEF TypeInv, TypeOK, PageCounts
<1>4. /\ DiskWrite(rec.page, ApplyAfter(disk[rec.page], rec), filePages)
      /\ scan' = scan + 1 /\ pc' = "redo"
      /\ UNCHANGED <<master, log, pool, txTable, dpt, nextXid, opsSinceCkpt,
                     openTx, pending, toUndo, bootLen, runs, acked>>
  BY DEF Reapply, tables, rec
<1>5. disk' \in [Pages -> Image] /\ fileSize' \in PageCounts
      /\ filePages' \in PageCounts
  BY <1>2, <1>3, <1>4, DiskWriteType DEF TypeInv, TypeOK, PageCounts
<1>6. TypeOK'
  BY <1>4, <1>5 DEF TypeInv, TypeOK, PageCounts, PCs
<1>7. ScanInv'
  BY <1>1, <1>4 DEF TypeInv, TypeOK, ScanInv
<1> QED
  BY <1>6, <1>7 DEF TypeInv

LEMMA RedoApply_Type ==
    ASSUME TypeInv, RedoApply
    PROVE  TypeInv'
  BY Reapply_Type DEF RedoApply, Redoing, ToRedo

LEMMA RedoFresh_Type ==
    ASSUME TypeInv, RedoFresh
    PROVE  TypeInv'
  BY Reapply_Type DEF RedoFresh, TypeInv, ScanInv

LEMMA EnsurePageExists_Type ==
    ASSUME TypeInv, EnsurePageExists
    PROVE  TypeInv'
<1> DEFINE rec == log.stable[scan]
           q   == <<rec.page[1], filePages[rec.page[1]]>>
<1>1. /\ pc = "redo" /\ scan >= 1 /\ scan <= bootLen /\ rec.type = "update"
      /\ pending.page = NoPage
  BY DEF EnsurePageExists, Redoing, ToRedo, TypeInv, ScanInv
<1>2. rec.page \in Pages
  BY <1>1, ScannedRecord DEF UpdateRecord
<1>3. rec.page[1] \in Files /\ rec.page[2] \in 0 .. (MaxPages - 1)
      /\ ~(rec.page[2] < filePages[rec.page[1]])
  BY <1>2, PageParts DEF EnsurePageExists, Allocated
<1>4. filePages[rec.page[1]] \in 0 .. (MaxPages - 1)
  BY <1>3, LogBounds DEF TypeInv, TypeOK
<1>5. q \in Pages
  BY <1>3, <1>4 DEF Pages
<1>6. ZeroImage \in Image /\ filePages \in PageCounts
  BY DEF ZeroImage, Image, TypeInv, TypeOK, PageCounts
<1>7. /\ DiskWrite(q, ZeroImage, filePages)
      /\ pc' \in {"redo", "redofresh"}
      /\ UNCHANGED <<master, log, pool, txTable, dpt, nextXid, opsSinceCkpt,
                     openTx, pending, scan, toUndo, bootLen, runs, acked>>
  BY DEF EnsurePageExists, tables, recovery
<1> HIDE DEF q
<1>8. disk' \in [Pages -> Image] /\ fileSize' \in PageCounts
      /\ filePages' \in PageCounts
  BY <1>5, <1>6, <1>7, DiskWriteType DEF TypeInv, TypeOK, PageCounts
<1>9. TypeOK'
  BY <1>7, <1>8 DEF TypeInv, TypeOK, PageCounts, PCs
<1>10. ScanInv'
  BY <1>1, <1>7 DEF TypeInv, ScanInv
<1> QED
  BY <1>9, <1>10 DEF TypeInv

LEMMA RedoDone_Type ==
    ASSUME TypeInv, RedoDone
    PROVE  TypeInv'
<1>1. toUndo' \in [Xids -> Lsns]
  <2>1. \A x \in Xids : txTable[x].lastLSN \in Lsns
    BY DEF TypeInv, TypeOK, TxTable, TxEntry
  <2> QED
    BY <2>1 DEF RedoDone, Lsns
<1>2. /\ pc = "redo" /\ pc' = "undo" /\ scan' = 0
      /\ UNCHANGED <<disk, fileSize, master, log, filePages, pool, txTable, dpt,
                     nextXid, opsSinceCkpt, openTx, pending, bootLen, runs,
                     acked>>
  BY DEF RedoDone, durable, tables
<1>3. TypeOK'
  BY <1>1, <1>2 DEF TypeInv, TypeOK, PCs
<1>4. ScanInv'
  BY <1>2 DEF TypeInv, ScanInv
<1> QED
  BY <1>3, <1>4 DEF TypeInv

LEMMA UndoRecord_Type ==
    ASSUME TypeInv, NEW x \in Xids, UndoRecord(x)
    PROVE  TypeInv'
<1>1. PICK i \in 1 .. bootLen :
         /\ Restore(log.stable[i])
         /\ toUndo' = [toUndo EXCEPT ![x] = log.stable[i].prev]
         /\ \/ UNCHANGED <<pc, scan>>
            \/ pc' = "endloser" /\ scan' = x
  BY DEF UndoRecord
<1> DEFINE rec == log.stable[i]
<1>2. rec \in LogRecord
  BY DEF TypeInv, TypeOK, ScanInv, LogState
<1>3. rec.prev \in Lsns /\ (rec.type = "update" => rec \in UpdateRecord)
  BY <1>2, RecordFields
<1> HIDE DEF rec
<1>4. toUndo' \in [Xids -> Lsns]
  BY <1>1, <1>3 DEF rec, TypeInv, TypeOK
<1>5. disk' \in [Pages -> Image] /\ fileSize' \in PageCounts
      /\ filePages' \in PageCounts
  <2>1. disk \in [Pages -> Image] /\ fileSize \in PageCounts
        /\ filePages \in PageCounts
    BY DEF TypeInv, TypeOK, PageCounts
  <2>2. CASE rec.type = "update" /\ Allocated(rec.page)
    <3>1. rec \in UpdateRecord /\ rec.page \in Pages
      BY <1>3, <2>2 DEF UpdateRecord
    <3>2. RestoreBefore(disk[rec.page], rec) \in Image
      BY <2>1, <3>1, ImageTypes
    <3>3. DiskWrite(rec.page, RestoreBefore(disk[rec.page], rec), filePages)
      BY <1>1, <2>2 DEF Restore, rec
    <3> QED
      BY <2>1, <3>1, <3>2, <3>3, DiskWriteType
  <2>3. CASE UNCHANGED <<disk, fileSize, filePages>>
    BY <2>1, <2>3
  <2> QED
    BY <1>1, <2>2, <2>3 DEF Restore, rec
<1>6. /\ pc = "undo" /\ pc' \in {"undo", "endloser"} /\ scan' \in Nat
      /\ pc' = "endloser" => scan' = x
      /\ UNCHANGED <<master, log, pool, txTable, dpt, nextXid, opsSinceCkpt,
                     openTx, pending, bootLen, runs, acked>>
  BY <1>1 DEF UndoRecord, tables, TypeInv, TypeOK, Xids
<1>7. TypeOK'
  BY <1>4, <1>5, <1>6 DEF TypeInv, TypeOK, PageCounts, PCs
<1>8. ScanInv'
  BY <1>6 DEF TypeInv, ScanInv
<1> QED
  BY <1>7, <1>8 DEF TypeInv

\* The end record of a transaction recovery is done with.
LEMMA EmitEnd_Type ==
    ASSUME TypeInv, NEW x \in Xids, EmitEnd(x)
    PROVE  /\ log' \in LogState /\ Extends(log', log)
           /\ txTable' \in TxTable
<1>1. log' \in LogState /\ Extends(log', log)
  BY TxRecType, EmitFlushType DEF EmitEnd
<1> QED
  BY <1>1, TxTableTypes DEF EmitEnd, TypeInv, TypeOK, Lsns, NoLsn

LEMMA EndLoser_Type ==
    ASSUME TypeInv, EndLoser
    PROVE  TypeInv'
<1>1. scan \in Xids /\ pc = "endloser" /\ pending.page = NoPage
  BY DEF EndLoser, TypeInv, ScanInv
<1>2. log' \in LogState /\ Extends(log', log) /\ txTable' \in TxTable
  BY <1>1, EmitEnd_Type DEF EndLoser
<1>3. /\ pc' = "undo" /\ scan' = 0
      /\ UNCHANGED <<disk, fileSize, master, filePages, pool, dpt, nextXid,
                     opsSinceCkpt, openTx, pending, toUndo, bootLen, runs,
                     acked>>
  BY DEF EndLoser, durable
<1>4. TypeOK'
  BY <1>2, <1>3 DEF TypeInv, TypeOK, PCs
<1> QED
  BY <1>1, <1>2, <1>3, <1>4, ScanInvAfter DEF TypeInv

LEMMA UndoDone_Type ==
    ASSUME TypeInv, UndoDone
    PROVE  TypeInv'
<1>1. /\ pc = "undo" /\ pc' = "finish"
      /\ UNCHANGED <<disk, fileSize, master, log, filePages, pool, txTable, dpt,
                     nextXid, opsSinceCkpt, openTx, pending, scan, toUndo,
                     bootLen, runs, acked>>
  BY DEF UndoDone, durable, tables, recovery
<1>2. TypeOK'
  BY <1>1 DEF TypeInv, TypeOK, PCs
<1>3. ScanInv'
  BY <1>1 DEF TypeInv, ScanInv
<1> QED
  BY <1>2, <1>3 DEF TypeInv

LEMMA FinishCommitted_Type ==
    ASSUME TypeInv, NEW x \in Xids, FinishCommitted(x)
    PROVE  TypeInv'
<1>1. log' \in LogState /\ Extends(log', log) /\ txTable' \in TxTable
  BY EmitEnd_Type DEF FinishCommitted
<1>2. /\ pc = "finish"
      /\ UNCHANGED <<disk, fileSize, master, filePages, pool, dpt, nextXid,
                     opsSinceCkpt, openTx, pc, pending, scan, toUndo, bootLen,
                     runs, acked>>
  BY DEF FinishCommitted, durable, recovery
<1>3. TypeOK'
  BY <1>1, <1>2 DEF TypeInv, TypeOK
<1>4. pending'.page = NoPage
  BY <1>2 DEF TypeInv, ScanInv
<1> QED
  BY <1>1, <1>2, <1>3, <1>4, ScanInvAfter DEF TypeInv

LEMMA RecoveryDone_Type ==
    ASSUME TypeInv, RecoveryDone
    PROVE  TypeInv'
<1>1. log' \in LogState /\ Extends(log', log)
  BY FlushType DEF RecoveryDone, TypeInv, TypeOK
<1>2. /\ pc = "finish" /\ pc' = "boot"
      /\ UNCHANGED <<disk, fileSize, master, filePages, pool, txTable, dpt,
                     nextXid, opsSinceCkpt, openTx, pending, scan, toUndo,
                     bootLen, runs, acked>>
  BY DEF RecoveryDone, durable, tables, recovery
<1>3. TypeOK'
  BY <1>1, <1>2 DEF TypeInv, TypeOK, PCs
<1>4. pending'.page = NoPage
  BY <1>2 DEF TypeInv, ScanInv
<1> QED
  BY <1>1, <1>2, <1>3, <1>4, ScanInvAfter DEF TypeInv

LEMMA Boot_Type ==
    ASSUME TypeInv, Boot
    PROVE  TypeInv'
<1> DEFINE first == <<CatalogFile, 0>>
<1>1. first \in Pages
  BY RuntimeConfig, LogBounds DEF Pages
<1>2. BlankCatalog \in Image
  BY RuntimeConfig DEF BlankCatalog, ZeroImage, Image, DataCells
<1>3. filePages' \in PageCounts /\ pool' \in Pool
  <2>1. filePages \in PageCounts /\ pool \in Pool
    BY DEF TypeInv, TypeOK, PageCounts
  <2>2. CASE UNCHANGED <<filePages, pool>>
    BY <2>1, <2>2
  <2>3. CASE /\ filePages' = [filePages EXCEPT ![CatalogFile] = 1]
             /\ pool' = Touch(pool, first, BlankCatalog, TRUE)
    <3>0. 1 \in 0 .. MaxPages
      BY LogBounds
    <3>1. filePages' \in PageCounts
      BY <2>1, <2>3, <3>0 DEF PageCounts
    <3> HIDE DEF first
    <3>2. Touch(pool, first, BlankCatalog, TRUE) \in Pool
      BY <1>1, <1>2, <2>1, PoolType
    <3> QED
      BY <2>3, <3>1, <3>2
  <2> QED
    BY <2>2, <2>3 DEF Boot
<1>4. /\ pc = "boot" /\ pc' = "idle" /\ scan' = 0
      /\ UNCHANGED <<disk, fileSize, master, log, txTable, dpt, nextXid,
                     opsSinceCkpt, openTx, pending, toUndo, bootLen, runs,
                     acked>>
  BY DEF Boot, durable, tables
<1>5. TypeOK'
  BY <1>3, <1>4 DEF TypeInv, TypeOK, PageCounts, PCs
<1>6. pending'.page = NoPage
  BY <1>4 DEF TypeInv, ScanInv
<1> QED
  BY <1>4, <1>5, <1>6, SameLog, ScanInvAfter DEF TypeInv

-----------------------------------------------------------------------------
(* Type correctness *)

LEMMA Init_Type == Init => TypeInv
<1> SUFFICES ASSUME Init PROVE TypeInv
  OBVIOUS
<1>1. /\ EmptyPool \in Pool /\ NoTable \in TxTable /\ NoDirty \in DirtyPageTable
      /\ Nothing \in [page : Pages \cup {NoPage}, data : Image]
      /\ Nothing.page = NoPage /\ ZeroImage \in Image
  <2>1. ZeroImage \in Image /\ NoFrame \in Frame
    BY DEF ZeroImage, Image, NoFrame, Frame
  <2> QED
    BY <2>1 DEF EmptyPool, Pool, NoTable, TxTable, NoTx, TxEntry, NoDirty,
                DirtyPageTable, Nothing, Lsns, NoLsn
<1>2. log \in LogState /\ log.stable = << >>
  <2>1. << >> \in Seq(LogRecord)
    OBVIOUS
  <2> QED
    BY <2>1, ReopenType DEF Init
<1>3. TypeOK
  BY <1>1, <1>2, LogBounds, CrashConfig DEF Init, TypeOK, PCs, Lsns, NoLsn
<1>4. ScanInv
  BY <1>1, <1>2 DEF Init, ScanInv
<1> QED
  BY <1>3, <1>4 DEF TypeInv

LEMMA Next_Type == TypeInv /\ [Next]_vars => TypeInv'
<1> SUFFICES ASSUME TypeInv, [Next]_vars PROVE TypeInv'
  OBVIOUS
<1>1. CASE UNCHANGED vars
  BY <1>1 DEF vars, TypeInv, TypeOK, ScanInv
<1>2. CASE Serve
  BY <1>2, TxBegin_Type, CommitRecord_Type, GetPage_Type, AllocatePage_Type,
     WritePage_Type, FlushControl_Type DEF Serve
<1>3. CASE Continue
  BY <1>3, Install_Type, CheckpointBegin_Type, CheckpointEnd_Type,
     WriteMaster_Type, CommitEnd_Type, FlushPage_Type, FlushControl_Type,
     ExitDone_Type DEF Continue
<1>4. CASE Recover
  BY <1>4, AnalyzeRecord_Type, AnalysisDone_Type, RedoSkip_Type,
     RedoApply_Type, EnsurePageExists_Type, RedoFresh_Type, RedoDone_Type,
     UndoRecord_Type, FinishCommitted_Type, EndLoser_Type, UndoDone_Type,
     RecoveryDone_Type, Boot_Type DEF Recover
<1>5. CASE Restart \/ Kill
  BY <1>5, Restart_Type, Kill_Type
<1> QED
  BY <1>1, <1>2, <1>3, <1>4, <1>5 DEF Next

\* The invariant TypeOK rests on, for every value of the constants.
THEOREM TypeInvariant == Spec => []TypeInv
  BY Init_Type, Next_Type, PTL DEF Spec

\* Every variable keeps its type, through any input and any crash
\* (RecoveryManager, BufferManager and DiskSpaceManager state).
THEOREM TypeCorrect == Spec => []TypeOK
<1>1. TypeInv => TypeOK
  BY DEF TypeInv
<1> QED
  BY <1>1, TypeInvariant, PTL

-----------------------------------------------------------------------------
(* The log buffer *)

\* _flush_log empties the buffer.
LEMMA FlushBuf ==
    ASSUME NEW l \in LogState, LsnsAhead(l)
    PROVE  LsnsAhead(FlushLog(l)) /\ Range(FlushLog(l).buf) = {}
<1>1. CASE l.buf = << >>
  BY <1>1 DEF FlushLog, LsnsAhead, Range
<1>2. CASE l.buf # << >>
  <2>1. l.buf \in Seq(LogRecord) /\ l.next \in Nat /\ Len(l.buf) \in DOMAIN l.buf
    BY <1>2 DEF LogState
  <2>2. LastOf(l.buf).lsn < l.next
    BY <2>1 DEF LsnsAhead, Range, LastOf
  <2>3. /\ FlushLog(l).buf = << >> /\ FlushLog(l).next = l.next
        /\ FlushLog(l).flushed = LastOf(l.buf).lsn
    BY <1>2 DEF FlushLog, Flushed
  <2>4. Range(FlushLog(l).buf) = {}
    BY <2>3 DEF Range
  <2> QED
    BY <2>2, <2>3, <2>4 DEF LsnsAhead
<1> QED
  BY <1>1, <1>2

\* flush_log_up_to leaves only records above the LSN it was called with.
LEMMA FlushUpToBuf ==
    ASSUME NEW l \in LogState, NEW k \in Nat, LsnsAhead(l)
    PROVE  /\ LsnsAhead(FlushLogUpTo(l, k))
           /\ Range(FlushLogUpTo(l, k).buf) \subseteq Range(l.buf)
           /\ \A rec \in Range(FlushLogUpTo(l, k).buf) : rec.lsn > k
<1>1. CASE k <= l.flushed
  <2>1. \A rec \in Range(l.buf) : rec.lsn \in Nat
    BY RecordFields DEF LogState, Range
  <2>2. l.flushed \in Int
    BY DEF LogState, Lsns, NoLsn
  <2> QED
    BY <1>1, <2>1, <2>2 DEF FlushLogUpTo, LsnsAhead
<1>2. CASE ~(k <= l.flushed)
  BY <1>2, FlushBuf DEF FlushLogUpTo
<1> QED
  BY <1>1, <1>2

\* _emit adds one record, or flushes it at once.
LEMMA EmitBuf ==
    ASSUME NEW l \in LogState, NEW rec \in LogRecord, rec.lsn = l.next,
           LsnsAhead(l)
    PROVE  /\ LsnsAhead(Emit(l, rec))
           /\ Range(Emit(l, rec).buf) \subseteq Range(l.buf) \cup {rec}
<1> DEFINE t == TakeLsn(l)
           m == [t EXCEPT !.buf = Append(t.buf, rec)]
<1>1. /\ t \in LogState /\ t.next = l.next + 1 /\ t.buf = l.buf
      /\ t.flushed = l.flushed
  BY TakeLsnType
<1>2. Emit(l, rec) \in {m, FlushLog(m)}
  BY DEF Emit, EmitWithLsn
<1> HIDE DEF t
<1>3. /\ m \in LogState /\ m.next = l.next + 1 /\ m.flushed = l.flushed
      /\ m.buf = Append(l.buf, rec)
  <2>1. t = [stable |-> t.stable, buf |-> t.buf, next |-> t.next,
             flushed |-> t.flushed]
    BY <1>1 DEF LogState
  <2>2. m = [stable |-> t.stable, buf |-> Append(t.buf, rec),
             next |-> t.next, flushed |-> t.flushed]
    BY <2>1
  <2>3. /\ t.stable \in Seq(LogRecord) /\ t.next \in Nat /\ t.flushed \in Lsns
        /\ Append(t.buf, rec) \in Seq(LogRecord)
    BY <1>1 DEF LogState
  <2> QED
    BY <1>1, <2>2, <2>3 DEF LogState
<1> HIDE DEF m
<1>4. Range(m.buf) \subseteq Range(l.buf) \cup {rec}
  <2>1. l.buf \in Seq(LogRecord)
    BY DEF LogState
  <2>2. /\ Len(Append(l.buf, rec)) = Len(l.buf) + 1
        /\ \A i \in 1 .. Len(l.buf) + 1 : Append(l.buf, rec)[i] =
              IF i <= Len(l.buf) THEN l.buf[i] ELSE rec
        /\ DOMAIN Append(l.buf, rec) = 1 .. Len(l.buf) + 1
    BY <2>1
  <2>3. \A i \in DOMAIN m.buf : m.buf[i] = rec \/ m.buf[i] \in Range(l.buf)
    BY <1>3, <2>1, <2>2 DEF Range
  <2> QED
    BY <2>3 DEF Range
<1>5. LsnsAhead(m)
  <2>1. \A r \in Range(l.buf) : r.lsn \in Nat /\ l.flushed \in Int
    BY RecordFields DEF LogState, Range, Lsns, NoLsn
  <2>2. l.flushed \in Int /\ l.next \in Nat
    BY DEF LogState, Lsns, NoLsn
  <2>3. \A r \in Range(m.buf) : m.flushed < r.lsn /\ r.lsn < m.next
    BY <1>3, <1>4, <2>1, <2>2 DEF LsnsAhead
  <2> QED
    BY <1>3, <2>2, <2>3 DEF LsnsAhead
<1>6. LsnsAhead(FlushLog(m)) /\ Range(FlushLog(m).buf) = {}
  BY <1>3, <1>5, FlushBuf
<1> QED
  BY <1>2, <1>4, <1>5, <1>6

\* A restart begins with an empty buffer.
LEMMA ReopenBuf ==
    ASSUME NEW s \in Seq(LogRecord)
    PROVE  LsnsAhead(ReopenLog(s)) /\ Range(ReopenLog(s).buf) = {}
<1>1. ReopenLog(s) \in LogState /\ ReopenLog(s).buf = << >>
  BY ReopenType
<1>2. ReopenLog(s).next = ReopenLog(s).flushed + 1
  BY DEF ReopenLog
<1>3. ReopenLog(s).flushed \in Int
  BY <1>1 DEF LogState, Lsns, NoLsn
<1>4. Range(ReopenLog(s).buf) = {}
  BY <1>1 DEF Range
<1> QED
  BY <1>2, <1>3, <1>4 DEF LsnsAhead

-----------------------------------------------------------------------------
(* The pool *)

\* Taking a page out of an order takes out that page and nothing else.
LEMMA WithoutRange ==
    ASSUME NEW s \in Seq(Pages), HeldOnce(s), NEW p \in Pages
    PROVE  /\ Range(Without(s, p)) = Range(s) \ {p}
           /\ HeldOnce(Without(s, p))
<1>1. CASE p \notin Range(s)
  BY <1>1 DEF Without
<1>2. CASE p \in Range(s)
  <2> DEFINE i == CHOOSE i \in DOMAIN s : s[i] = p
             w == [j \in 1 .. (Len(s) - 1) |-> IF j < i THEN s[j] ELSE s[j + 1]]
  <2>1. i \in DOMAIN s /\ s[i] = p
    BY <1>2 DEF Range
  <2>2. Without(s, p) = w
    BY <1>2 DEF Without
  <2>3. Len(s) \in Nat /\ DOMAIN s = 1 .. Len(s) /\ i \in 1 .. Len(s)
    BY <2>1
  <2> HIDE DEF i
  <2>4. DOMAIN w = 1 .. (Len(s) - 1)
        /\ \A j \in 1 .. (Len(s) - 1) :
              w[j] = IF j < i THEN s[j] ELSE s[j + 1]
    OBVIOUS
  <2> HIDE DEF w
  <2>5. ASSUME NEW j \in DOMAIN w PROVE w[j] \in Range(s) \ {p}
    <3>1. CASE j < i
      <4>1. w[j] = s[j] /\ j \in DOMAIN s /\ j # i
        BY <2>3, <2>4, <3>1
      <4> QED
        BY <2>1, <4>1 DEF HeldOnce, Range
    <3>2. CASE ~(j < i)
      <4>1. w[j] = s[j + 1] /\ j + 1 \in DOMAIN s /\ j + 1 # i
        BY <2>3, <2>4, <3>2
      <4> QED
        BY <2>1, <4>1 DEF HeldOnce, Range
    <3> QED
      BY <3>1, <3>2
  <2>6. ASSUME NEW q \in Range(s) \ {p} PROVE q \in Range(w)
    <3>1. PICK k \in DOMAIN s : s[k] = q
      BY DEF Range
    <3>2. k # i
      BY <2>1, <3>1
    <3>3. CASE k < i
      <4>1. k \in DOMAIN w /\ w[k] = s[k]
        BY <2>3, <2>4, <3>3
      <4> QED
        BY <3>1, <4>1 DEF Range
    <3>4. CASE k > i
      <4>1. k - 1 \in DOMAIN w /\ w[k - 1] = s[k]
        BY <2>3, <2>4, <3>4
      <4> QED
        BY <3>1, <4>1 DEF Range
    <3> QED
      BY <2>3, <3>2, <3>3, <3>4
  <2>7. ASSUME NEW j \in DOMAIN w, NEW k \in DOMAIN w, w[j] = w[k]
        PROVE  j = k
    <3> DEFINE at(m) == IF m < i THEN m ELSE m + 1
    <3>1. at(j) \in DOMAIN s /\ at(k) \in DOMAIN s
          /\ s[at(j)] = w[j] /\ s[at(k)] = w[k]
      BY <2>3, <2>4
    <3>2. at(j) = at(k)
      BY <2>7, <3>1 DEF HeldOnce
    <3> QED
      BY <2>3, <2>4, <3>2
  <2>8. Range(w) = Range(s) \ {p}
    BY <2>5, <2>6 DEF Range
  <2> QED
    BY <2>2, <2>7, <2>8 DEF HeldOnce
<1> QED
  BY <1>1, <1>2

LEMMA AppendRange ==
    ASSUME NEW s \in Seq(Pages), HeldOnce(s), NEW p \in Pages, p \notin Range(s)
    PROVE  /\ Range(Append(s, p)) = Range(s) \cup {p}
           /\ HeldOnce(Append(s, p))
<1> DEFINE a == Append(s, p)
<1>1. /\ Len(s) \in Nat /\ DOMAIN s = 1 .. Len(s)
      /\ DOMAIN a = 1 .. (Len(s) + 1)
      /\ \A i \in 1 .. (Len(s) + 1) : a[i] = IF i <= Len(s) THEN s[i] ELSE p
  OBVIOUS
<1> HIDE DEF a
<1>2. \A i \in DOMAIN a : a[i] \in Range(s) \cup {p}
  BY <1>1 DEF Range
<1>3. p = a[Len(s) + 1] /\ \A i \in DOMAIN s : i \in DOMAIN a /\ s[i] = a[i]
  BY <1>1
<1>4. Range(a) = Range(s) \cup {p}
  BY <1>1, <1>2, <1>3 DEF Range
<1>5. ASSUME NEW i \in DOMAIN a, NEW j \in DOMAIN a, a[i] = a[j]
      PROVE  i = j
  BY <1>1, <1>5 DEF HeldOnce, Range
<1> QED
  BY <1>4, <1>5 DEF HeldOnce, a

\* Using a frame puts the page last and changes no other frame.
LEMMA TouchFrames ==
    ASSUME NEW po \in Pool, HeldOnce(po.order), NEW p \in Pages,
           NEW img \in Image, NEW d \in BOOLEAN
    PROVE  /\ HeldOnce(Touch(po, p, img, d).order)
           /\ Range(Touch(po, p, img, d).order) = Range(po.order) \cup {p}
           /\ Touch(po, p, img, d).frame[p] = [data |-> img, dirty |-> d]
           /\ \A q \in Pages : q # p =>
                 Touch(po, p, img, d).frame[q] = po.frame[q]
<1>1. po.order \in Seq(Pages) /\ po.frame \in [Pages -> Frame]
  BY DEF Pool
<1>2. /\ Without(po.order, p) \in Seq(Pages) /\ HeldOnce(Without(po.order, p))
      /\ Range(Without(po.order, p)) = Range(po.order) \ {p}
  BY <1>1, WithoutType, WithoutRange
<1>3. /\ HeldOnce(Append(Without(po.order, p), p))
      /\ Range(Append(Without(po.order, p), p)) = Range(po.order) \cup {p}
  BY <1>2, AppendRange
<1> QED
  BY <1>1, <1>3 DEF Touch

LEMMA DropFrames ==
    ASSUME NEW po \in Pool, HeldOnce(po.order), NEW p \in Pages
    PROVE  /\ HeldOnce(Drop(po, p).order)
           /\ Range(Drop(po, p).order) = Range(po.order) \ {p}
           /\ Drop(po, p).frame[p] = NoFrame
           /\ \A q \in Pages : q # p => Drop(po, p).frame[q] = po.frame[q]
  BY WithoutRange DEF Drop, Pool

LEMMA CleanFrames ==
    ASSUME NEW po \in Pool, NEW p \in Pages
    PROVE  /\ MarkClean(po, p).order = po.order
           /\ ~MarkClean(po, p).frame[p].dirty
           /\ \A q \in Pages : q # p => MarkClean(po, p).frame[q] = po.frame[q]
  BY DEF MarkClean, Pool

-----------------------------------------------------------------------------
(* Writing dirty frames back *)

\* The pages that are still safe to lose from memory: the file they are in
\* changes only with their log records out of the buffer.
LogAhead(p) ==
    disk'[p] # disk[p] =>
        \A rec \in Range(log'.buf) :
            ~IsUpdateOn(rec, p) /\ rec.lsn > ReadPageLsn(disk'[p])

\* The page counts of the files only grow.
LEMMA GrownCounts ==
    ASSUME NEW c \in PageCounts, NEW p \in Pages
    PROVE  \A f \in Files :
              c[f] <= [c EXCEPT ![p[1]] = Grown(c[p[1]], p)][f]
<1>1. \A f \in Files : c[f] \in Nat
  BY LogBounds DEF PageCounts
<1>2. p[1] \in Files /\ p[2] \in Nat
  BY PageParts, LogBounds
<1>3. c[p[1]] <= Grown(c[p[1]], p)
  BY <1>1, <1>2 DEF Grown
<1> QED
  BY <1>1, <1>2, <1>3 DEF PageCounts

\* Every record of the buffer has an LSN, and its update a page.
LEMMA BufferedRecord ==
    ASSUME TypeOK, NEW rec \in Range(log.buf)
    PROVE  /\ rec \in LogRecord /\ rec.lsn \in Nat
           /\ rec.type = "update" => rec.page \in Pages
<1>1. rec \in LogRecord
  BY DEF TypeOK, LogState, Range
<1> QED
  BY <1>1, RecordFields DEF UpdateRecord

\* WAL #1 where a frame is written: what the log still buffers is younger
\* than the page and about other pages (_wal_before_flush).
LEMMA WriteBackRule ==
    ASSUME WalInv, NEW v \in Pages, v # pending.page, NEW counts,
           WriteBack(v, counts)
    PROVE  /\ LsnsAhead(log') /\ Range(log'.buf) \subseteq Range(log.buf)
           /\ \A rec \in Range(log'.buf) : ~IsUpdateOn(rec, v)
           /\ \A q \in Pages : LogAhead(q)
<1> DEFINE lsn == ReadPageLsn(pool.frame[v].data)
<1>1. pool.frame[v].data \in Image /\ log \in LogState /\ TypeOK
      /\ disk \in [Pages -> Image]
  BY DEF WalInv, TypeInv, TypeOK, Pool, Frame
<1>2. lsn \in Nat
  BY <1>1, PageLsnType
<1>3. /\ log' = FlushLogUpTo(log, lsn)
      /\ disk' = [disk EXCEPT ![v] = pool.frame[v].data]
  BY DEF WriteBack, WalBeforeFlush, DiskWrite
<1>4. /\ LsnsAhead(log') /\ Range(log'.buf) \subseteq Range(log.buf)
      /\ \A rec \in Range(log'.buf) : rec.lsn > lsn
  BY <1>1, <1>2, <1>3, FlushUpToBuf DEF WalInv, LsnInv
<1>5. ASSUME NEW rec \in Range(log'.buf) PROVE ~IsUpdateOn(rec, v)
  <2>1. rec \in Range(log.buf) /\ rec.lsn > lsn /\ rec.lsn \in Nat
    BY <1>1, <1>4, BufferedRecord
  <2>2. IsUpdateOn(rec, v) => lsn >= rec.lsn
    BY <2>1 DEF WalInv, StampedInv, IsUpdateOn
  <2> QED
    BY <1>2, <2>1, <2>2
<1>6. ASSUME NEW q \in Pages PROVE LogAhead(q)
  <2>1. disk'[q] # disk[q] => q = v /\ disk'[q] = pool.frame[v].data
    BY <1>1, <1>3
  <2> QED
    BY <1>4, <1>5, <2>1 DEF LogAhead
<1> QED
  BY <1>4, <1>5, <1>6

\* Making room for a page that is not in the pool: the victim leaves nothing
\* behind that only memory has.
LEMMA MakeRoomRule ==
    ASSUME WalInv, NEW p \in Pages, ~Cached(p), NEW img \in Image,
           NEW d \in BOOLEAN, NEW counts \in PageCounts,
           \A f \in Files : filePages[f] <= counts[f],
           p[2] < counts[p[1]],
           pending.page \in {NoPage, p},
           MakeRoomFor(p, img, d, counts)
    PROVE  /\ LsnsAhead(log') /\ Range(log'.buf) \subseteq Range(log.buf)
           /\ HeldOnce(pool'.order)
           /\ pool'.frame[p] = [data |-> img, dirty |-> d]
           /\ \A q \in Pages : pool'.frame[q].dirty => q \in Range(pool'.order)
           /\ \A q \in Pages :
                 q \in Range(pool'.order) => q[2] < filePages'[q[1]]
           /\ \A rec \in Range(log'.buf) :
                 rec.type = "update" /\ rec.page # p =>
                    /\ pool'.frame[rec.page].dirty
                    /\ ReadPageLsn(pool'.frame[rec.page].data) >= rec.lsn
           /\ \A q \in Pages : LogAhead(q)
<1> DEFINE full   == Len(pool.order) >= PoolSize
           victim == VictimKey(pool)
           steal  == full /\ pool.frame[victim].dirty
           left   == IF full THEN Drop(pool, victim) ELSE pool
<1>1. /\ TypeOK /\ pool \in Pool /\ HeldOnce(pool.order)
      /\ p \notin Range(pool.order) /\ log \in LogState
      /\ LsnsAhead(log) /\ filePages \in PageCounts
  BY DEF WalInv, TypeInv, TypeOK, PoolInv, Cached, LsnInv, PageCounts
<1>2. full => victim \in Pages /\ victim \in Range(pool.order) /\ victim # p
  BY <1>1, VictimType
<1>3. full => victim # pending.page
  BY <1>2, EngineConfig
<1>4. pool' = Touch(left, p, img, d)
  BY DEF MakeRoomFor
<1>5. /\ left \in Pool /\ HeldOnce(left.order)
      /\ Range(left.order) \subseteq Range(pool.order)
      /\ \A q \in Pages : q \in Range(left.order)
                          \/ left.frame[q] = NoFrame
                          \/ (left.frame[q] = pool.frame[q] /\ ~Cached(q))
      /\ \A q \in Pages : left.frame[q] # pool.frame[q] => (full /\ q = victim)
  <2>1. CASE full
    <3>1. left = Drop(pool, victim)
      BY <2>1
    <3> HIDE DEF left, victim
    <3>2. Drop(pool, victim) \in Pool
      BY <1>1, <1>2, <2>1, PoolType
    <3>3. /\ HeldOnce(Drop(pool, victim).order)
          /\ Range(Drop(pool, victim).order) = Range(pool.order) \ {victim}
          /\ Drop(pool, victim).frame[victim] = NoFrame
          /\ \A q \in Pages : q # victim =>
                Drop(pool, victim).frame[q] = pool.frame[q]
      BY <1>1, <1>2, <2>1, DropFrames
    <3> QED
      BY <2>1, <3>1, <3>2, <3>3 DEF Cached
  <2>2. CASE ~full
    <3>1. left = pool
      BY <2>2
    <3> HIDE DEF left
    <3> QED
      BY <1>1, <2>2, <3>1 DEF Cached
  <2> QED
    BY <2>1, <2>2
<1> HIDE DEF left
<1>6. /\ HeldOnce(pool'.order)
      /\ Range(pool'.order) = Range(left.order) \cup {p}
      /\ pool'.frame[p] = [data |-> img, dirty |-> d]
      /\ \A q \in Pages : q # p => pool'.frame[q] = left.frame[q]
  BY <1>4, <1>5, TouchFrames
<1>7. ASSUME NEW q \in Pages, pool'.frame[q].dirty
      PROVE  q \in Range(pool'.order)
  <2>1. CASE q = p
    BY <1>6, <2>1
  <2>2. CASE q # p
    <3>1. left.frame[q].dirty
      BY <1>6, <1>7, <2>2
    <3>2. left.frame[q] # NoFrame
      BY <3>1 DEF NoFrame
    <3>3. pool.frame[q].dirty => Cached(q)
      BY DEF WalInv, PoolInv
    <3>4. q \in Range(left.order)
      BY <1>5, <3>1, <3>2, <3>3
    <3> QED
      BY <1>6, <3>4
  <2> QED
    BY <2>1, <2>2
<1>8. /\ LsnsAhead(log') /\ Range(log'.buf) \subseteq Range(log.buf)
      /\ full => \A rec \in Range(log'.buf) : ~IsUpdateOn(rec, victim)
      /\ \A q \in Pages : LogAhead(q)
      /\ \A f \in Files : counts[f] <= filePages'[f]
      /\ filePages' \in PageCounts
  <2>1. CASE steal /\ WriteBack(victim, counts)
    <3>1. /\ LsnsAhead(log') /\ Range(log'.buf) \subseteq Range(log.buf)
          /\ \A rec \in Range(log'.buf) : ~IsUpdateOn(rec, victim)
          /\ \A q \in Pages : LogAhead(q)
      BY <1>2, <1>3, <2>1, WriteBackRule
    <3>2. filePages' = [counts EXCEPT ![victim[1]] =
                           Grown(counts[victim[1]], victim)]
      BY <2>1 DEF WriteBack, DiskWrite
    <3> QED
      BY <1>2, <2>1, <3>1, <3>2, GrownCounts, GrownType
  <2>2. CASE /\ ~steal /\ filePages' = counts
             /\ UNCHANGED <<disk, fileSize, log, dpt>>
    <3>1. full => \A rec \in Range(log.buf) : ~IsUpdateOn(rec, victim)
      BY <1>3, <2>2 DEF WalInv, StampedInv, IsUpdateOn
    <3>2. \A f \in Files : counts[f] <= counts[f]
      BY LogBounds DEF PageCounts
    <3>3. \A q \in Pages : LogAhead(q)
      BY <2>2 DEF LogAhead
    <3> QED
      BY <1>1, <2>2, <3>1, <3>2, <3>3
  <2> QED
    BY <2>1, <2>2 DEF MakeRoomFor
<1>9. ASSUME NEW q \in Pages, q \in Range(pool'.order)
      PROVE  q[2] < filePages'[q[1]]
  <2>1. q[1] \in Files /\ q[2] \in Nat /\ p[1] \in Files
    BY PageParts, LogBounds
  <2>2. /\ filePages[q[1]] \in Nat /\ counts[q[1]] \in Nat
        /\ filePages'[q[1]] \in Nat
    BY <1>1, <1>8, <2>1, LogBounds DEF PageCounts
  <2>3. q[2] < counts[q[1]]
    <3>1. CASE q = p
      BY <3>1
    <3>2. CASE q # p
      <4>1. q \in Range(pool.order)
        BY <1>5, <1>6, <1>9, <3>2
      <4>2. q[2] < filePages[q[1]]
        BY <4>1 DEF WalInv, PoolInv, Cached, Allocated
      <4> QED
        BY <2>1, <2>2, <4>2
    <3> QED
      BY <3>1, <3>2
  <2> QED
    BY <1>8, <2>1, <2>2, <2>3
<1>10. ASSUME NEW rec \in Range(log'.buf), rec.type = "update", rec.page # p
       PROVE  /\ pool'.frame[rec.page].dirty
              /\ ReadPageLsn(pool'.frame[rec.page].data) >= rec.lsn
  <2>1. rec \in Range(log.buf) /\ rec.page \in Pages /\ rec.page # NoPage
    BY <1>1, <1>8, <1>10, BufferedRecord, EngineConfig
  <2>2. /\ pool.frame[rec.page].dirty
        /\ ReadPageLsn(pool.frame[rec.page].data) >= rec.lsn
    BY <1>10, <2>1 DEF WalInv, StampedInv
  <2>3. ~(full /\ rec.page = victim)
    BY <1>8, <1>10 DEF IsUpdateOn
  <2>4. pool'.frame[rec.page] = pool.frame[rec.page]
    BY <1>5, <1>6, <1>10, <2>1, <2>3
  <2> QED
    BY <2>2, <2>4
<1> QED
  BY <1>6, <1>7, <1>8, <1>9, <1>10

-----------------------------------------------------------------------------
(* Each action keeps the invariant, and obeys the rule *)

StateInv == PoolInv /\ LsnInv /\ StampedInv
Rule == pc \notin Recovering => \A p \in Pages : LogAhead(p)

\* A step of an operation that leaves the pages alone and emits at most
\* records that change no page.
LEMMA QuietStep ==
    ASSUME WalInv, UNCHANGED <<disk, filePages, pool, pending>>,
           LsnsAhead(log'),
           \A rec \in Range(log'.buf) :
               rec \in Range(log.buf) \/ rec.type # "update",
           pc' \notin Recovering \cup {"down"}
    PROVE  StateInv' /\ Rule
<1>1. PoolInv'
  BY DEF WalInv, PoolInv, Cached, Allocated
<1>2. LsnInv' /\ StampedInv'
  BY DEF WalInv, LsnInv, StampedInv
<1>3. Rule
  BY DEF Rule, LogAhead
<1> QED
  BY <1>1, <1>2, <1>3 DEF StateInv

\* The pool of a process that has just started holds nothing.
LEMMA EmptyPoolHoldsNothing ==
    /\ HeldOnce(EmptyPool.order) /\ Range(EmptyPool.order) = {}
    /\ \A p \in Pages : ~EmptyPool.frame[p].dirty
  BY DEF EmptyPool, NoFrame, HeldOnce, Range

LEMMA NothingIsNoPage == Nothing.page = NoPage
  BY DEF Nothing

\* Recovery works on the files; memory holds no page and no change.
LEMMA RecoveryStep ==
    ASSUME WalInv, pc \in Recovering \cup {"down"}, pool' = pool,
           pending' = pending, LsnsAhead(log'),
           \A rec \in Range(log'.buf) : rec.type # "update",
           pc \in Recovering \/ disk' = disk
    PROVE  StateInv' /\ Rule
<1>1. pool = EmptyPool /\ pending.page = NoPage
  BY DEF WalInv, TypeInv, ScanInv, PoolInv, Recovering
<1>2. PoolInv'
  BY <1>1, EmptyPoolHoldsNothing DEF PoolInv, Cached
<1>3. LsnInv' /\ StampedInv'
  BY DEF LsnInv, StampedInv
<1>4. Rule
  BY DEF Rule, LogAhead
<1> QED
  BY <1>2, <1>3, <1>4 DEF StateInv

\* A dead process holds neither.
LEMMA ForgetStep ==
    ASSUME Forget, UNCHANGED disk, LsnsAhead(log'), Range(log'.buf) = {}
    PROVE  StateInv' /\ Rule
<1>1. pool' = EmptyPool /\ pending' = Nothing /\ disk' = disk
  BY DEF Forget
<1>2. PoolInv'
  BY <1>1, EmptyPoolHoldsNothing, NothingIsNoPage DEF PoolInv, Cached
<1>3. LsnInv' /\ StampedInv'
  BY DEF LsnInv, StampedInv
<1>4. Rule
  BY <1>1 DEF Rule, LogAhead
<1> QED
  BY <1>2, <1>3, <1>4 DEF StateInv

LEMMA TxBegin_Wal ==
    ASSUME WalInv, NEW n \in Names, TxBegin(n)
    PROVE  StateInv' /\ Rule
<1>1. UNCHANGED <<disk, log, filePages, pool, pending>>
      /\ pc' \in {"idle", "ckptbegin"}
  BY DEF TxBegin, durable, MaybeCheckpoint
<1> QED
  BY <1>1, QuietStep DEF WalInv, LsnInv, Recovering

LEMMA GetPage_Wal ==
    ASSUME WalInv, NEW p \in Pages, GetPage(p)
    PROVE  StateInv' /\ Rule
<1>1. /\ pc = "idle" /\ pc' = pc /\ pending' = pending /\ pending.page = NoPage
      /\ p[2] < filePages[p[1]]
  BY DEF GetPage, Ready, WalInv, TypeInv, ScanInv, Allocated
<1>2. /\ pool \in Pool /\ HeldOnce(pool.order) /\ disk[p] \in Image
      /\ pool.frame[p].data \in Image /\ pool.frame[p].dirty \in BOOLEAN
      /\ pool.frame[p] = [data  |-> pool.frame[p].data,
                          dirty |-> pool.frame[p].dirty]
  BY DEF WalInv, TypeInv, TypeOK, PoolInv, Pool, Frame
<1>3. filePages \in PageCounts /\ \A f \in Files : filePages[f] <= filePages[f]
  BY LogBounds DEF WalInv, TypeInv, TypeOK, PageCounts
<1>4. CASE /\ Cached(p)
           /\ pool' = Touch(pool, p, pool.frame[p].data, pool.frame[p].dirty)
           /\ UNCHANGED <<disk, fileSize, filePages, log, dpt>>
  <2>1. /\ HeldOnce(pool'.order) /\ Range(pool'.order) = Range(pool.order)
        /\ \A q \in Pages : pool'.frame[q] = pool.frame[q]
    <3> DEFINE img == pool.frame[p].data
               d   == pool.frame[p].dirty
    <3>1. /\ img \in Image /\ d \in BOOLEAN
          /\ pool.frame[p] = [data |-> img, dirty |-> d]
          /\ pool' = Touch(pool, p, img, d)
      BY <1>2, <1>4
    <3> HIDE DEF img, d
    <3>2. /\ HeldOnce(pool'.order)
          /\ Range(pool'.order) = Range(pool.order) \cup {p}
          /\ pool'.frame[p] = pool.frame[p]
          /\ \A q \in Pages : q # p => pool'.frame[q] = pool.frame[q]
      BY <1>2, <3>1, TouchFrames
    <3>3. p \in Range(pool.order)
      BY <1>4 DEF Cached
    <3> QED
      BY <3>2, <3>3
  <2>2. PoolInv'
    BY <1>1, <1>4, <2>1 DEF WalInv, PoolInv, Cached, Allocated, Recovering
  <2>3. LsnInv'
    BY <1>1, <1>4 DEF WalInv, LsnInv
  <2>4. StampedInv'
    <3>1. ASSUME NEW rec \in Range(log.buf), rec.type = "update"
          PROVE  pool'.frame[rec.page] = pool.frame[rec.page]
      BY <2>1, <3>1, BufferedRecord DEF WalInv, TypeInv
    <3> QED
      BY <1>1, <1>4, <3>1 DEF WalInv, StampedInv
  <2> QED
    BY <1>4, <2>2, <2>3, <2>4 DEF StateInv, Rule, LogAhead
<1>5. CASE ~Cached(p) /\ MakeRoomFor(p, disk[p], FALSE, filePages)
  <2>1. /\ LsnsAhead(log') /\ Range(log'.buf) \subseteq Range(log.buf)
        /\ HeldOnce(pool'.order)
        /\ pool'.frame[p] = [data |-> disk[p], dirty |-> FALSE]
        /\ \A q \in Pages : pool'.frame[q].dirty => q \in Range(pool'.order)
        /\ \A q \in Pages :
              q \in Range(pool'.order) => q[2] < filePages'[q[1]]
        /\ \A rec \in Range(log'.buf) :
              rec.type = "update" /\ rec.page # p =>
                 /\ pool'.frame[rec.page].dirty
                 /\ ReadPageLsn(pool'.frame[rec.page].data) >= rec.lsn
        /\ \A q \in Pages : LogAhead(q)
    BY <1>1, <1>2, <1>3, <1>5, MakeRoomRule
  <2>2. PoolInv'
    BY <1>1, <2>1 DEF PoolInv, Cached, Allocated, Recovering
  <2>3. LsnInv'
    BY <1>1, <2>1 DEF LsnInv, Recovering
  <2>4. ASSUME NEW rec \in Range(log'.buf), rec.type = "update"
        PROVE  rec.page # p /\ rec.page # NoPage
    <3>1. rec \in Range(log.buf) /\ rec.page \in Pages
      BY <2>1, <2>4, BufferedRecord DEF WalInv, TypeInv
    <3>2. rec.page # NoPage /\ pool.frame[rec.page].dirty
      BY <1>1, <2>4, <3>1, EngineConfig DEF WalInv, StampedInv
    <3> QED
      BY <1>5, <3>1, <3>2 DEF WalInv, PoolInv
  <2>5. StampedInv'
    BY <1>1, <2>1, <2>4 DEF StampedInv
  <2> QED
    BY <2>1, <2>2, <2>3, <2>5 DEF StateInv, Rule
<1> QED
  BY <1>4, <1>5 DEF GetPage

LEMMA AllocatePage_Wal ==
    ASSUME WalInv, NEW p \in Pages, AllocatePage(p)
    PROVE  StateInv' /\ Rule
<1> DEFINE counts == [filePages EXCEPT ![p[1]] = p[2] + 1]
<1>1. /\ pc = "idle" /\ pc' = pc /\ pending' = pending /\ pending.page = NoPage
      /\ p[2] = filePages[p[1]]
      /\ MakeRoomFor(p, ZeroImage, TRUE, counts)
  BY DEF AllocatePage, Ready, WalInv, TypeInv, ScanInv
<1>2. /\ p[1] \in Files /\ p[2] \in 0 .. (MaxPages - 1)
      /\ filePages \in PageCounts /\ ZeroImage \in Image
  BY PageParts DEF WalInv, TypeInv, TypeOK, PageCounts, ZeroImage, Image
<1>3. /\ counts \in PageCounts /\ p[2] < counts[p[1]]
      /\ \A f \in Files : filePages[f] <= counts[f]
  <2>1. \A f \in Files : filePages[f] \in 0 .. MaxPages
    BY <1>2 DEF PageCounts
  <2>2. \A f \in Files : counts[f] = IF f = p[1] THEN p[2] + 1 ELSE filePages[f]
    BY <1>2 DEF PageCounts
  <2>3. p[2] + 1 \in 0 .. MaxPages /\ p[2] \in Nat
    BY <1>2, LogBounds
  <2>4. counts \in PageCounts
    BY <1>2, <2>3 DEF PageCounts
  <2> QED
    BY <1>1, <1>2, <2>1, <2>2, <2>3, <2>4, LogBounds
<1>4. ~Cached(p)
  <2>1. ~Allocated(p)
    BY <1>1, <1>2, LogBounds DEF Allocated
  <2> QED
    BY <2>1 DEF WalInv, PoolInv
<1> HIDE DEF counts
<1>5. /\ LsnsAhead(log') /\ Range(log'.buf) \subseteq Range(log.buf)
      /\ HeldOnce(pool'.order)
      /\ \A q \in Pages : pool'.frame[q].dirty => q \in Range(pool'.order)
      /\ \A q \in Pages :
            q \in Range(pool'.order) => q[2] < filePages'[q[1]]
      /\ \A rec \in Range(log'.buf) :
            rec.type = "update" /\ rec.page # p =>
               /\ pool'.frame[rec.page].dirty
               /\ ReadPageLsn(pool'.frame[rec.page].data) >= rec.lsn
      /\ \A q \in Pages : LogAhead(q)
  BY <1>1, <1>2, <1>3, <1>4, MakeRoomRule
<1>6. PoolInv'
  BY <1>1, <1>5 DEF PoolInv, Cached, Allocated, Recovering
<1>7. LsnInv'
  BY <1>1, <1>5 DEF LsnInv, Recovering
<1>8. ASSUME NEW rec \in Range(log'.buf), rec.type = "update"
      PROVE  rec.page # p /\ rec.page # NoPage
  <2>1. rec \in Range(log.buf) /\ rec.page \in Pages
    BY <1>5, <1>8, BufferedRecord DEF WalInv, TypeInv
  <2>2. rec.page # NoPage /\ pool.frame[rec.page].dirty
    BY <1>1, <1>8, <2>1, EngineConfig DEF WalInv, StampedInv
  <2> QED
    BY <1>4, <2>1, <2>2 DEF WalInv, PoolInv
<1>9. StampedInv'
  BY <1>1, <1>5, <1>8 DEF StampedInv
<1> QED
  BY <1>5, <1>6, <1>7, <1>9 DEF StateInv, Rule

LEMMA WritePage_Wal ==
    ASSUME WalInv, NEW n \in Names, NEW p \in Pages, NEW cells \in WriteSets,
           NEW v \in Values, WritePage(n, p, cells, v)
    PROVE  StateInv' /\ Rule
<1> DEFINE x       == openTx[n]
           before  == CurrentBytes(p)
           changed == [o \in Offsets |-> IF o \in cells THEN v ELSE before[o]]
           stamped == WritePageLsn(changed, log.next)
           rec     == UpdateOf(x, p, before, stamped)
<1>1. /\ x \in Xids /\ log.next \in Nat /\ log \in LogState /\ TypeInv
      /\ LsnsAhead(log)
  BY DEF WritePage, WalInv, TypeInv, TypeOK, LogState, LsnInv
<1>2. before \in Image
  BY DEF CurrentBytes, WalInv, TypeInv, TypeOK, Pool, Frame
<1>3. changed \in Image
  BY <1>2, RuntimeConfig DEF Image
<1>4. stamped \in Image /\ ReadPageLsn(stamped) = log.next
  BY <1>1, <1>3, StampRead
<1>5. rec \in LogRecord
  BY <1>1, <1>2, <1>4, UpdateOfType
<1>6. rec.lsn = log.next /\ rec.page = p
  BY DEF UpdateOf
<1> HIDE DEF x, before, changed
<1>7. /\ pending' = [page |-> p, data |-> stamped] /\ pc = "idle"
      /\ pc' \in {"install", "ckptbegin"} /\ Allocated(p)
      /\ UNCHANGED <<disk, filePages, pool>>
      /\ \/ log' = Emit(log, rec)
         \/ log' = TakeLsn(log)
  BY DEF WritePage, Ready, durable, MaybeCheckpoint, x, before, changed
<1> HIDE DEF stamped, rec
<1>8. /\ LsnsAhead(log')
      /\ Range(log'.buf) \subseteq Range(log.buf) \cup {rec}
  <2>1. CASE log' = Emit(log, rec)
    BY <1>1, <1>5, <1>6, <2>1, EmitBuf
  <2>2. CASE log' = TakeLsn(log)
    <3>1. /\ log'.next = log.next + 1 /\ log'.buf = log.buf
          /\ log'.flushed = log.flushed
      BY <1>1, <2>2, TakeLsnType
    <3>2. log.flushed \in Int
      BY <1>1 DEF LogState, Lsns, NoLsn
    <3>3. \A r \in Range(log.buf) : r.lsn \in Nat
      BY BufferedRecord DEF WalInv, TypeInv
    <3> QED
      BY <1>1, <3>1, <3>2, <3>3 DEF LsnsAhead
  <2> QED
    BY <1>7, <2>1, <2>2
<1>9. PoolInv'
  BY <1>7 DEF WalInv, PoolInv, Cached, Allocated, Recovering
<1>10. LsnInv'
  BY <1>7, <1>8 DEF LsnInv, Recovering
<1>11. pending.page = NoPage
  BY <1>7 DEF WalInv, TypeInv, ScanInv
<1>12. ASSUME NEW r \in Range(log'.buf), r.type = "update"
       PROVE  IF p = r.page THEN ReadPageLsn(stamped) >= r.lsn
              ELSE /\ pool.frame[r.page].dirty
                   /\ ReadPageLsn(pool.frame[r.page].data) >= r.lsn
  <2>1. CASE r = rec
    BY <1>1, <1>4, <1>6, <2>1
  <2>2. CASE r \in Range(log.buf)
    <3>1. r.page \in Pages /\ r.page # NoPage /\ r.lsn \in Nat
      BY <1>12, <2>2, BufferedRecord, EngineConfig DEF WalInv, TypeInv
    <3>2. /\ pool.frame[r.page].dirty
          /\ ReadPageLsn(pool.frame[r.page].data) >= r.lsn
      BY <1>11, <1>12, <2>2, <3>1 DEF WalInv, StampedInv
    <3>3. r.lsn < log.next
      BY <1>1, <2>2 DEF LsnsAhead
    <3> QED
      BY <1>1, <1>4, <3>1, <3>2, <3>3
  <2> QED
    BY <1>8, <2>1, <2>2
<1>13. StampedInv'
  BY <1>7, <1>12 DEF StampedInv
<1> QED
  BY <1>7, <1>9, <1>10, <1>13 DEF StateInv, Rule, LogAhead

LEMMA Install_Wal ==
    ASSUME WalInv, Install
    PROVE  StateInv' /\ Rule
<1> DEFINE p == pending.page
<1>1. /\ p \in Pages /\ pending.data \in Image /\ filePages \in PageCounts
      /\ pc' = "idle" /\ pending' = Nothing /\ TypeOK
      /\ pool \in Pool /\ HeldOnce(pool.order) /\ p[2] < filePages[p[1]]
  BY DEF WalInv, TypeInv, TypeOK, ScanInv, Install, PageCounts, PoolInv, Allocated
<1>2. \A f \in Files : filePages[f] <= filePages[f]
  BY <1>1, LogBounds DEF PageCounts
<1>3. /\ LsnsAhead(log') /\ Range(log'.buf) \subseteq Range(log.buf)
      /\ HeldOnce(pool'.order)
      /\ pool'.frame[p] = [data |-> pending.data, dirty |-> TRUE]
      /\ \A q \in Pages : pool'.frame[q].dirty => q \in Range(pool'.order)
      /\ \A q \in Pages :
            q \in Range(pool'.order) => q[2] < filePages'[q[1]]
      /\ \A rec \in Range(log'.buf) :
            rec.type = "update" /\ rec.page # p =>
               /\ pool'.frame[rec.page].dirty
               /\ ReadPageLsn(pool'.frame[rec.page].data) >= rec.lsn
      /\ \A q \in Pages : LogAhead(q)
  <2>1. CASE /\ pool' = Touch(pool, p, pending.data, TRUE)
             /\ UNCHANGED <<disk, fileSize, filePages, log, dpt>>
    <3>1. /\ HeldOnce(pool'.order)
          /\ Range(pool'.order) = Range(pool.order) \cup {p}
          /\ pool'.frame[p] = [data |-> pending.data, dirty |-> TRUE]
          /\ \A q \in Pages : q # p => pool'.frame[q] = pool.frame[q]
      BY <1>1, <2>1, TouchFrames
    <3>2. \A q \in Pages : pool'.frame[q].dirty => q \in Range(pool'.order)
      BY <3>1 DEF WalInv, PoolInv, Cached
    <3>3. \A q \in Pages :
             q \in Range(pool'.order) => q[2] < filePages'[q[1]]
      BY <1>1, <2>1, <3>1 DEF WalInv, PoolInv, Cached, Allocated
    <3>4. ASSUME NEW rec \in Range(log.buf), rec.type = "update", rec.page # p
          PROVE  /\ pool'.frame[rec.page].dirty
                 /\ ReadPageLsn(pool'.frame[rec.page].data) >= rec.lsn
      <4>1. rec.page \in Pages
        BY <1>1, <3>4, BufferedRecord
      <4> QED
        BY <3>1, <3>4, <4>1 DEF WalInv, StampedInv
    <3> QED
      BY <2>1, <3>1, <3>2, <3>3, <3>4 DEF WalInv, LsnInv, LogAhead
  <2>2. CASE ~Cached(p) /\ MakeRoomFor(p, pending.data, TRUE, filePages)
    BY <1>1, <1>2, <2>2, MakeRoomRule
  <2> QED
    BY <2>1, <2>2 DEF Install
<1>4. PoolInv'
  BY <1>1, <1>3, NothingIsNoPage DEF PoolInv, Cached, Allocated, Recovering
<1>5. LsnInv'
  BY <1>1, <1>3 DEF LsnInv, Recovering
<1>6. ASSUME NEW rec \in Range(log'.buf), rec.type = "update"
      PROVE  /\ rec.page # NoPage
             /\ pool'.frame[rec.page].dirty
             /\ ReadPageLsn(pool'.frame[rec.page].data) >= rec.lsn
  <2>1. rec \in Range(log.buf) /\ rec.page \in Pages /\ rec.page # NoPage
    BY <1>1, <1>3, <1>6, BufferedRecord, EngineConfig
  <2>2. CASE rec.page = p
    BY <1>3, <1>6, <2>1, <2>2 DEF WalInv, StampedInv
  <2>3. CASE rec.page # p
    BY <1>3, <1>6, <2>1, <2>3
  <2> QED
    BY <2>1, <2>2, <2>3
<1>7. StampedInv'
  BY <1>1, <1>6, NothingIsNoPage DEF StampedInv
<1> QED
  BY <1>3, <1>4, <1>5, <1>7 DEF StateInv, Rule

\* A record that changes no page enters the buffer and changes no page.
LEMMA EmitQuiet ==
    ASSUME WalInv, NEW rec \in LogRecord, rec.lsn = log.next,
           rec.type # "update"
    PROVE  /\ LsnsAhead(Emit(log, rec)) /\ Emit(log, rec) \in LogState
           /\ \A r \in Range(Emit(log, rec).buf) :
                 r \in Range(log.buf) \/ r.type # "update"
           /\ LsnsAhead(FlushLog(Emit(log, rec)))
           /\ Range(FlushLog(Emit(log, rec)).buf) = {}
<1>1. log \in LogState /\ LsnsAhead(log)
  BY DEF WalInv, TypeInv, TypeOK, LsnInv
<1>2. /\ LsnsAhead(Emit(log, rec)) /\ Emit(log, rec) \in LogState
      /\ Range(Emit(log, rec).buf) \subseteq Range(log.buf) \cup {rec}
  BY <1>1, EmitBuf, EmitType
<1> QED
  BY <1>2, FlushBuf

\* A commit or an end record.
LEMMA TxRecQuiet ==
    ASSUME WalInv, NEW x \in Xids, NEW t \in {"commit", "end"}
    PROVE  /\ LsnsAhead(Emit(log, TxRec(t, x)))
           /\ \A r \in Range(Emit(log, TxRec(t, x)).buf) :
                 r \in Range(log.buf) \/ r.type # "update"
           /\ LsnsAhead(FlushLog(Emit(log, TxRec(t, x))))
           /\ Range(FlushLog(Emit(log, TxRec(t, x))).buf) = {}
<1>1. TxRec(t, x) \in LogRecord
  BY TxRecType DEF WalInv
<1>2. TxRec(t, x).lsn = log.next /\ TxRec(t, x).type # "update"
  BY DEF TxRec
<1> QED
  BY <1>1, <1>2, EmitQuiet

LEMMA CheckpointBegin_Wal ==
    ASSUME WalInv, CheckpointBegin
    PROVE  StateInv' /\ Rule
<1> DEFINE rec == [type |-> "begin_chkpt", lsn |-> log.next, prev |-> NoLsn,
                   xid |-> SysXid]
<1>1. log.next \in Nat
  BY DEF WalInv, TypeInv, TypeOK, LogState
<1>2. rec \in LogRecord /\ rec.lsn = log.next /\ rec.type # "update"
  BY <1>1 DEF LogRecord, BeginRecord
<1>3. log' = Emit(log, rec) /\ pc' = "ckptend"
      /\ UNCHANGED <<disk, filePages, pool, pending>>
  BY DEF CheckpointBegin, durable
<1> HIDE DEF rec
<1>4. /\ LsnsAhead(log')
      /\ \A r \in Range(log'.buf) : r \in Range(log.buf) \/ r.type # "update"
  BY <1>2, <1>3, EmitQuiet
<1> QED
  BY <1>3, <1>4, QuietStep DEF Recovering

LEMMA CheckpointEnd_Wal ==
    ASSUME WalInv, CheckpointEnd
    PROVE  StateInv' /\ Rule
<1>1. EndCheckpointRec \in LogRecord
  BY DEF LogRecord, EndRecord, EndCheckpointRec, WalInv, TypeInv, TypeOK,
         LogState
<1>2. EndCheckpointRec.lsn = log.next /\ EndCheckpointRec.type # "update"
  BY DEF EndCheckpointRec
<1>3. /\ log' = FlushLog(Emit(log, EndCheckpointRec)) /\ pc' = "master"
      /\ UNCHANGED <<disk, filePages, pool, pending>>
  BY DEF CheckpointEnd, durable
<1>4. LsnsAhead(log') /\ Range(log'.buf) = {}
  BY <1>1, <1>2, <1>3, EmitQuiet
<1> QED
  BY <1>3, <1>4, QuietStep DEF Recovering

LEMMA WriteMaster_Wal ==
    ASSUME WalInv, WriteMaster
    PROVE  StateInv' /\ Rule
<1>1. /\ pc' \in {"idle", "install"}
      /\ UNCHANGED <<disk, log, filePages, pool, pending>>
  BY DEF WriteMaster
<1> QED
  BY <1>1, QuietStep DEF WalInv, LsnInv, Recovering

LEMMA CommitRecord_Wal ==
    ASSUME WalInv, NEW n \in Names, CommitRecord(n)
    PROVE  StateInv' /\ Rule
<1> DEFINE x == openTx[n]
<1>1. x \in Xids
  BY DEF CommitRecord, WalInv, TypeInv, TypeOK
<1>2. /\ log' = FlushLog(Emit(log, TxRec("commit", x))) /\ pc' = "end"
      /\ UNCHANGED <<disk, filePages, pool, pending>>
  BY DEF CommitRecord, durable
<1> HIDE DEF x
<1>3. LsnsAhead(log') /\ Range(log'.buf) = {}
  BY <1>1, <1>2, TxRecQuiet
<1> QED
  BY <1>2, <1>3, QuietStep DEF Recovering

LEMMA CommitEnd_Wal ==
    ASSUME WalInv, CommitEnd
    PROVE  StateInv' /\ Rule
<1>1. scan \in Xids
  BY DEF CommitEnd, WalInv, TypeInv, ScanInv
<1>2. /\ log' = FlushLog(Emit(log, TxRec("end", scan))) /\ pc' = "idle"
      /\ UNCHANGED <<disk, filePages, pool, pending>>
  BY DEF CommitEnd, durable
<1>3. LsnsAhead(log') /\ Range(log'.buf) = {}
  BY <1>1, <1>2, TxRecQuiet
<1> QED
  BY <1>2, <1>3, QuietStep DEF Recovering

LEMMA FlushControl_Wal ==
    ASSUME WalInv, StartFlush \/ Shutdown \/ FlushDone
    PROVE  StateInv' /\ Rule
<1>1. /\ pc' \in {"flush", "exit", "idle"}
      /\ UNCHANGED <<disk, log, filePages, pool, pending>>
  BY DEF StartFlush, Shutdown, FlushDone, durable
<1> QED
  BY <1>1, QuietStep DEF WalInv, LsnInv, Recovering

LEMMA FlushPage_Wal ==
    ASSUME WalInv, NEW p \in Pages, FlushPage(p)
    PROVE  StateInv' /\ Rule
<1>1. /\ pc \in {"flush", "exit"} /\ pc' = pc /\ pending' = pending
      /\ pending.page = NoPage /\ pool' = MarkClean(pool, p)
      /\ WriteBack(p, filePages)
  BY DEF FlushPage, WalInv, TypeInv, ScanInv
<1>2. p # pending.page
  BY <1>1, EngineConfig
<1>3. /\ LsnsAhead(log') /\ Range(log'.buf) \subseteq Range(log.buf)
      /\ \A rec \in Range(log'.buf) : ~IsUpdateOn(rec, p)
      /\ \A q \in Pages : LogAhead(q)
  BY <1>1, <1>2, WriteBackRule
<1>4. /\ pool'.order = pool.order
      /\ ~pool'.frame[p].dirty
      /\ \A q \in Pages : q # p => pool'.frame[q] = pool.frame[q]
  BY <1>1, CleanFrames DEF WalInv, TypeInv, TypeOK
<1>5. \A f \in Files : filePages[f] <= filePages'[f]
  BY <1>1, GrownCounts DEF WriteBack, DiskWrite, WalInv, TypeInv, TypeOK,
                           PageCounts
<1>6. \A q \in Pages : q[2] < filePages[q[1]] => q[2] < filePages'[q[1]]
  <2>1. \A q \in Pages : /\ q[1] \in Files /\ q[2] \in Int
                         /\ filePages[q[1]] \in Int /\ filePages'[q[1]] \in Int
    <3>1. filePages \in PageCounts /\ filePages' \in PageCounts
      BY <1>1, WriteBackType DEF WalInv, TypeInv, TypeOK, PageCounts
    <3> QED
      BY <3>1, PageParts, LogBounds DEF PageCounts
  <2> QED
    BY <1>5, <2>1
<1>7. PoolInv'
  BY <1>1, <1>4, <1>6 DEF WalInv, PoolInv, Cached, Allocated, Recovering
<1>8. LsnInv'
  BY <1>1, <1>3 DEF LsnInv, Recovering
<1>9. ASSUME NEW rec \in Range(log'.buf), rec.type = "update"
      PROVE  /\ rec.page # NoPage
             /\ pool'.frame[rec.page].dirty
             /\ ReadPageLsn(pool'.frame[rec.page].data) >= rec.lsn
  <2>1. rec \in Range(log.buf) /\ rec.page \in Pages /\ rec.page # NoPage
        /\ rec.page # p
    BY <1>3, <1>9, BufferedRecord, EngineConfig DEF WalInv, TypeInv, IsUpdateOn
  <2> QED
    BY <1>1, <1>4, <1>9, <2>1 DEF WalInv, StampedInv
<1>10. StampedInv'
  BY <1>1, <1>9 DEF StampedInv
<1> QED
  BY <1>3, <1>7, <1>8, <1>10 DEF StateInv, Rule

-----------------------------------------------------------------------------
(* The end of a process, and recovery *)

LEMMA Kill_Wal ==
    ASSUME WalInv, Kill
    PROVE  StateInv' /\ Rule
<1>1. PICK n \in 0 .. Len(log.buf) :
         log' = ReopenLog(log.stable \o SubSeq(log.buf, 1, n))
  BY DEF Kill
<1>2. log.stable \in Seq(LogRecord) /\ log.buf \in Seq(LogRecord)
  BY DEF WalInv, TypeInv, TypeOK, LogState
<1>3. log.stable \o SubSeq(log.buf, 1, n) \in Seq(LogRecord)
  <2>1. SubSeq(log.buf, 1, n) \in Seq(LogRecord)
    BY <1>2
  <2> QED
    BY <1>2, <2>1, AppendedType
<1>4. LsnsAhead(log') /\ Range(log'.buf) = {}
  BY <1>1, <1>3, ReopenBuf
<1> QED
  BY <1>4, ForgetStep DEF Kill

LEMMA ExitDone_Wal ==
    ASSUME WalInv, ExitDone
    PROVE  StateInv' /\ Rule
<1>1. FlushLog(log).stable \in Seq(LogRecord)
  BY FlushType DEF WalInv, TypeInv, TypeOK, LogState
<1>2. LsnsAhead(log') /\ Range(log'.buf) = {}
  BY <1>1, ReopenBuf DEF ExitDone
<1> QED
  BY <1>2, ForgetStep DEF ExitDone, durable

LEMMA Restart_Wal ==
    ASSUME WalInv, Restart
    PROVE  StateInv' /\ Rule
<1>1. /\ pc = "down" /\ log' = ReopenLog(log.stable)
      /\ UNCHANGED <<disk, pool, pending>>
  BY DEF Restart, durable
<1>2. LsnsAhead(log') /\ Range(log'.buf) = {}
  BY <1>1, ReopenBuf DEF WalInv, TypeInv, TypeOK, LogState
<1> QED
  BY <1>1, <1>2, RecoveryStep

\* The steps of recovery that emit nothing.
LEMMA RecoverySilent ==
    ASSUME WalInv, pc \in Recovering, UNCHANGED <<log, pool, pending>>
    PROVE  StateInv' /\ Rule
  BY RecoveryStep DEF WalInv, LsnInv

LEMMA RecoveryScan_Wal ==
    ASSUME WalInv,
           \/ AnalyzeRecord \/ AnalysisDone
           \/ RedoSkip \/ RedoApply \/ EnsurePageExists \/ RedoFresh \/ RedoDone
           \/ \E x \in Xids : UndoRecord(x)
           \/ UndoDone
    PROVE  StateInv' /\ Rule
<1>1. CASE AnalyzeRecord \/ AnalysisDone \/ RedoDone \/ UndoDone
  BY <1>1, RecoverySilent DEF AnalyzeRecord, AnalysisDone, RedoDone, UndoDone,
                              Recovering
<1>2. CASE RedoSkip \/ RedoApply \/ EnsurePageExists \/ RedoFresh
  BY <1>2, RecoverySilent DEF RedoSkip, RedoApply, EnsurePageExists, RedoFresh,
                              Redoing, Recovering
<1>3. CASE \E x \in Xids : UndoRecord(x)
  BY <1>3, RecoverySilent DEF UndoRecord, Recovering
<1> QED
  BY <1>1, <1>2, <1>3

\* The end records of losers and of finished commits.
LEMMA RecoveryEnds_Wal ==
    ASSUME WalInv, EndLoser \/ (\E x \in Xids : FinishCommitted(x))
    PROVE  StateInv' /\ Rule
<1>1. pc \in Recovering /\ UNCHANGED <<pool, pending>>
  BY DEF EndLoser, FinishCommitted, Recovering
<1>2. \E x \in Xids : log' = Emit(log, TxRec("end", x))
  <2>1. EndLoser => scan \in Xids
    BY DEF EndLoser, WalInv, TypeInv, ScanInv
  <2> QED
    BY <2>1 DEF EndLoser, FinishCommitted, EmitEnd
<1>3. /\ LsnsAhead(log')
      /\ \A r \in Range(log'.buf) : r \in Range(log.buf) \/ r.type # "update"
  BY <1>2, TxRecQuiet
<1>4. \A r \in Range(log'.buf) : r.type # "update"
  BY <1>1, <1>3 DEF WalInv, LsnInv
<1> QED
  BY <1>1, <1>3, <1>4, RecoveryStep

LEMMA RecoveryDone_Wal ==
    ASSUME WalInv, RecoveryDone
    PROVE  StateInv' /\ Rule
<1>1. /\ pc \in Recovering /\ log' = FlushLog(log)
      /\ UNCHANGED <<pool, pending>>
  BY DEF RecoveryDone, Recovering
<1>2. LsnsAhead(log') /\ Range(log'.buf) = {}
  BY <1>1, FlushBuf DEF WalInv, TypeInv, TypeOK, LsnInv
<1> QED
  BY <1>1, <1>2, RecoveryStep

LEMMA Boot_Wal ==
    ASSUME WalInv, Boot
    PROVE  StateInv' /\ Rule
<1> DEFINE first == <<CatalogFile, 0>>
<1>1. /\ pc = "boot" /\ pc' = "idle" /\ pending.page = NoPage
      /\ UNCHANGED <<disk, log, pending>>
      /\ pool = EmptyPool /\ pool \in Pool
  BY DEF Boot, durable, WalInv, TypeInv, TypeOK, ScanInv, PoolInv, Recovering
<1>2. \A rec \in Range(log.buf) : rec.type # "update"
  BY <1>1 DEF WalInv, LsnInv, Recovering
<1>3. LsnInv' /\ StampedInv'
  BY <1>1, <1>2 DEF WalInv, LsnInv, StampedInv, Recovering
<1>4. PoolInv'
  <2>1. CASE Allocated(first)
    BY <1>1, <2>1, EmptyPoolHoldsNothing
       DEF Boot, PoolInv, Cached, Recovering
  <2>2. CASE ~Allocated(first)
    <3>1. first \in Pages /\ BlankCatalog \in Image
      BY RuntimeConfig, LogBounds
         DEF Pages, BlankCatalog, ZeroImage, Image, DataCells
    <3>2. pool' = Touch(pool, first, BlankCatalog, TRUE)
          /\ filePages' = [filePages EXCEPT ![CatalogFile] = 1]
      BY <2>2 DEF Boot
    <3>3. HeldOnce(pool.order) /\ Range(pool.order) = {}
          /\ \A q \in Pages : ~pool.frame[q].dirty
      BY <1>1, EmptyPoolHoldsNothing
    <3> HIDE DEF first
    <3>4. /\ HeldOnce(pool'.order)
          /\ Range(pool'.order) = Range(pool.order) \cup {first}
          /\ \A q \in Pages : q # first => pool'.frame[q] = pool.frame[q]
      <4>1. pool \in Pool /\ HeldOnce(pool.order)
        BY <1>1, <3>3
      <4> DEFINE blank == BlankCatalog
      <4>2. blank \in Image /\ first \in Pages
            /\ pool' = Touch(pool, first, blank, TRUE)
        BY <3>1, <3>2
      <4> HIDE DEF blank
      <4> QED
        BY <4>1, <4>2, TouchFrames
    <3>5. first[2] < filePages'[first[1]]
      BY <3>2, RuntimeConfig DEF WalInv, TypeInv, TypeOK, first
    <3> QED
      BY <1>1, <3>3, <3>4, <3>5 DEF PoolInv, Cached, Allocated, Recovering
  <2> QED
    BY <2>1, <2>2
<1>5. Rule
  BY <1>1 DEF Rule, LogAhead
<1> QED
  BY <1>3, <1>4, <1>5 DEF StateInv

-----------------------------------------------------------------------------
(* The theorems *)

LEMMA Init_Wal == Init => WalInv
<1> SUFFICES ASSUME Init PROVE WalInv
  OBVIOUS
<1>1. TypeInv
  BY Init_Type
<1>2. LsnsAhead(log) /\ Range(log.buf) = {}
  <2>1. << >> \in Seq(LogRecord)
    OBVIOUS
  <2> QED
    BY <2>1, ReopenBuf DEF Init
<1>3. PoolInv
  BY EmptyPoolHoldsNothing, NothingIsNoPage DEF Init, PoolInv, Cached
<1>4. LsnInv /\ StampedInv
  BY <1>2 DEF LsnInv, StampedInv
<1> QED
  BY <1>1, <1>3, <1>4 DEF WalInv

\* Both halves of the argument: a step keeps the invariant, and a step from
\* a state that satisfies it obeys the rule.
LEMMA Next_Wal ==
    ASSUME WalInv, [Next]_vars
    PROVE  WalInv' /\ Rule
<1>1. CASE UNCHANGED vars
  BY <1>1 DEF vars, WalInv, TypeInv, TypeOK, ScanInv, PoolInv, LsnInv,
              StampedInv, Cached, Allocated, Rule, LogAhead
<1>2. CASE Serve
  BY <1>2, TxBegin_Wal, CommitRecord_Wal, GetPage_Wal, AllocatePage_Wal,
     WritePage_Wal, FlushControl_Wal, Next_Type DEF Serve, WalInv, StateInv
<1>3. CASE Continue
  BY <1>3, Install_Wal, CheckpointBegin_Wal, CheckpointEnd_Wal,
     WriteMaster_Wal, CommitEnd_Wal, FlushPage_Wal, FlushControl_Wal,
     ExitDone_Wal, Next_Type DEF Continue, WalInv, StateInv
<1>4. CASE Recover
  BY <1>4, RecoveryScan_Wal, RecoveryEnds_Wal, RecoveryDone_Wal, Boot_Wal,
     Next_Type DEF Recover, WalInv, StateInv
<1>5. CASE Restart \/ Kill
  BY <1>5, Restart_Wal, Kill_Wal, Next_Type DEF WalInv, StateInv
<1> QED
  BY <1>1, <1>2, <1>3, <1>4, <1>5 DEF Next

\* A change whose log record is still in memory is in memory itself: in the
\* page being written or in a dirty frame, stamped with that LSN or a later
\* one, for every pool size, buffer size, policy and input (log_page_update
\* and write_page against _make_room and flush).
THEOREM WalInvariant == Spec => []WalInv
  BY Init_Wal, Next_Wal, PTL DEF Spec

\* WAL #1: whenever the pool writes a page to its file, by eviction or by
\* flush, the log records of the page, and all records up to its pageLSN,
\* have left the log buffer (_wal_before_flush).
THEOREM WriteAhead == Spec => WriteAheadRule
<1> DEFINE Obeys ==
      \A p \in Pages :
          (disk'[p] # disk[p] /\ pc \notin Recovering) =>
              \A rec \in Range(log'.buf) :
                  ~IsUpdateOn(rec, p) /\ rec.lsn > ReadPageLsn(disk'[p])
<1>1. ASSUME WalInv, [Next]_vars PROVE Obeys
  BY <1>1, Next_Wal DEF Rule, LogAhead
<1>2. Spec => [][Obeys]_vars
  BY <1>1, WalInvariant, PTL DEF Spec
<1> QED
  BY <1>2 DEF WriteAheadRule

-----------------------------------------------------------------------------
(* The length of the pool's order *)

\* A page that is taken out of the order makes it one shorter.
LEMMA WithoutLen ==
    ASSUME NEW s \in Seq(Pages), NEW p \in Pages
    PROVE  /\ Without(s, p) \in Seq(Pages)
           /\ Len(Without(s, p)) =
                 IF p \in Range(s) THEN Len(s) - 1 ELSE Len(s)
<1>1. Without(s, p) \in Seq(Pages)
  BY WithoutType
<1>2. CASE p \notin Range(s)
  BY <1>2 DEF Without
<1>3. CASE p \in Range(s)
  <2> DEFINE i == CHOOSE i \in DOMAIN s : s[i] = p
             w == [j \in 1 .. (Len(s) - 1) |-> IF j < i THEN s[j] ELSE s[j + 1]]
  <2>1. Without(s, p) = w
    BY <1>3 DEF Without
  <2>2. Len(s) \in Nat /\ DOMAIN s = 1 .. Len(s) /\ DOMAIN s # {}
    BY <1>3 DEF Range
  <2>3. DOMAIN w = 1 .. (Len(s) - 1) /\ Len(s) - 1 \in Nat
    BY <2>2
  <2> HIDE DEF w
  <2>4. w \in Seq(Pages)
    BY <1>1, <2>1
  <2>5. Len(w) = Len(s) - 1
    BY <2>3, <2>4
  <2> QED
    BY <1>1, <1>3, <2>1, <2>5
<1> QED
  BY <1>1, <1>2, <1>3

\* Using a frame adds at most the page itself.
LEMMA TouchLen ==
    ASSUME NEW po \in Pool, NEW p \in Pages, NEW img, NEW d
    PROVE  /\ Len(po.order) \in Nat
           /\ Len(Touch(po, p, img, d).order) =
                 IF p \in Range(po.order) THEN Len(po.order)
                                          ELSE Len(po.order) + 1
<1>1. po.order \in Seq(Pages) /\ Len(po.order) \in Nat
  BY DEF Pool
<1> DEFINE w == Without(po.order, p)
<1>2. /\ w \in Seq(Pages)
      /\ Len(w) = IF p \in Range(po.order) THEN Len(po.order) - 1
                                           ELSE Len(po.order)
  BY <1>1, WithoutLen
<1>3. Touch(po, p, img, d).order = Append(w, p)
  BY DEF Touch
<1> HIDE DEF w
<1>4. Len(Append(w, p)) = Len(w) + 1
  BY <1>2, AppendProperties
<1> QED
  BY <1>1, <1>2, <1>3, <1>4

\* A new frame takes the victim's place when the pool is full (_make_room).
LEMMA MakeRoomLen ==
    ASSUME TypeInv, PoolInv, Len(pool.order) <= PoolSize,
           NEW p \in Pages, ~Cached(p), NEW img \in Image, NEW d \in BOOLEAN,
           NEW counts, MakeRoomFor(p, img, d, counts)
    PROVE  Len(pool'.order) <= PoolSize
<1>1. /\ pool \in Pool /\ pool.order \in Seq(Pages)
      /\ Len(pool.order) \in Nat /\ PoolSize \in Nat \ {0}
  BY EngineConfig DEF TypeInv, TypeOK, Pool
<1>2. CASE Len(pool.order) >= PoolSize
  <2> DEFINE v == VictimKey(pool)
             po == Drop(pool, v)
  <2>1. v \in Pages /\ v \in Range(pool.order)
    BY <1>1, <1>2, VictimType
  <2>2. pool' = Touch(po, p, img, d)
    BY <1>2 DEF MakeRoomFor
  <2>3. po.order = Without(pool.order, v)
    BY DEF Drop
  <2>4. po \in Pool
    BY <1>1, <2>1, PoolType
  <2> HIDE DEF v, po
  <2>5. Len(po.order) = Len(pool.order) - 1
    BY <1>1, <2>1, <2>3, WithoutLen
  <2>6. Len(pool'.order) <= Len(po.order) + 1
    BY <2>2, <2>4, TouchLen
  <2> QED
    BY <1>1, <2>5, <2>6, TouchLen
<1>3. CASE ~(Len(pool.order) >= PoolSize)
  <2>1. pool' = Touch(pool, p, img, d)
    BY <1>3 DEF MakeRoomFor
  <2>2. Len(pool'.order) <= Len(pool.order) + 1
    BY <1>1, <2>1, TouchLen
  <2>3. Len(pool'.order) \in Nat
    BY <1>1, <2>1, PoolType DEF Pool
  <2> QED
    BY <1>1, <1>3, <2>2, <2>3
<1> QED
  BY <1>2, <1>3

-----------------------------------------------------------------------------
(* Each step keeps the bound *)

Bounded == Len(pool.order) <= PoolSize

LEMMA EmptyIsBounded == EmptyPool.order = << >> /\ Len(EmptyPool.order) = 0
  BY DEF EmptyPool

LEMMA PoolUses ==
    ASSUME WalInv, Bounded, [Next]_vars
    PROVE  Bounded'
<1>1. /\ TypeInv /\ PoolInv /\ pool \in Pool /\ Len(pool.order) \in Nat
      /\ pool.order \in Seq(Pages) /\ PoolSize \in Nat \ {0}
      /\ Len(pool.order) <= PoolSize
  BY EngineConfig DEF WalInv, TypeInv, TypeOK, Pool, Bounded
<1>2. ASSUME UNCHANGED pool PROVE Bounded'
  BY <1>1, <1>2 DEF Bounded
<1>3. ASSUME pool' = EmptyPool PROVE Bounded'
  BY <1>1, <1>3, EmptyIsBounded DEF Bounded
<1>4. ASSUME NEW p \in Pages, Cached(p), NEW img, NEW d,
             pool' = Touch(pool, p, img, d)
      PROVE  Bounded'
  BY <1>1, <1>4, TouchLen DEF Bounded, Cached
<1>5. ASSUME NEW p \in Pages, NEW img, NEW d,
              Len(pool.order) + 1 <= PoolSize,
              pool' = Touch(pool, p, img, d)
       PROVE  Bounded'
  BY <1>1, <1>5, TouchLen DEF Bounded
<1>6. ASSUME NEW p \in Pages, GetPage(p) PROVE Bounded'
  <2>1. disk[p] \in Image
    BY <1>1 DEF TypeInv, TypeOK
  <2>2. CASE ~Cached(p) /\ MakeRoomFor(p, disk[p], FALSE, filePages)
    BY <1>1, <2>1, <2>2, MakeRoomLen DEF Bounded
  <2> QED
    BY <1>4, <1>6, <2>2 DEF GetPage
<1>7. ASSUME NEW p \in Pages, AllocatePage(p) PROVE Bounded'
  <2> DEFINE counts == [filePages EXCEPT ![p[1]] = p[2] + 1]
  <2>0. p[1] \in Files /\ p[2] \in Nat
    BY PageParts, LogBounds
  <2>1. /\ p[2] = filePages[p[1]]
        /\ MakeRoomFor(p, ZeroImage, TRUE, counts)
    BY <1>7 DEF AllocatePage
  <2>2. ~Cached(p)
    BY <1>1, <2>0, <2>1 DEF PoolInv, Allocated
  <2>3. ZeroImage \in Image
    BY DEF ZeroImage, Image
  <2> HIDE DEF counts
  <2> QED
    BY <1>1, <2>1, <2>2, <2>3, MakeRoomLen DEF Bounded
<1>8. CASE Install
  <2>1. pending.page \in Pages /\ pending.data \in Image
    BY <1>1, <1>8 DEF Install, TypeInv, TypeOK, ScanInv
  <2>2. CASE ~Cached(pending.page)
             /\ MakeRoomFor(pending.page, pending.data, TRUE, filePages)
    BY <1>1, <2>1, <2>2, MakeRoomLen DEF Bounded
  <2> QED
    BY <1>4, <1>8, <2>1, <2>2 DEF Install
<1>9. ASSUME NEW p \in Pages, FlushPage(p) PROVE Bounded'
  <2>1. pool'.order = pool.order
    BY <1>9 DEF FlushPage, MarkClean
  <2> QED
    BY <1>1, <2>1 DEF Bounded
<1>10. CASE Boot
  <2> DEFINE first == <<CatalogFile, 0>>
  <2>1. first \in Pages
    BY RuntimeConfig, LogBounds DEF Pages
  <2>2. pool = EmptyPool
    BY <1>1, <1>10 DEF Boot, PoolInv, Recovering
  <2>3. pool' = Touch(pool, first, BlankCatalog, TRUE) \/ UNCHANGED pool
    BY <1>10 DEF Boot
  <2> HIDE DEF first
  <2>4. CASE pool' = Touch(pool, first, BlankCatalog, TRUE)
    <3>1. Len(pool.order) + 1 <= PoolSize
      BY <1>1, <2>2, EmptyIsBounded
    <3> QED
      BY <2>1, <2>4, <3>1, <1>5
  <2> QED
    BY <1>2, <2>3, <2>4
<1>11. CASE Kill \/ ExitDone
  BY <1>3, <1>11 DEF Kill, ExitDone, Forget
<1>12. ASSUME NEW n \in Names, TxBegin(n) \/ CommitRecord(n) PROVE Bounded'
  BY <1>2, <1>12 DEF TxBegin, CommitRecord
<1>13. ASSUME NEW n \in Names, NEW p \in Pages, NEW cells \in WriteSets,
              NEW v \in Values, WritePage(n, p, cells, v)
       PROVE  Bounded'
  BY <1>2, <1>13 DEF WritePage
<1>14. CASE \/ StartFlush \/ Shutdown \/ FlushDone \/ CheckpointBegin
            \/ CheckpointEnd \/ WriteMaster \/ CommitEnd
  BY <1>2, <1>14 DEF StartFlush, Shutdown, FlushDone, CheckpointBegin,
                     CheckpointEnd, WriteMaster, CommitEnd
<1>15. CASE \/ Restart \/ AnalyzeRecord \/ AnalysisDone \/ RedoSkip
            \/ RedoApply \/ EnsurePageExists \/ RedoFresh \/ RedoDone
  BY <1>2, <1>15 DEF Restart, AnalyzeRecord, AnalysisDone, RedoSkip,
                     RedoApply, EnsurePageExists, RedoFresh, RedoDone
<1>16. CASE \/ EndLoser \/ UndoDone \/ RecoveryDone
            \/ \E x \in Xids : UndoRecord(x) \/ FinishCommitted(x)
  BY <1>2, <1>16 DEF EndLoser, UndoDone, RecoveryDone, UndoRecord,
                     FinishCommitted
<1>17. CASE UNCHANGED vars
  BY <1>2, <1>17 DEF vars
<1> QED
  BY <1>6, <1>7, <1>8, <1>9, <1>10, <1>11, <1>12, <1>13, <1>14, <1>15, <1>16,
     <1>17 DEF Next, Serve, Continue, Recover

\* The pool never outgrows buffer_pool_size, whatever the replacement
\* policy, holds a page once and only pages that exist, and flush() visits
\* every dirty frame (_make_room, flush).
THEOREM PoolIsSound == Spec => []PoolSound
<1>1. Init => Bounded
  <2> SUFFICES ASSUME Init PROVE Bounded
    OBVIOUS
  <2>1. pool = EmptyPool
    BY DEF Init
  <2> QED
    BY <2>1, EmptyIsBounded, EngineConfig DEF Bounded
<1>2. WalInv /\ Bounded /\ [Next]_vars => Bounded'
  BY PoolUses
<1>3. WalInv /\ Bounded => PoolSound
  BY DEF WalInv, PoolInv, HeldOnce, Bounded, PoolSound
<1> QED
  BY <1>1, <1>2, <1>3, WalInvariant, PTL DEF Spec
===============================================================================
