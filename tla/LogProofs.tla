------------------------------ MODULE LogProofs -------------------------------
(***************************************************************************)
(* The log for every instance of WalEngine.  What stays in it: its records *)
(* in the order of their LSNs, the commits that were answered (WAL #2) and *)
(* the checkpoint master.rec names.  File and buffer are read as one       *)
(* history: a step keeps it, appends one record to it, or, in a crash,     *)
(* leaves a prefix of it that contains the file.  Then the transaction     *)
(* table: it knows the last update of every open transaction, and nothing  *)
(* is left of one that is not open.  Last what Analysis finds: a table is  *)
(* held against the beginning of the log that it stands for, a checkpoint's*)
(* against the log up to it, Analysis's against the records it has read.   *)
(***************************************************************************)
EXTENDS WalEngineProofs

-----------------------------------------------------------------------------
(* The log as a history *)

HistoryOf(l) == l.stable \o l.buf

\* Appending after the second half is appending after the whole.
LEMMA AppendAfter ==
    ASSUME NEW S, NEW s \in Seq(S), NEW t \in Seq(S), NEW e \in S
    PROVE  s \o Append(t, e) = Append(s \o t, e)
<1>1. << e >> \in Seq(S) /\ s \o t \in Seq(S)
  BY ConcatProperties
<1>2. Append(t, e) = t \o << e >> /\ Append(s \o t, e) = (s \o t) \o << e >>
  BY <1>1, AppendIsConcat
<1>3. (s \o t) \o << e >> = s \o (t \o << e >>)
  BY <1>1, ConcatAssociative
<1> QED
  BY <1>2, <1>3, Zenon

LEMMA HistoryType ==
    ASSUME NEW l \in LogState
    PROVE  /\ l.stable \in Seq(LogRecord) /\ l.buf \in Seq(LogRecord)
           /\ HistoryOf(l) \in Seq(LogRecord)
<1>1. l.stable \in Seq(LogRecord) /\ l.buf \in Seq(LogRecord)
  BY DEF LogState
<1> QED
  BY <1>1, ConcatProperties DEF HistoryOf

\* _flush_log moves the history into the file and does not change it.
LEMMA FlushHistory ==
    ASSUME NEW l \in LogState
    PROVE  /\ FlushLog(l).stable = HistoryOf(l) /\ FlushLog(l).buf = << >>
           /\ HistoryOf(FlushLog(l)) = HistoryOf(l)
<1>1. l.stable \in Seq(LogRecord) /\ HistoryOf(l) \in Seq(LogRecord)
  BY HistoryType
<1>2. FlushLog(l).buf = << >> /\ FlushLog(l).stable = HistoryOf(l)
  <2>1. CASE l.buf = << >>
    BY <1>1, <2>1, ConcatEmptySeq DEF FlushLog, HistoryOf
  <2>2. CASE l.buf # << >>
    BY <2>2 DEF FlushLog, Flushed, HistoryOf
  <2> QED
    BY <2>1, <2>2
<1> QED
  BY <1>1, <1>2, ConcatEmptySeq DEF HistoryOf

\* A log state with another buffer.
LEMMA OtherBuffer ==
    ASSUME NEW l \in LogState, NEW b \in Seq(LogRecord)
    PROVE  LET m == [l EXCEPT !.buf = b]
           IN  /\ m \in LogState /\ m.stable = l.stable /\ m.buf = b
               /\ m.next = l.next /\ m.flushed = l.flushed
  BY DEF LogState

\* What _emit flushes if it is too long.
Longer(l, rec) == [TakeLsn(l) EXCEPT !.buf = Append(TakeLsn(l).buf, rec)]
LEMMA LongerLog ==
    ASSUME NEW l \in LogState, NEW rec \in LogRecord
    PROVE  LET m == Longer(l, rec)
           IN  /\ m \in LogState /\ m.stable = l.stable
               /\ m.buf = Append(l.buf, rec)
               /\ m.next = l.next + 1 /\ m.flushed = l.flushed
               /\ Emit(l, rec) \in {m, FlushLog(m)}
<1> DEFINE t == TakeLsn(l)
           b == Append(t.buf, rec)
<1>1. /\ t \in LogState /\ t.stable = l.stable /\ t.buf = l.buf
      /\ t.next = l.next + 1 /\ t.flushed = l.flushed
  BY TakeLsnType
<1>2. l.buf \in Seq(LogRecord)
  BY HistoryType
<1>3. b \in Seq(LogRecord) /\ b = Append(l.buf, rec)
  BY <1>1, <1>2, AppendProperties
<1> DEFINE k == [t EXCEPT !.buf = b]
<1>4. Longer(l, rec) = k /\ Emit(l, rec) \in {k, FlushLog(k)}
  BY DEF Longer, Emit, EmitWithLsn
<1> HIDE DEF t, b
<1>5. /\ k \in LogState /\ k.stable = t.stable /\ k.buf = b
      /\ k.next = t.next /\ k.flushed = t.flushed
  BY <1>1, <1>3, OtherBuffer
<1> HIDE DEF k
<1> QED
  BY <1>1, <1>3, <1>4, <1>5

\* _emit appends one record to the history.
LEMMA EmitHistory ==
    ASSUME NEW l \in LogState, NEW rec \in LogRecord
    PROVE  HistoryOf(Emit(l, rec)) = Append(HistoryOf(l), rec)
<1> DEFINE m == Longer(l, rec)
<1>1. Emit(l, rec) \in {m, FlushLog(m)}
  BY LongerLog
<1>2. m \in LogState /\ m.stable = l.stable /\ m.buf = Append(l.buf, rec)
  BY LongerLog
<1> HIDE DEF m
<1>3. HistoryOf(m) = Append(HistoryOf(l), rec)
  <2> DEFINE s == l.stable
             b == l.buf
  <2>1. s \in Seq(LogRecord) /\ b \in Seq(LogRecord)
    BY HistoryType
  <2>2. HistoryOf(m) = s \o Append(b, rec) /\ HistoryOf(l) = s \o b
    BY <1>2 DEF HistoryOf
  <2> HIDE DEF s, b
  <2>3. s \o Append(b, rec) = Append(s \o b, rec)
    BY <2>1, AppendAfter
  <2> QED
    BY <2>2, <2>3, Zenon
<1>4. HistoryOf(FlushLog(m)) = HistoryOf(m)
  BY <1>2, FlushHistory
<1> QED
  BY <1>1, <1>3, <1>4

\* A record that has been emitted and flushed is the last one of the file.
LEMMA EmitFlushHistory ==
    ASSUME NEW l \in LogState, NEW rec \in LogRecord
    PROVE  LET m == FlushLog(Emit(l, rec))
           IN  /\ m.stable = Append(HistoryOf(l), rec) /\ m.buf = << >>
               /\ HistoryOf(m) = Append(HistoryOf(l), rec)
  BY EmitType, EmitHistory, FlushHistory

\* A crash leaves a part of the history that contains the file.
Begins(u, h) == Len(u) <= Len(h) /\ \A i \in DOMAIN u : u[i] = h[i]

LEMMA BeginsPart ==
    ASSUME NEW S, NEW s \in Seq(S), NEW b \in Seq(S), NEW c \in Seq(S)
    PROVE  /\ s \o b \in Seq(S)
           /\ Begins(s \o b, s \o (b \o c)) /\ Begins(s, s \o b)
<1>1. s \o b \in Seq(S)
  BY ConcatProperties
<1>2. (s \o b) \o c = s \o (b \o c)
  BY ConcatAssociative
<1>3. Begins(s \o b, (s \o b) \o c) /\ Begins(s, s \o b)
  BY <1>1, AppendedType DEF Begins
<1> QED
  BY <1>1, <1>2, <1>3

LEMMA BeginsConcat ==
    ASSUME NEW S, NEW s \in Seq(S), NEW t \in Seq(S), NEW n \in 0 .. Len(t)
    PROVE  /\ s \o SubSeq(t, 1, n) \in Seq(S)
           /\ Begins(s \o SubSeq(t, 1, n), s \o t)
           /\ Begins(s, s \o SubSeq(t, 1, n))
<1> DEFINE b == SubSeq(t, 1, n)
           c == SubSeq(t, n + 1, Len(t))
<1>1. b \in Seq(S) /\ c \in Seq(S)
  OBVIOUS
<1>2. b \o c = t
  <2>1. /\ 1 \in 1 .. Len(t) + 1 /\ n \in 1 - 1 .. Len(t)
        /\ Len(t) \in n .. Len(t)
    OBVIOUS
  <2>2. SubSeq(t, 1, n) \o SubSeq(t, n + 1, Len(t)) = SubSeq(t, 1, Len(t))
    BY <2>1, ConcatAdjacentSubSeq, Zenon
  <2>3. SubSeq(t, 1, Len(t)) = t
    BY SubSeqFull, Zenon
  <2> QED
    BY <2>2, <2>3, Zenon
<1> HIDE DEF b, c
<1>3. /\ s \o b \in Seq(S)
      /\ Begins(s \o b, s \o (b \o c)) /\ Begins(s, s \o b)
  BY <1>1, BeginsPart, Zenon
<1> QED
  BY <1>2, <1>3, Zenon DEF b

-----------------------------------------------------------------------------
(* LSNs increase along the log *)

Ordered(h, n) ==
    /\ \A i, j \in DOMAIN h : i < j => h[i].lsn < h[j].lsn
    /\ \A i \in DOMAIN h : h[i].lsn < n
FlushedIsLast(l) ==
    l.flushed = IF l.stable = << >> THEN NoLsn ELSE LastOf(l.stable).lsn
InOrder(l) == Ordered(HistoryOf(l), l.next) /\ FlushedIsLast(l)

LEMMA HistoryLsns ==
    ASSUME NEW h \in Seq(LogRecord)
    PROVE  \A i \in DOMAIN h : h[i] \in LogRecord /\ h[i].lsn \in Nat
  BY RecordFields

\* A record with the next LSN may follow any other.
LEMMA AppendOrdered ==
    ASSUME NEW h \in Seq(LogRecord), NEW n \in Nat, Ordered(h, n),
           NEW e \in LogRecord, e.lsn = n
    PROVE  Ordered(Append(h, e), n + 1)
<1> DEFINE g == Append(h, e)
<1>1. /\ Len(h) \in Nat /\ DOMAIN h = 1 .. Len(h)
      /\ DOMAIN g = 1 .. Len(h) + 1
      /\ \A i \in 1 .. Len(h) : g[i] = h[i]
      /\ g[Len(h) + 1] = e
  BY AppendProperties
<1> HIDE DEF g
<1>2. \A i \in 1 .. Len(h) : h[i].lsn \in Nat /\ h[i].lsn < n
  BY <1>1, HistoryLsns DEF Ordered
<1>3. ASSUME NEW i \in DOMAIN g PROVE g[i].lsn < n + 1
  <2>1. CASE i \in 1 .. Len(h)
    BY <1>1, <1>2, <2>1
  <2>2. CASE i = Len(h) + 1
    BY <1>1, <2>2
  <2> QED
    BY <1>1, <2>1, <2>2
<1>4. ASSUME NEW i \in DOMAIN g, NEW j \in DOMAIN g, i < j
      PROVE  g[i].lsn < g[j].lsn
  <2>1. i \in 1 .. Len(h)
    BY <1>1, <1>4
  <2>2. CASE j \in 1 .. Len(h)
    BY <1>1, <1>4, <2>1, <2>2 DEF Ordered
  <2>3. CASE j = Len(h) + 1
    BY <1>1, <1>2, <2>1, <2>3
  <2> QED
    BY <1>1, <2>2, <2>3
<1> QED
  BY <1>3, <1>4 DEF Ordered, g

\* What a restart reads back continues the order.
LEMMA ReopenOrdered ==
    ASSUME NEW u \in Seq(LogRecord), NEW h \in Seq(LogRecord), NEW n \in Nat,
           Begins(u, h), Ordered(h, n)
    PROVE  InOrder(ReopenLog(u))
<1> DEFINE r == ReopenLog(u)
<1>1. r.stable = u /\ HistoryOf(r) = u
  BY ReopenType, ConcatEmptySeq DEF HistoryOf
<1>2. /\ Len(u) \in Nat /\ DOMAIN u = 1 .. Len(u)
      /\ DOMAIN u \subseteq DOMAIN h /\ \A i \in DOMAIN u : u[i] = h[i]
  BY LenProperties DEF Begins
<1>3. \A i, j \in DOMAIN u : i < j => u[i].lsn < u[j].lsn
  BY <1>2 DEF Ordered
<1>4. \A i \in DOMAIN u : u[i].lsn < r.next
  <2>1. CASE u = << >>
    BY <2>1
  <2>2. CASE u # << >>
    <3>1. Len(u) \in DOMAIN u /\ LastOf(u) = u[Len(u)]
      BY <2>2 DEF LastOf
    <3>2. r.next = u[Len(u)].lsn + 1
      BY <2>2, <3>1 DEF ReopenLog
    <3>3. \A i \in DOMAIN u : u[i].lsn <= u[Len(u)].lsn /\ u[i].lsn \in Nat
      <4>1. \A i \in DOMAIN u : u[i].lsn \in Nat
        BY HistoryLsns
      <4>2. \A i \in DOMAIN u : i < Len(u) \/ i = Len(u)
        BY <1>2
      <4> QED
        BY <1>3, <3>1, <4>1, <4>2
    <3> HIDE DEF r
    <3> QED
      BY <3>1, <3>2, <3>3
  <2> QED
    BY <2>1, <2>2
<1>5. FlushedIsLast(r)
  BY <1>1 DEF FlushedIsLast, ReopenLog
<1> QED
  BY <1>1, <1>3, <1>4, <1>5 DEF InOrder, Ordered

\* _flush_log keeps the order, and flushedLSN is the last one it wrote.
LEMMA FlushOrdered ==
    ASSUME NEW l \in LogState, InOrder(l)
    PROVE  InOrder(FlushLog(l))
<1>1. HistoryOf(FlushLog(l)) = HistoryOf(l) /\ FlushLog(l).next = l.next
  BY FlushHistory, FlushType
<1>2. FlushedIsLast(FlushLog(l))
  <2>1. CASE l.buf = << >>
    BY <2>1 DEF FlushLog, InOrder
  <2>2. CASE l.buf # << >>
    <3> DEFINE s == l.stable
               b == l.buf
    <3>1. s \in Seq(LogRecord) /\ b \in Seq(LogRecord) /\ b # << >>
      BY <2>2, HistoryType
    <3>2. /\ FlushLog(l).stable = s \o b
          /\ FlushLog(l).flushed = LastOf(b).lsn
      BY <2>2 DEF FlushLog, Flushed
    <3> HIDE DEF s, b
    <3>3. PICK a \in Seq(LogRecord), e \in LogRecord : b = Append(a, e)
      BY <3>1, SequenceEmptyOrAppend
    <3>4. s \o a \in Seq(LogRecord) /\ s \o b = Append(s \o a, e)
      <4>1. s \o a \in Seq(LogRecord)
        BY <3>1, <3>3, ConcatProperties
      <4>2. s \o Append(a, e) = Append(s \o a, e)
        BY <3>1, <3>3, AppendAfter
      <4> QED
        BY <3>3, <4>1, <4>2, Zenon
    <3>5. \A q \in Seq(LogRecord), f \in LogRecord :
             Append(q, f) # << >> /\ LastOf(Append(q, f)) = f
      BY AppendProperties DEF LastOf
    <3>6. s \o b # << >> /\ LastOf(s \o b) = e /\ LastOf(b) = e
      BY <3>3, <3>4, <3>5, Zenon
    <3> QED
      BY <3>2, <3>6 DEF FlushedIsLast
  <2> QED
    BY <2>1, <2>2
<1> QED
  BY <1>1, <1>2 DEF InOrder

LEMMA TakeLsnOrdered ==
    ASSUME NEW l \in LogState, InOrder(l)
    PROVE  InOrder(TakeLsn(l))
<1>1. /\ HistoryOf(TakeLsn(l)) = HistoryOf(l)
      /\ TakeLsn(l).next = l.next + 1 /\ l.next \in Nat
      /\ TakeLsn(l).stable = l.stable /\ TakeLsn(l).flushed = l.flushed
  BY TakeLsnType DEF HistoryOf, LogState
<1>2. \A i \in DOMAIN HistoryOf(l) : HistoryOf(l)[i].lsn \in Nat
  BY HistoryType, HistoryLsns
<1> QED
  BY <1>1, <1>2 DEF InOrder, Ordered, FlushedIsLast

LEMMA EmitOrdered ==
    ASSUME NEW l \in LogState, NEW rec \in LogRecord, rec.lsn = l.next,
           InOrder(l)
    PROVE  InOrder(Emit(l, rec))
<1> DEFINE m == Longer(l, rec)
<1>1. Emit(l, rec) \in {m, FlushLog(m)}
  BY LongerLog
<1>2. HistoryOf(Emit(l, rec)) = Append(HistoryOf(l), rec)
      /\ Emit(l, rec) \in LogState /\ Emit(l, rec).next = l.next + 1
  BY EmitHistory, EmitType
<1>3. Ordered(Append(HistoryOf(l), rec), l.next + 1)
  <2>1. HistoryOf(l) \in Seq(LogRecord) /\ l.next \in Nat
        /\ Ordered(HistoryOf(l), l.next)
    BY HistoryType DEF InOrder, LogState
  <2> QED
    BY <2>1, AppendOrdered
<1>4. /\ m.stable = l.stable /\ m.next = l.next + 1 /\ m.flushed = l.flushed
      /\ m \in LogState
  BY LongerLog
<1> HIDE DEF m
<1>5. FlushedIsLast(m)
  BY <1>4 DEF InOrder, FlushedIsLast
<1>6. CASE Emit(l, rec) = m
  BY <1>2, <1>3, <1>5, <1>6 DEF InOrder
<1>7. CASE Emit(l, rec) = FlushLog(m)
  <2>1. HistoryOf(m) = Append(HistoryOf(l), rec) /\ m.next = l.next + 1
    BY <1>2, <1>4, <1>7, FlushHistory
  <2> QED
    BY <1>3, <1>4, <1>5, <1>7, <2>1, FlushOrdered DEF InOrder
<1> QED
  BY <1>1, <1>6, <1>7

-----------------------------------------------------------------------------
(* What a step does to the log *)

Emits(rec) == log' \in {Emit(log, rec), FlushLog(Emit(log, rec))}
Keeps  == log' \in {log, TakeLsn(log), FlushLog(log)}
Grows  ==
    \E rec \in LogRecord :
        /\ rec.lsn = log.next /\ Emits(rec)
        /\ rec.type = "end_chkpt" => rec.txs = txTable
Loses  ==
    \E u \in Seq(LogRecord) :
        /\ log' = ReopenLog(u)
        /\ Begins(u, History) /\ Begins(log.stable, u)
LogMove == Keeps \/ Grows \/ Loses

\* A file that is reopened holds its records and perhaps some of the buffer.
LEMMA ReopenMoves ==
    ASSUME TypeInv, NEW u,
           \/ u = log.stable
           \/ u = HistoryOf(log)
           \/ \E n \in 0 .. Len(log.buf) :
                 u = log.stable \o SubSeq(log.buf, 1, n),
           log' = ReopenLog(u)
    PROVE  Loses
<1> DEFINE s == log.stable
           b == log.buf
<1>1. s \in Seq(LogRecord) /\ b \in Seq(LogRecord) /\ History = s \o b
  BY HistoryType DEF TypeInv, TypeOK, History
<1>2. u = s \/ u = s \o b
      \/ \E n \in 0 .. Len(b) : u = s \o SubSeq(b, 1, n)
  BY DEF HistoryOf
<1> HIDE DEF s, b
<1>3. /\ s \o b \in Seq(LogRecord) /\ Begins(s, s \o b)
  BY <1>1, AppendedType DEF Begins
<1>4. \A q \in Seq(LogRecord) : Begins(q, q)
  BY LenProperties DEF Begins
<1>5. u \in Seq(LogRecord) /\ Begins(u, s \o b) /\ Begins(s, u)
  <2>1. CASE u = s \/ u = s \o b
    BY <1>1, <1>3, <1>4, <2>1
  <2>2. ASSUME NEW n \in 0 .. Len(b), u = s \o SubSeq(b, 1, n)
        PROVE  u \in Seq(LogRecord) /\ Begins(u, s \o b) /\ Begins(s, u)
    BY <1>1, <2>2, BeginsConcat, Zenon
  <2> QED
    BY <1>2, <2>1, <2>2
<1> QED
  BY <1>1, <1>5 DEF Loses, s

\* A write-back flushes the log or leaves it.
LEMMA PoolMoves ==
    ASSUME NEW p, NEW img, NEW d, NEW counts,
           \/ MakeRoomFor(p, img, d, counts) \/ WriteBack(p, counts)
           \/ UNCHANGED log
    PROVE  Keeps
  BY DEF MakeRoomFor, WriteBack, WalBeforeFlush, FlushLogUpTo, Keeps

LEMMA ServeMoves ==
    ASSUME TypeInv, Serve
    PROVE  LogMove
<1>1. ASSUME NEW n \in Names, TxBegin(n) PROVE LogMove
  BY <1>1 DEF TxBegin, LogMove, Keeps
<1>2. ASSUME NEW n \in Names, CommitRecord(n) PROVE LogMove
  <2> DEFINE x == openTx[n]
             rec == TxRec("commit", x)
  <2>1. x \in Xids
    BY <1>2 DEF CommitRecord, TypeInv, TypeOK
  <2>2. rec \in LogRecord
    BY <2>1, TxRecType
  <2>3. rec.lsn = log.next /\ rec.type # "end_chkpt"
    BY DEF TxRec
  <2>4. Emits(rec)
    BY <1>2 DEF CommitRecord, Emits
  <2> HIDE DEF rec
  <2> QED
    BY <2>2, <2>3, <2>4 DEF LogMove, Grows
<1>3. ASSUME NEW p \in Pages, GetPage(p) \/ AllocatePage(p) PROVE LogMove
  <2>1. Keeps
    BY <1>3, PoolMoves DEF GetPage, AllocatePage
  <2> QED
    BY <2>1 DEF LogMove
<1>4. ASSUME NEW n \in Names, NEW p \in Pages, NEW cells \in WriteSets,
             NEW v \in Values, WritePage(n, p, cells, v)
      PROVE  LogMove
  <2> DEFINE x       == openTx[n]
             before  == CurrentBytes(p)
             changed == [o \in Offsets |-> IF o \in cells THEN v ELSE before[o]]
             stamped == WritePageLsn(changed, log.next)
             rec     == UpdateOf(x, p, before, stamped)
  <2>1. x \in Xids /\ log.next \in Nat
    BY <1>4 DEF WritePage, TypeInv, TypeOK, LogState
  <2>2. before \in Image
    BY DEF TypeInv, TypeOK, CurrentBytes, Pool, Frame
  <2>3. stamped \in Image
    <3>1. changed \in Image
      BY <2>2, RuntimeConfig DEF Image
    <3> QED
      BY <2>1, <3>1, StampRead
  <2>4. rec.lsn = log.next /\ rec.type # "end_chkpt"
    BY DEF UpdateOf
  <2>5. log' = Emit(log, rec) \/ log' = TakeLsn(log)
    BY <1>4 DEF WritePage
  <2> HIDE DEF x, before, stamped
  <2>6. rec \in LogRecord
    BY <2>1, <2>2, <2>3, UpdateOfType
  <2> HIDE DEF rec
  <2> QED
    BY <2>4, <2>5, <2>6 DEF LogMove, Keeps, Grows, Emits
<1>5. ASSUME StartFlush \/ Shutdown PROVE LogMove
  BY <1>5 DEF StartFlush, Shutdown, LogMove, Keeps
<1> QED
  BY <1>1, <1>2, <1>3, <1>4, <1>5 DEF Serve

LEMMA ContinueMoves ==
    ASSUME TypeInv, Continue
    PROVE  LogMove
<1>1. CASE Install
  <2>1. Keeps
    BY <1>1, PoolMoves DEF Install
  <2> QED
    BY <2>1 DEF LogMove
<1>2. CASE CheckpointBegin
  <2> DEFINE rec == [type |-> "begin_chkpt", lsn |-> log.next,
                     prev |-> NoLsn, xid |-> SysXid]
  <2>1. rec \in LogRecord /\ rec.lsn = log.next /\ rec.type # "end_chkpt"
    BY DEF LogRecord, BeginRecord, TypeInv, TypeOK, LogState
  <2>2. Emits(rec)
    BY <1>2 DEF CheckpointBegin, Emits
  <2> HIDE DEF rec
  <2> QED
    BY <2>1, <2>2 DEF LogMove, Grows
<1>3. CASE CheckpointEnd
  <2> DEFINE rec == EndCheckpointRec
  <2>1. rec \in LogRecord /\ rec.lsn = log.next /\ rec.txs = txTable
    BY DEF EndCheckpointRec, LogRecord, EndRecord, TypeInv, TypeOK, LogState
  <2>2. Emits(rec)
    BY <1>3 DEF CheckpointEnd, Emits
  <2> HIDE DEF rec
  <2> QED
    BY <2>1, <2>2 DEF LogMove, Grows
<1>4. CASE CommitEnd
  <2> DEFINE rec == TxRec("end", scan)
  <2>1. scan \in Xids
    BY <1>4 DEF CommitEnd, TypeInv, ScanInv
  <2>2. rec \in LogRecord
    BY <2>1, TxRecType
  <2>3. rec.lsn = log.next /\ rec.type # "end_chkpt"
    BY DEF TxRec
  <2>4. Emits(rec)
    BY <1>4 DEF CommitEnd, Emits
  <2> HIDE DEF rec
  <2> QED
    BY <2>2, <2>3, <2>4 DEF LogMove, Grows
<1>5. CASE WriteMaster \/ FlushDone
  BY <1>5 DEF WriteMaster, FlushDone, LogMove, Keeps
<1>6. ASSUME NEW p \in Pages, FlushPage(p) PROVE LogMove
  <2>1. Keeps
    BY <1>6, PoolMoves DEF FlushPage
  <2> QED
    BY <2>1 DEF LogMove
<1>7. CASE ExitDone
  <2>1. FlushLog(log).stable = HistoryOf(log)
    BY FlushHistory DEF TypeInv, TypeOK
  <2>2. log' = ReopenLog(HistoryOf(log))
    BY <1>7, <2>1 DEF ExitDone
  <2>3. Loses
    BY <2>2, ReopenMoves
  <2> QED
    BY <2>3 DEF LogMove
<1> QED
  BY <1>1, <1>2, <1>3, <1>4, <1>5, <1>6, <1>7 DEF Continue

LEMMA RecoverMoves ==
    ASSUME TypeInv, Recover
    PROVE  LogMove
<1>1. CASE \/ AnalyzeRecord \/ AnalysisDone \/ RedoSkip \/ RedoApply
           \/ EnsurePageExists \/ RedoFresh \/ RedoDone \/ UndoDone \/ Boot
           \/ \E x \in Xids : UndoRecord(x)
  BY <1>1 DEF AnalyzeRecord, AnalysisDone, RedoSkip, RedoApply,
              EnsurePageExists, RedoFresh, RedoDone, UndoDone, Boot,
              UndoRecord, LogMove, Keeps
<1>2. CASE RecoveryDone
  BY <1>2 DEF RecoveryDone, LogMove, Keeps
<1>3. ASSUME NEW x \in Xids, log' = Emit(log, TxRec("end", x))
      PROVE  LogMove
  <2> DEFINE rec == TxRec("end", x)
  <2>1. rec \in LogRecord
    BY TxRecType
  <2>2. rec.lsn = log.next /\ rec.type # "end_chkpt"
    BY DEF TxRec
  <2>3. Emits(rec)
    BY <1>3 DEF Emits
  <2> HIDE DEF rec
  <2> QED
    BY <2>1, <2>2, <2>3 DEF LogMove, Grows
<1>4. CASE EndLoser
  <2>1. scan \in Xids /\ log' = Emit(log, TxRec("end", scan))
    BY <1>4 DEF EndLoser, EmitEnd, TypeInv, ScanInv
  <2> QED
    BY <1>3, <2>1
<1>5. ASSUME NEW x \in Xids, FinishCommitted(x) PROVE LogMove
  BY <1>3, <1>5 DEF FinishCommitted, EmitEnd
<1> QED
  BY <1>1, <1>2, <1>4, <1>5 DEF Recover

LEMMA NextMoves ==
    ASSUME TypeInv, [Next]_vars
    PROVE  LogMove
<1>1. CASE UNCHANGED vars
  BY <1>1 DEF vars, LogMove, Keeps
<1>2. CASE Restart
  <2>1. Loses
    BY <1>2, ReopenMoves DEF Restart
  <2> QED
    BY <2>1 DEF LogMove
<1>3. CASE Kill
  <2>1. PICK u : /\ log' = ReopenLog(u)
                 /\ \E n \in 0 .. Len(log.buf) :
                       u = log.stable \o SubSeq(log.buf, 1, n)
    BY <1>3 DEF Kill
  <2>2. Loses
    BY <2>1, ReopenMoves
  <2> QED
    BY <2>2 DEF LogMove
<1> QED
  BY <1>1, <1>2, <1>3, ServeMoves, ContinueMoves, RecoverMoves DEF Next

-----------------------------------------------------------------------------
(* LSNs increase, through restarts *)

\* Whatever a step does to the log keeps it in order.
LEMMA MoveOrdered ==
    ASSUME TypeInv, InOrder(log), LogMove
    PROVE  InOrder(log')
<1>1. log \in LogState
  BY DEF TypeInv, TypeOK
<1>2. CASE Keeps
  BY <1>1, <1>2, FlushOrdered, TakeLsnOrdered DEF Keeps
<1>3. CASE Grows
  <2>1. PICK rec \in LogRecord : rec.lsn = log.next /\ Emits(rec)
    BY <1>3 DEF Grows
  <2>2. Emit(log, rec) \in LogState /\ InOrder(Emit(log, rec))
    BY <1>1, <2>1, EmitType, EmitOrdered
  <2>3. InOrder(FlushLog(Emit(log, rec)))
    BY <2>2, FlushOrdered
  <2> QED
    BY <2>1, <2>2, <2>3 DEF Emits
<1>4. CASE Loses
  <2>1. PICK u \in Seq(LogRecord) :
           /\ log' = ReopenLog(u) /\ Begins(u, History)
    BY <1>4 DEF Loses
  <2>2. /\ History \in Seq(LogRecord) /\ log.next \in Nat
        /\ Ordered(History, log.next)
    BY <1>1, HistoryType DEF HistoryOf, History, InOrder, LogState
  <2> QED
    BY <2>1, <2>2, ReopenOrdered
<1> QED
  BY <1>2, <1>3, <1>4 DEF LogMove

LEMMA AlwaysInOrder == Spec => []InOrder(log)
<1>1. Init => InOrder(log)
  <2> SUFFICES ASSUME Init PROVE InOrder(log)
    OBVIOUS
  <2>1. << >> \in Seq(LogRecord) /\ log = ReopenLog(<< >>)
    BY DEF Init
  <2>2. Begins(<< >>, << >>) /\ Ordered(<< >>, 0)
    BY DEF Begins, Ordered
  <2> QED
    BY <2>1, <2>2, ReopenOrdered
<1>2. TypeInv /\ InOrder(log) /\ [Next]_vars => InOrder(log)'
  BY NextMoves, MoveOrdered
<1> QED
  BY <1>1, <1>2, TypeInvariant, PTL DEF Spec

\* LSNs strictly increase along the log and flushedLSN is the last one in
\* the file, whatever is lost in a crash (__init__'s counters, _emit and
\* _flush_log).
THEOREM LsnsIncrease == Spec => []LogOrdered
<1>1. InOrder(log) => LogOrdered
  BY DEF InOrder, Ordered, FlushedIsLast, HistoryOf, History, LogOrdered
<1> QED
  BY <1>1, AlwaysInOrder, PTL

-----------------------------------------------------------------------------
(* What is in wal.log stays there *)

\* No step, crash or restart takes a record from wal.log.
LEMMA MoveExtends ==
    ASSUME TypeInv, LogMove
    PROVE  Begins(log.stable, log'.stable)
<1>1. log \in LogState /\ log.stable \in Seq(LogRecord)
  BY DEF TypeInv, TypeOK, LogState
<1>2. CASE Keeps
  <2>1. /\ Extends(FlushLog(log), log) /\ TakeLsn(log).stable = log.stable
    BY <1>1, FlushType, TakeLsnType
  <2>2. Begins(log.stable, log.stable)
    BY <1>1, LenProperties DEF Begins
  <2> QED
    BY <1>2, <2>1, <2>2 DEF Keeps, Extends, Begins
<1>3. CASE Grows
  <2>1. PICK rec \in LogRecord : Emits(rec)
    BY <1>3 DEF Grows
  <2>2. Extends(log', log)
    BY <2>1, EmitFlushType DEF Emits
  <2> QED
    BY <2>2 DEF Extends, Begins
<1>4. CASE Loses
  BY <1>4, ReopenType DEF Loses
<1> QED
  BY <1>2, <1>3, <1>4 DEF LogMove

\* The steps that are not part of a commit or a checkpoint.
Apart == /\ acked' = acked /\ master' = master
         /\ pc' \notin {"end", "ckptend", "master"}

LEMMA StepsApart ==
    ASSUME [Next]_vars
    PROVE  \/ UNCHANGED vars \/ Apart
           \/ CheckpointBegin \/ CheckpointEnd \/ WriteMaster
           \/ \E n \in Names : CommitRecord(n)
           \/ CommitEnd \/ Kill
<1>1. ASSUME NEW n \in Names, TxBegin(n) PROVE Apart
  BY <1>1 DEF TxBegin, Apart, MaybeCheckpoint, durable
<1>2. ASSUME NEW p \in Pages, GetPage(p) \/ AllocatePage(p) PROVE Apart
  BY <1>2 DEF GetPage, AllocatePage, Ready, Apart
<1>3. ASSUME NEW n \in Names, NEW p \in Pages, NEW cells \in WriteSets,
             NEW v \in Values, WritePage(n, p, cells, v)
      PROVE  Apart
  BY <1>3 DEF WritePage, MaybeCheckpoint, Apart, durable
<1>4. CASE StartFlush \/ Shutdown \/ FlushDone \/ Install \/ ExitDone
  BY <1>4 DEF StartFlush, Shutdown, FlushDone, Install, ExitDone, Forget,
              Apart, durable
<1>5. ASSUME NEW p \in Pages, FlushPage(p) PROVE Apart
  BY <1>5 DEF FlushPage, Apart
<1>6. CASE Restart \/ AnalyzeRecord \/ AnalysisDone \/ RedoSkip
  BY <1>6 DEF Restart, AnalyzeRecord, AnalysisDone, RedoSkip, Apart, durable
<1>7. CASE RedoApply \/ EnsurePageExists \/ RedoFresh \/ RedoDone
  BY <1>7 DEF RedoApply, EnsurePageExists, RedoFresh, RedoDone, Reapply,
              Apart, durable
<1>8. ASSUME NEW x \in Xids, UndoRecord(x) \/ FinishCommitted(x) PROVE Apart
  BY <1>8 DEF UndoRecord, FinishCommitted, Apart, durable
<1>9. CASE EndLoser \/ UndoDone \/ RecoveryDone \/ Boot
  BY <1>9 DEF EndLoser, UndoDone, RecoveryDone, Boot, Apart, durable
<1> QED
  BY <1>1, <1>2, <1>3, <1>4, <1>5, <1>6, <1>7, <1>8, <1>9
     DEF Next, Serve, Continue, Recover

-----------------------------------------------------------------------------
(* WAL #2 *)

\* A commit that is about to be answered is as durable as an answered one.
InFile(x) ==
    \E i \in DOMAIN log.stable :
        log.stable[i].type = "commit" /\ log.stable[i].xid = x
CommitInv == (\A x \in acked : InFile(x)) /\ (pc = "end" => InFile(scan))

LEMMA CommitStep == TypeInv /\ CommitInv /\ [Next]_vars => CommitInv'
<1> SUFFICES ASSUME TypeInv, CommitInv, [Next]_vars PROVE CommitInv'
  OBVIOUS
<1>1. Begins(log.stable, log'.stable) /\ log' \in LogState
  BY NextMoves, MoveExtends, Next_Type DEF TypeInv, TypeOK
<1>2. ASSUME NEW x, InFile(x) PROVE InFile(x)'
  <2>1. PICK i \in DOMAIN log.stable :
           log.stable[i].type = "commit" /\ log.stable[i].xid = x
    BY <1>2 DEF InFile
  <2>2. i \in DOMAIN log'.stable /\ log'.stable[i] = log.stable[i]
    BY <1>1 DEF Begins, LogState, TypeInv, TypeOK
  <2> QED
    BY <2>1, <2>2 DEF InFile
<1>3. CASE UNCHANGED vars
  BY <1>3 DEF vars, CommitInv, InFile
<1>4. CASE Apart \/ CheckpointBegin \/ CheckpointEnd \/ WriteMaster \/ Kill
  <2>1. acked' = acked /\ pc' # "end"
    BY <1>4 DEF Apart, CheckpointBegin, CheckpointEnd, WriteMaster, Kill,
                Forget
  <2> QED
    BY <1>2, <2>1 DEF CommitInv
<1>5. ASSUME NEW n \in Names, NEW x \in Xids, x = openTx[n], CommitRecord(n)
      PROVE  CommitInv'
  <2> DEFINE rec == TxRec("commit", x)
  <2>1. log \in LogState
    BY DEF TypeInv, TypeOK
  <2>2. rec \in LogRecord
    BY TxRecType
  <2>3. rec.type = "commit" /\ rec.xid = x
    BY DEF TxRec
  <2>4. log' = FlushLog(Emit(log, rec)) /\ scan' = x /\ acked' = acked
    BY <1>5 DEF CommitRecord
  <2> HIDE DEF rec
  <2>5. log'.stable = Append(HistoryOf(log), rec)
    BY <2>1, <2>2, <2>4, EmitFlushHistory
  <2>6. \E i \in DOMAIN log'.stable : log'.stable[i] = rec
    <3>1. HistoryOf(log) \in Seq(LogRecord)
      BY <2>1, HistoryType
    <3>2. \A h \in Seq(LogRecord) :
             \E i \in DOMAIN Append(h, rec) : Append(h, rec)[i] = rec
      <4> TAKE h \in Seq(LogRecord)
      <4>1. Len(h) + 1 \in DOMAIN Append(h, rec)
            /\ Append(h, rec)[Len(h) + 1] = rec
        BY <2>2, AppendProperties
      <4> QED
        BY <4>1
    <3> QED
      BY <2>5, <3>1, <3>2
  <2>7. InFile(x)'
    BY <2>3, <2>6 DEF InFile
  <2> QED
    BY <1>2, <2>4, <2>7 DEF CommitInv
<1>6. CASE CommitEnd
  <2>1. pc = "end" /\ pc' = "idle" /\ acked' = acked \cup {scan}
    BY <1>6 DEF CommitEnd
  <2> QED
    BY <1>2, <2>1 DEF CommitInv
<1>7. ASSUME NEW n \in Names, CommitRecord(n) PROVE openTx[n] \in Xids
  BY <1>7 DEF CommitRecord, TypeInv, TypeOK
<1> QED
  BY <1>3, <1>4, <1>5, <1>6, <1>7, StepsApart

LEMMA AlwaysCommitInv == Spec => []CommitInv
<1>1. Init => CommitInv
  BY DEF Init, CommitInv
<1> QED
  BY <1>1, CommitStep, TypeInvariant, PTL DEF Spec

\* A transaction whose commit was answered has its commit record in wal.log,
\* in every later state, through every crash (commit).
THEOREM CommitsAreDurable == Spec => []CommitIsDurable
<1>1. CommitInv => CommitIsDurable
  BY DEF CommitInv, InFile, CommitIsDurable
<1> QED
  BY <1>1, AlwaysCommitInv, PTL

-----------------------------------------------------------------------------
(* Checkpoints *)

\* Between its two records a checkpoint is open; when master.rec is about to
\* name it, it is complete.
CheckpointOpen(h, m) ==
    \E b \in DOMAIN h : /\ h[b].type = "begin_chkpt" /\ h[b].lsn = m
                        /\ \A k \in b .. Len(h) : h[k].type # "end_chkpt"
CheckpointInv ==
    /\ MasterIsComplete
    /\ pc = "ckptend" => CheckpointOpen(History, scan)
    /\ pc = "master" => CheckpointEnds(log.stable, scan) # {}

\* A checkpoint that is complete in a file is complete in a longer one.
LEMMA EndsKept ==
    ASSUME NEW s \in Seq(LogRecord), NEW u \in Seq(LogRecord), Begins(s, u),
           NEW m
    PROVE  CheckpointEnds(s, m) \subseteq CheckpointEnds(u, m)
<1>1. /\ Len(s) \in Nat /\ Len(u) \in Nat /\ DOMAIN s = 1 .. Len(s)
      /\ DOMAIN u = 1 .. Len(u) /\ Len(s) <= Len(u)
      /\ \A i \in 1 .. Len(s) : u[i] = s[i]
  BY LenProperties DEF Begins
<1>2. SUFFICES ASSUME NEW e \in CheckpointEnds(s, m)
               PROVE  e \in CheckpointEnds(u, m)
  OBVIOUS
<1>3. e \in 1 .. Len(s) /\ s[e].type = "end_chkpt"
  BY <1>1 DEF CheckpointEnds
<1>4. PICK b \in 1 .. (e - 1) :
         /\ s[b].type = "begin_chkpt" /\ s[b].lsn = m
         /\ \A k \in b .. (e - 1) : s[k].type # "end_chkpt"
  BY DEF CheckpointEnds
<1>5. b \in 1 .. Len(s) /\ \A k \in b .. (e - 1) : k \in 1 .. Len(s)
  BY <1>1, <1>3
<1>6. /\ u[b].type = "begin_chkpt" /\ u[b].lsn = m
      /\ \A k \in b .. (e - 1) : u[k].type # "end_chkpt"
  BY <1>1, <1>4, <1>5
<1>7. e \in DOMAIN u /\ u[e].type = "end_chkpt"
  BY <1>1, <1>3
<1> QED
  BY <1>6, <1>7 DEF CheckpointEnds

LEMMA AppendParts ==
    ASSUME NEW h \in Seq(LogRecord), NEW e \in LogRecord
    PROVE  /\ Len(h) \in Nat /\ DOMAIN h = 1 .. Len(h)
           /\ Append(h, e) \in Seq(LogRecord)
           /\ Len(Append(h, e)) = Len(h) + 1
           /\ DOMAIN Append(h, e) = 1 .. Len(h) + 1
           /\ \A i \in 1 .. Len(h) : Append(h, e)[i] = h[i]
           /\ Append(h, e)[Len(h) + 1] = e
  BY AppendProperties

LEMMA OpensCheckpoint ==
    ASSUME NEW h \in Seq(LogRecord), NEW e \in LogRecord,
           e.type = "begin_chkpt"
    PROVE  CheckpointOpen(Append(h, e), e.lsn)
<1> DEFINE g == Append(h, e)
<1>1. /\ Len(h) \in Nat /\ Len(g) = Len(h) + 1
      /\ DOMAIN g = 1 .. Len(h) + 1 /\ g[Len(h) + 1] = e
  BY AppendParts
<1> HIDE DEF g
<1>2. Len(h) + 1 \in DOMAIN g
      /\ \A k \in Len(h) + 1 .. Len(g) : k = Len(h) + 1
  BY <1>1
<1>3. CheckpointOpen(g, e.lsn)
  BY <1>1, <1>2 DEF CheckpointOpen
<1> QED
  BY <1>3 DEF g

LEMMA ClosesCheckpoint ==
    ASSUME NEW h \in Seq(LogRecord), NEW e \in LogRecord, NEW m,
           e.type = "end_chkpt", CheckpointOpen(h, m)
    PROVE  CheckpointEnds(Append(h, e), m) # {}
<1> DEFINE g == Append(h, e)
           n == Len(h) + 1
<1>1. /\ Len(h) \in Nat /\ DOMAIN h = 1 .. Len(h)
      /\ DOMAIN g = 1 .. n /\ g[n] = e
      /\ \A i \in 1 .. Len(h) : g[i] = h[i]
  BY AppendParts
<1> HIDE DEF g
<1>2. PICK b \in DOMAIN h :
         /\ h[b].type = "begin_chkpt" /\ h[b].lsn = m
         /\ \A k \in b .. Len(h) : h[k].type # "end_chkpt"
  BY DEF CheckpointOpen
<1>3. n \in DOMAIN g /\ b \in 1 .. (n - 1) /\ n - 1 = Len(h)
  BY <1>1
<1>4. /\ g[b].type = "begin_chkpt" /\ g[b].lsn = m
      /\ \A k \in b .. (n - 1) : g[k].type # "end_chkpt"
  BY <1>1, <1>2, <1>3
<1> HIDE DEF n
<1>5. n \in CheckpointEnds(g, m)
  BY <1>1, <1>3, <1>4 DEF CheckpointEnds
<1> QED
  BY <1>5 DEF g

LEMMA CheckpointStep ==
    TypeInv /\ CheckpointInv /\ [Next]_vars => CheckpointInv'
<1> SUFFICES ASSUME TypeInv, CheckpointInv, [Next]_vars PROVE CheckpointInv'
  OBVIOUS
<1>1. /\ log \in LogState /\ log' \in LogState
      /\ log.stable \in Seq(LogRecord) /\ log'.stable \in Seq(LogRecord)
      /\ Begins(log.stable, log'.stable)
  BY NextMoves, MoveExtends, Next_Type DEF TypeInv, TypeOK, LogState
<1>2. ASSUME NEW m, CheckpointEnds(log.stable, m) # {}
      PROVE  CheckpointEnds(log'.stable, m) # {}
  BY <1>1, <1>2, EndsKept
<1>3. /\ HistoryOf(log) \in Seq(LogRecord)
      /\ History = HistoryOf(log) /\ History' = HistoryOf(log')
  BY <1>1, HistoryType DEF HistoryOf, History
<1>4. master' = master => MasterIsComplete'
  BY <1>2 DEF CheckpointInv, MasterIsComplete
<1>5. CASE UNCHANGED vars
  BY <1>5 DEF vars, CheckpointInv, MasterIsComplete, History
<1>6. CASE Apart \/ (\E n \in Names : CommitRecord(n)) \/ CommitEnd
  <2>1. master' = master /\ pc' \notin {"ckptend", "master"}
    BY <1>6 DEF Apart, CommitRecord, CommitEnd, durable
  <2> QED
    BY <1>4, <2>1 DEF CheckpointInv
<1>7. CASE Kill
  <2>1. pc' = "down" /\ master' \in {master, NoLsn}
    BY <1>7 DEF Kill, Forget, MastersLeft
  <2> QED
    BY <1>4, <2>1 DEF CheckpointInv, MasterIsComplete
<1>8. CASE CheckpointBegin
  <2> DEFINE rec == [type |-> "begin_chkpt", lsn |-> log.next,
                     prev |-> NoLsn, xid |-> SysXid]
  <2>1. rec \in LogRecord /\ rec.type = "begin_chkpt" /\ rec.lsn = log.next
    BY <1>1 DEF LogRecord, BeginRecord, LogState
  <2>2. /\ log' = Emit(log, rec) /\ scan' = log.next /\ pc' = "ckptend"
        /\ master' = master
    BY <1>8 DEF CheckpointBegin, durable
  <2> HIDE DEF rec
  <2>3. History' = Append(HistoryOf(log), rec)
    BY <1>1, <1>3, <2>1, <2>2, EmitHistory
  <2>4. CheckpointOpen(History', scan')
    BY <1>3, <2>1, <2>2, <2>3, OpensCheckpoint
  <2> QED
    BY <1>4, <2>2, <2>4 DEF CheckpointInv, CheckpointOpen
<1>9. CASE CheckpointEnd
  <2> DEFINE rec == EndCheckpointRec
  <2>1. rec \in LogRecord /\ rec.type = "end_chkpt"
    BY <1>1 DEF EndCheckpointRec, LogRecord, EndRecord, TypeInv, TypeOK,
                LogState
  <2>2. /\ log' = FlushLog(Emit(log, rec)) /\ scan' = scan /\ pc' = "master"
        /\ master' = master /\ CheckpointOpen(HistoryOf(log), scan)
    BY <1>3, <1>9 DEF CheckpointEnd, CheckpointInv, durable, recovery
  <2> HIDE DEF rec
  <2>3. log'.stable = Append(HistoryOf(log), rec)
    BY <1>1, <2>1, <2>2, EmitFlushHistory
  <2>4. CheckpointEnds(log'.stable, scan') # {}
    BY <1>3, <2>1, <2>2, <2>3, ClosesCheckpoint
  <2> QED
    BY <1>4, <2>2, <2>4 DEF CheckpointInv, CheckpointEnds
<1>10. CASE WriteMaster
  <2>1. /\ pc = "master" /\ master' = scan /\ pc' \in {"idle", "install"}
    BY <1>10 DEF WriteMaster
  <2>2. CheckpointEnds(log'.stable, master') # {}
    BY <1>2, <2>1 DEF CheckpointInv
  <2> QED
    BY <2>1, <2>2 DEF CheckpointInv, MasterIsComplete, CheckpointEnds
<1> QED
  BY <1>5, <1>6, <1>7, <1>8, <1>9, <1>10, StepsApart

\* master.rec never names a checkpoint whose end record could be missing
\* from wal.log: Analysis finds both tables (_checkpoint, _phase_analysis).
THEOREM MasterNamesComplete == Spec => []MasterIsComplete
<1>1. Init => CheckpointInv
  BY DEF Init, CheckpointInv, MasterIsComplete
<1>2. CheckpointInv => MasterIsComplete
  BY DEF CheckpointInv
<1> QED
  BY <1>1, <1>2, CheckpointStep, TypeInvariant, PTL DEF Spec

-----------------------------------------------------------------------------
(* The updates of a history *)

UpdatesIn(h)   == {i \in DOMAIN h : h[i].type = "update"}
UpdatesOf(h, x) == {i \in UpdatesIn(h) : h[i].xid = x}
LsnOfLast(h, is) == IF is = {} THEN NoLsn ELSE h[Max(is)].lsn
LastUpdate(h, x) == LsnOfLast(h, UpdatesOf(h, x))
Chained(h) ==
    \A i \in UpdatesIn(h) :
        h[i].prev = LsnOfLast(h, {j \in UpdatesOf(h, h[i].xid) : j < i})
Below(h, n) == \A i \in UpdatesIn(h) : h[i].xid < n

\* A set of indices has a largest one.
LEMMA MaxIndex ==
    ASSUME NEW n \in Nat, NEW is \in SUBSET (1 .. n), is # {}
    PROVE  Max(is) \in is /\ \A i \in is : i <= Max(is)
<1> DEFINE T == {d \in 0 .. n : n - d \in is}
<1>1. PICK i \in is : TRUE
  OBVIOUS
<1>2. n - i \in T /\ T \subseteq Nat
  OBVIOUS
<1>3. PICK m \in T : \A d \in T : ~(<<d, m>> \in OpToRel(<, Nat))
  BY <1>2, WFMin, NatLessThanWellFounded
<1>4. \A d \in T : ~(d < m)
  BY <1>2, <1>3, Zenon DEF OpToRel
<1>5. ASSUME NEW j \in is PROVE j <= n - m
  <2>1. n - j \in T
    OBVIOUS
  <2>2. m \in Nat /\ ~(n - j < m)
    BY <1>2, <1>4, <2>1
  <2> QED
    BY <2>2
<1>6. n - m \in is
  BY <1>3
<1>7. \E k \in is : \A j \in is : k >= j
  BY <1>5, <1>6
<1>8. Max(is) \in is /\ \A j \in is : Max(is) >= j
  BY <1>7 DEF Max
<1> QED
  BY <1>8

LEMMA LargestIndex ==
    ASSUME NEW n \in Nat, NEW is \in SUBSET (1 .. n), NEW k \in is,
           \A i \in is : i <= k
    PROVE  Max(is) = k
<1> DEFINE m == Max(is)
<1>1. m \in is /\ \A i \in is : i <= m
  BY MaxIndex
<1> HIDE DEF m
<1>2. k <= m /\ m <= k
  BY <1>1
<1>3. k \in Nat /\ m \in Nat
  BY <1>1
<1>4. m = k
  BY <1>2, <1>3
<1> QED
  BY <1>4 DEF m

\* The same indices read the same in a history and in a prefix of it.
LEMMA SameLast ==
    ASSUME NEW u \in Seq(LogRecord), NEW h \in Seq(LogRecord), Begins(u, h),
           NEW is \in SUBSET DOMAIN u
    PROVE  LsnOfLast(u, is) = LsnOfLast(h, is)
<1>1. CASE is = {}
  BY <1>1 DEF LsnOfLast
<1>2. CASE is # {}
  <2>1. Len(u) \in Nat /\ DOMAIN u = 1 .. Len(u)
    BY LenProperties
  <2>2. Max(is) \in DOMAIN u
    BY <1>2, <2>1, MaxIndex
  <2>3. u[Max(is)] = h[Max(is)]
    BY <2>2 DEF Begins
  <2> QED
    BY <1>2, <2>3 DEF LsnOfLast
<1> QED
  BY <1>1, <1>2

\* A prefix of a chained history is chained.
LEMMA PrefixChained ==
    ASSUME NEW u \in Seq(LogRecord), NEW h \in Seq(LogRecord), Begins(u, h),
           Chained(h)
    PROVE  Chained(u)
<1>1. /\ Len(u) \in Nat /\ Len(h) \in Nat /\ Len(u) <= Len(h)
      /\ DOMAIN u = 1 .. Len(u) /\ DOMAIN h = 1 .. Len(h)
      /\ \A i \in DOMAIN u : i \in DOMAIN h /\ u[i] = h[i]
  BY LenProperties DEF Begins
<1>2. ASSUME NEW i \in UpdatesIn(u)
      PROVE  u[i].prev = LsnOfLast(u, {j \in UpdatesOf(u, u[i].xid) : j < i})
  <2> DEFINE is == {j \in UpdatesOf(u, u[i].xid) : j < i}
             js == {j \in UpdatesOf(h, h[i].xid) : j < i}
  <2>1. i \in UpdatesIn(h) /\ u[i] = h[i] /\ i \in 1 .. Len(u)
    BY <1>1 DEF UpdatesIn
  <2>2. is = js
    BY <1>1, <2>1 DEF UpdatesOf, UpdatesIn
  <2>3. is \in SUBSET DOMAIN u
    BY DEF UpdatesOf, UpdatesIn
  <2>4. h[i].prev = LsnOfLast(h, js)
    BY <2>1 DEF Chained
  <2> HIDE DEF is, js
  <2>5. LsnOfLast(u, is) = LsnOfLast(h, is)
    BY <2>3, SameLast
  <2>6. u[i].prev = LsnOfLast(u, is)
    BY <2>1, <2>2, <2>4, <2>5
  <2> QED
    BY <2>6 DEF is
<1> QED
  BY <1>2 DEF Chained

LEMMA PrefixBelow ==
    ASSUME NEW u \in Seq(LogRecord), NEW h \in Seq(LogRecord), Begins(u, h),
           NEW n, Below(h, n)
    PROVE  Below(u, n)
<1>1. \A i \in DOMAIN u : i \in DOMAIN h /\ u[i] = h[i]
  BY LenProperties DEF Begins
<1> QED
  BY <1>1 DEF Below, UpdatesIn

\* A record that is no update changes no chain.
LEMMA OtherAppended ==
    ASSUME NEW h \in Seq(LogRecord), NEW e \in LogRecord, e.type # "update"
    PROVE  /\ Chained(h) => Chained(Append(h, e))
           /\ \A x : LastUpdate(Append(h, e), x) = LastUpdate(h, x)
           /\ \A n : Below(h, n) => Below(Append(h, e), n)
<1> DEFINE g == Append(h, e)
<1>1. /\ Len(h) \in Nat /\ DOMAIN h = 1 .. Len(h) /\ g \in Seq(LogRecord)
      /\ Len(g) = Len(h) + 1 /\ DOMAIN g = 1 .. Len(h) + 1
      /\ \A i \in 1 .. Len(h) : g[i] = h[i]
      /\ g[Len(h) + 1] = e
  BY AppendParts
<1> HIDE DEF g
<1>2. Begins(h, g)
  BY <1>1 DEF Begins
<1>3. UpdatesIn(g) = UpdatesIn(h) /\ \A i \in UpdatesIn(h) : g[i] = h[i]
  BY <1>1 DEF UpdatesIn
<1>4. \A x : UpdatesOf(g, x) = UpdatesOf(h, x)
  BY <1>3 DEF UpdatesOf
<1>5. ASSUME NEW is \in SUBSET DOMAIN h
      PROVE  LsnOfLast(g, is) = LsnOfLast(h, is)
  BY <1>1, <1>2, SameLast
<1>6. ASSUME NEW x PROVE LastUpdate(g, x) = LastUpdate(h, x)
  <2>1. UpdatesOf(h, x) \in SUBSET DOMAIN h
    BY DEF UpdatesOf, UpdatesIn
  <2> QED
    BY <1>4, <1>5, <2>1 DEF LastUpdate
<1>7. ASSUME Chained(h), NEW i \in UpdatesIn(g)
      PROVE  g[i].prev = LsnOfLast(g, {j \in UpdatesOf(g, g[i].xid) : j < i})
  <2> DEFINE is == {j \in UpdatesOf(h, h[i].xid) : j < i}
  <2>1. i \in UpdatesIn(h) /\ g[i] = h[i]
    BY <1>3
  <2>2. h[i].prev = LsnOfLast(h, is)
    BY <1>7, <2>1 DEF Chained
  <2>3. is \in SUBSET DOMAIN h
    BY DEF UpdatesOf, UpdatesIn
  <2>4. {j \in UpdatesOf(g, g[i].xid) : j < i} = is
    BY <1>4, <2>1
  <2> HIDE DEF is
  <2> QED
    BY <1>5, <2>1, <2>2, <2>3, <2>4
<1>8. Chained(h) => Chained(g)
  BY <1>7 DEF Chained
<1>9. \A n : Below(h, n) => Below(g, n)
  BY <1>3 DEF Below
<1> QED
  BY <1>6, <1>8, <1>9 DEF g

\* An update that names the last one of its transaction continues the chain.
LEMMA UpdateAppended ==
    ASSUME NEW h \in Seq(LogRecord), NEW e \in LogRecord, e.type = "update",
           e.prev = LastUpdate(h, e.xid)
    PROVE  /\ Chained(h) => Chained(Append(h, e))
           /\ LastUpdate(Append(h, e), e.xid) = e.lsn
           /\ \A x : x # e.xid =>
                 LastUpdate(Append(h, e), x) = LastUpdate(h, x)
           /\ \A n : Below(h, n) /\ e.xid < n => Below(Append(h, e), n)
<1> DEFINE g == Append(h, e)
           n == Len(h) + 1
<1>1. /\ Len(h) \in Nat /\ DOMAIN h = 1 .. Len(h) /\ g \in Seq(LogRecord)
      /\ Len(g) = n /\ DOMAIN g = 1 .. n /\ n \in Nat
      /\ \A i \in 1 .. Len(h) : g[i] = h[i]
      /\ g[n] = e
  BY AppendParts
<1> HIDE DEF g
<1>2. Begins(h, g)
  BY <1>1 DEF Begins
<1>3. /\ UpdatesIn(g) = UpdatesIn(h) \cup {n}
      /\ \A i \in UpdatesIn(h) : g[i] = h[i] /\ i \in 1 .. Len(h) /\ i < n
  BY <1>1 DEF UpdatesIn
<1>4. /\ UpdatesOf(g, e.xid) = UpdatesOf(h, e.xid) \cup {n}
      /\ \A x : x # e.xid => UpdatesOf(g, x) = UpdatesOf(h, x)
      /\ \A x : UpdatesOf(h, x) \subseteq UpdatesIn(h)
  BY <1>1, <1>3 DEF UpdatesOf
<1> HIDE DEF n
<1>5. ASSUME NEW is \in SUBSET DOMAIN h
      PROVE  LsnOfLast(g, is) = LsnOfLast(h, is)
  BY <1>1, <1>2, SameLast
<1>6. \A x : UpdatesOf(h, x) \in SUBSET DOMAIN h
  BY DEF UpdatesOf, UpdatesIn
<1>7. LastUpdate(g, e.xid) = e.lsn
  <2> DEFINE is == UpdatesOf(g, e.xid)
  <2>1. n \in is /\ is \in SUBSET (1 .. n)
    BY <1>1, <1>4 DEF UpdatesOf, UpdatesIn
  <2>2. \A i \in is : i <= n
    BY <1>1, <2>1
  <2> HIDE DEF is
  <2>3. Max(is) = n
    BY <1>1, <2>1, <2>2, LargestIndex
  <2>4. LsnOfLast(g, is) = e.lsn
    BY <1>1, <2>1, <2>3 DEF LsnOfLast
  <2> QED
    BY <2>4 DEF LastUpdate, is
<1>8. ASSUME NEW x, x # e.xid PROVE LastUpdate(g, x) = LastUpdate(h, x)
  BY <1>4, <1>5, <1>6, <1>8 DEF LastUpdate
<1>9. ASSUME Chained(h), NEW i \in UpdatesIn(g)
      PROVE  g[i].prev = LsnOfLast(g, {j \in UpdatesOf(g, g[i].xid) : j < i})
  <2>1. CASE i = n
    <3>1. {j \in UpdatesOf(g, e.xid) : j < n} = UpdatesOf(h, e.xid)
      <4>1. \A j \in UpdatesOf(h, e.xid) : j < n
        BY <1>3, <1>4
      <4>2. ~(n < n)
        BY <1>1
      <4> QED
        BY <1>4, <4>1, <4>2
    <3>2. e.prev = LsnOfLast(g, UpdatesOf(h, e.xid))
      BY <1>5, <1>6 DEF LastUpdate
    <3> QED
      BY <1>1, <2>1, <3>1, <3>2
  <2>2. CASE i \in UpdatesIn(h)
    <3> DEFINE is == {j \in UpdatesOf(h, h[i].xid) : j < i}
    <3>1. g[i] = h[i] /\ i \in 1 .. Len(h) /\ i < n
      BY <1>3, <2>2
    <3>2. h[i].prev = LsnOfLast(h, is)
      BY <1>9, <2>2 DEF Chained
    <3>3. is \in SUBSET DOMAIN h
      BY <1>6
    <3>4. {j \in UpdatesOf(g, g[i].xid) : j < i} = is
      <4>1. ~(n < i)
        BY <1>1, <3>1
      <4> QED
        BY <1>4, <3>1, <4>1
    <3> HIDE DEF is
    <3> QED
      BY <1>5, <3>1, <3>2, <3>3, <3>4
  <2> QED
    BY <1>3, <2>1, <2>2
<1>10. Chained(h) => Chained(g)
  BY <1>9 DEF Chained
<1>11. \A k : Below(h, k) /\ e.xid < k => Below(g, k)
  BY <1>1, <1>3 DEF Below
<1> QED
  BY <1>7, <1>8, <1>10, <1>11 DEF g

-----------------------------------------------------------------------------
(* The table follows the log *)

Away == Recovering \cup {"down"}     \* no input is served
TxInv ==
    /\ Chained(History)
    /\ pc # "down" => Below(History, nextXid)
    /\ \A n \in Names : openTx[n] # NoXid =>
          /\ openTx[n] < nextXid
          /\ txTable[openTx[n]] = Active(LastUpdate(History, openTx[n]))
    /\ \A n, m \in Names : openTx[n] = openTx[m] /\ openTx[n] # NoXid => n = m
    /\ pc \in Away => \A n \in Names : openTx[n] = NoXid
    /\ pc = "end" => \A n \in Names : openTx[n] # scan

\* What a step does to the history.
LEMMA HistoryMoves ==
    ASSUME TypeInv
    PROVE  /\ History \in Seq(LogRecord)
           /\ Keeps => History' = History
           /\ \A rec \in LogRecord :
                 Emits(rec) => History' = Append(History, rec)
           /\ Loses => \E u \in Seq(LogRecord) :
                          Begins(u, History) /\ History' = u
<1>1. /\ log \in LogState /\ History = HistoryOf(log)
      /\ History' = HistoryOf(log')
  BY DEF TypeInv, TypeOK, History, HistoryOf
<1>2. HistoryOf(log) \in Seq(LogRecord)
  BY <1>1, HistoryType
<1>3. ASSUME Keeps PROVE HistoryOf(log') = HistoryOf(log)
  <2>1. HistoryOf(TakeLsn(log)) = HistoryOf(log)
    BY <1>1, TakeLsnType DEF HistoryOf
  <2> QED
    BY <1>1, <1>3, <2>1, FlushHistory DEF Keeps
<1>4. ASSUME NEW rec \in LogRecord, Emits(rec)
      PROVE  HistoryOf(log') = Append(HistoryOf(log), rec)
  BY <1>1, <1>4, EmitHistory, EmitFlushHistory DEF Emits
<1>5. ASSUME Loses
      PROVE  \E u \in Seq(LogRecord) :
                Begins(u, HistoryOf(log)) /\ HistoryOf(log') = u
  <2>1. PICK u \in Seq(LogRecord) : log' = ReopenLog(u) /\ Begins(u, History)
    BY <1>5 DEF Loses
  <2>2. HistoryOf(ReopenLog(u)) = u
    BY ReopenType, ConcatEmptySeq DEF HistoryOf
  <2> QED
    BY <1>1, <2>1, <2>2
<1> QED
  BY <1>1, <1>2, <1>3, <1>4, <1>5

\* A step that logs no update and touches no open transaction.
LogsNoUpdate ==
    Keeps \/ \E rec \in LogRecord : rec.type # "update" /\ Emits(rec)
Silent ==
    /\ UNCHANGED <<openTx, nextXid>> /\ LogsNoUpdate
    /\ txTable' = txTable \/ pc \in Recovering
    /\ pc \notin {"down", "end"} /\ pc' \notin {"down", "end"}
    /\ pc' \in Recovering => pc \in Recovering

LEMMA NoUpdateMoves ==
    ASSUME TypeInv, LogsNoUpdate
    PROVE  /\ Chained(History) => Chained(History')
           /\ \A x : LastUpdate(History', x) = LastUpdate(History, x)
           /\ \A n : Below(History, n) => Below(History', n)
<1>1. CASE Keeps
  BY <1>1, HistoryMoves
<1>2. ASSUME NEW rec \in LogRecord, rec.type # "update", Emits(rec)
      PROVE  /\ Chained(History) => Chained(History')
             /\ \A x : LastUpdate(History', x) = LastUpdate(History, x)
             /\ \A n : Below(History, n) => Below(History', n)
  <2>1. History \in Seq(LogRecord) /\ History' = Append(History, rec)
    BY <1>2, HistoryMoves
  <2> DEFINE h == History
             g == Append(h, rec)
  <2> HIDE DEF h
  <2>2. h \in Seq(LogRecord)
    BY <2>1 DEF h
  <2>3. /\ Chained(h) => Chained(g)
        /\ \A x : LastUpdate(g, x) = LastUpdate(h, x)
        /\ \A n : Below(h, n) => Below(g, n)
    BY <1>2, <2>2, OtherAppended
  <2> QED
    BY <2>1, <2>3 DEF h
<1> QED
  BY <1>1, <1>2 DEF LogsNoUpdate

LEMMA StepsSilent ==
    ASSUME TypeInv, [Next]_vars
    PROVE  \/ UNCHANGED vars \/ Silent
           \/ \E n \in Names : TxBegin(n) \/ CommitRecord(n)
           \/ \E n \in Names, p \in Pages, cells \in WriteSets, v \in Values :
                 WritePage(n, p, cells, v)
           \/ CommitEnd \/ Kill \/ ExitDone \/ Restart
<1>1. Keeps => LogsNoUpdate
  BY DEF LogsNoUpdate
<1>2. ASSUME NEW p \in Pages, GetPage(p) \/ AllocatePage(p) PROVE Silent
  <2>1. Keeps
    BY <1>2, PoolMoves DEF GetPage, AllocatePage
  <2> QED
    BY <1>1, <1>2, <2>1 DEF GetPage, AllocatePage, Ready, Silent, Recovering
<1>3. CASE StartFlush \/ Shutdown \/ FlushDone \/ WriteMaster
  <2>1. Keeps
    BY <1>3 DEF StartFlush, Shutdown, FlushDone, WriteMaster, Keeps
  <2> QED
    BY <1>1, <1>3, <2>1 DEF StartFlush, Shutdown, FlushDone, WriteMaster, Ready,
                            Silent, tables, Recovering
<1>4. CASE Install
  <2>1. Keeps
    BY <1>4, PoolMoves DEF Install
  <2> QED
    BY <1>1, <1>4, <2>1 DEF Install, Silent, Recovering
<1>5. ASSUME NEW p \in Pages, FlushPage(p) PROVE Silent
  <2>1. Keeps
    BY <1>5, PoolMoves DEF FlushPage
  <2> QED
    BY <1>1, <1>5, <2>1 DEF FlushPage, Silent, Recovering
<1>6. CASE CheckpointBegin
  <2> DEFINE rec == [type |-> "begin_chkpt", lsn |-> log.next,
                     prev |-> NoLsn, xid |-> SysXid]
  <2>1. rec \in LogRecord /\ rec.type # "update"
    BY DEF LogRecord, BeginRecord, TypeInv, TypeOK, LogState
  <2>2. Emits(rec)
    BY <1>6 DEF CheckpointBegin, Emits
  <2> HIDE DEF rec
  <2>3. LogsNoUpdate
    BY <2>1, <2>2 DEF LogsNoUpdate
  <2> QED
    BY <1>6, <2>3 DEF CheckpointBegin, Silent, tables, Recovering
<1>7. CASE CheckpointEnd
  <2> DEFINE rec == EndCheckpointRec
  <2>1. rec \in LogRecord /\ rec.type # "update"
    BY DEF EndCheckpointRec, LogRecord, EndRecord, TypeInv, TypeOK, LogState
  <2>2. Emits(rec)
    BY <1>7 DEF CheckpointEnd, Emits
  <2> HIDE DEF rec
  <2>3. LogsNoUpdate
    BY <2>1, <2>2 DEF LogsNoUpdate
  <2> QED
    BY <1>7, <2>3 DEF CheckpointEnd, Silent, tables, Recovering
<1>8. CASE \/ AnalyzeRecord \/ AnalysisDone \/ RedoSkip \/ RedoApply
           \/ EnsurePageExists \/ RedoFresh \/ RedoDone \/ UndoDone \/ Boot
           \/ RecoveryDone \/ \E x \in Xids : UndoRecord(x)
  <2>1. Keeps
    BY <1>8 DEF AnalyzeRecord, AnalysisDone, RedoSkip, RedoApply,
                EnsurePageExists, RedoFresh, RedoDone, UndoDone, Boot,
                RecoveryDone, UndoRecord, Keeps
  <2>2. CASE AnalyzeRecord \/ AnalysisDone \/ RedoSkip \/ RedoApply
    BY <1>1, <2>1, <2>2 DEF AnalyzeRecord, AnalysisDone, RedoSkip, RedoApply,
       Redoing, Reapply, Silent, tables, Recovering
  <2>3. CASE EnsurePageExists \/ RedoFresh \/ RedoDone \/ UndoDone
    BY <1>1, <2>1, <2>3 DEF EnsurePageExists, RedoFresh, RedoDone, UndoDone,
       Redoing, Reapply, Silent, tables, Recovering
  <2>4. CASE Boot \/ RecoveryDone \/ \E x \in Xids : UndoRecord(x)
    BY <1>1, <2>1, <2>4 DEF Boot, RecoveryDone, UndoRecord, Silent, tables,
       Recovering
  <2> QED
    BY <1>8, <2>2, <2>3, <2>4
<1>9. ASSUME NEW x \in Xids, log' = Emit(log, TxRec("end", x))
      PROVE  LogsNoUpdate
  <2> DEFINE rec == TxRec("end", x)
  <2>1. rec \in LogRecord
    BY TxRecType
  <2>2. rec.type # "update"
    BY DEF TxRec
  <2>3. Emits(rec)
    BY <1>9 DEF Emits
  <2> HIDE DEF rec
  <2> QED
    BY <2>1, <2>2, <2>3 DEF LogsNoUpdate
<1>10. CASE EndLoser
  <2>1. scan \in Xids /\ log' = Emit(log, TxRec("end", scan))
    BY <1>10 DEF EndLoser, EmitEnd, TypeInv, ScanInv
  <2>2. LogsNoUpdate
    BY <1>9, <2>1
  <2> QED
    BY <1>10, <2>2 DEF EndLoser, Silent, Recovering
<1>11. ASSUME NEW x \in Xids, FinishCommitted(x) PROVE Silent
  <2>1. LogsNoUpdate
    BY <1>9, <1>11 DEF FinishCommitted, EmitEnd
  <2> QED
    BY <1>11, <2>1 DEF FinishCommitted, Silent, Recovering
<1> QED
  BY <1>2, <1>3, <1>4, <1>5, <1>6, <1>7, <1>8, <1>10, <1>11
     DEF Next, Serve, Continue, Recover

-----------------------------------------------------------------------------
(* Each step keeps TxInv *)

LEMMA Silent_Tx ==
    ASSUME TypeInv, TxInv, Silent
    PROVE  TxInv'
<1>1. /\ Chained(History') /\ Below(History', nextXid)
      /\ \A x : LastUpdate(History', x) = LastUpdate(History, x)
  BY NoUpdateMoves DEF Silent, TxInv
<1>2. openTx' = openTx /\ nextXid' = nextXid
  BY DEF Silent
<1>3. ASSUME NEW n \in Names, openTx'[n] # NoXid
      PROVE  /\ openTx'[n] < nextXid'
             /\ txTable'[openTx'[n]] =
                   Active(LastUpdate(History', openTx'[n]))
  <2>1. pc \notin Recovering /\ txTable' = txTable
    BY <1>2, <1>3 DEF Silent, TxInv, Away
  <2> QED
    BY <1>1, <1>2, <1>3, <2>1 DEF TxInv
<1>4. pc' \in Away => \A n \in Names : openTx'[n] = NoXid
  BY <1>2 DEF Silent, TxInv, Away
<1>5. pc' # "end"
  BY DEF Silent
<1> QED
  BY <1>1, <1>2, <1>3, <1>4, <1>5 DEF TxInv

\* A new transaction has no update yet: its id is above all in the log.
LEMMA TxBegin_Tx ==
    ASSUME TypeInv, TxInv, NEW k \in Names, TxBegin(k)
    PROVE  TxInv'
<1>1. /\ pc = "idle" /\ pc' \in {"idle", "ckptbegin"} /\ nextXid \in Xids
      /\ nextXid' = nextXid + 1 /\ nextXid \in Nat
      /\ openTx' = [openTx EXCEPT ![k] = nextXid]
      /\ txTable' = [txTable EXCEPT ![nextXid] = Active(NoLsn)]
      /\ History' = History
  BY DEF TxBegin, Ready, MaybeCheckpoint, History, TypeInv, TypeOK
<1>2. openTx \in [Names -> Xids \cup {NoXid}] /\ txTable \in TxTable
  BY DEF TypeInv, TypeOK
<1>3. NoXid \notin Xids /\ \A x \in Xids : x \in Nat
  BY EngineConfig DEF Xids
<1>4. /\ Chained(History) /\ Below(History, nextXid)
  BY <1>1 DEF TxInv
<1>5. Below(History, nextXid + 1)
  <2>1. \A i \in UpdatesIn(History) : History[i].xid \in Nat
    <3>1. History \in Seq(LogRecord)
      BY HistoryMoves
    <3>2. \A rec \in LogRecord : rec.type = "update" => rec.xid \in Nat
      BY RecordFields DEF UpdateRecord, Xids
    <3> QED
      BY <3>1, <3>2 DEF UpdatesIn
  <2> QED
    BY <1>1, <1>4, <2>1 DEF Below
<1>6. LastUpdate(History, nextXid) = NoLsn
  <2>1. UpdatesOf(History, nextXid) = {}
    BY <1>1, <1>4 DEF Below, UpdatesOf
  <2> QED
    BY <2>1 DEF LastUpdate, LsnOfLast
<1>7. \A n \in Names \ {k} : openTx[n] # NoXid =>
         /\ openTx[n] \in Xids /\ openTx[n] < nextXid
         /\ txTable[openTx[n]] = Active(LastUpdate(History, openTx[n]))
  BY <1>2 DEF TxInv
<1>8. ASSUME NEW n \in Names, openTx'[n] # NoXid
      PROVE  /\ openTx'[n] < nextXid'
             /\ txTable'[openTx'[n]] =
                   Active(LastUpdate(History', openTx'[n]))
  <2>1. CASE n = k
    <3>1. openTx'[n] = nextXid /\ txTable'[nextXid] = Active(NoLsn)
      BY <1>1, <1>2, <2>1 DEF TxTable
    <3> QED
      BY <1>1, <1>6, <3>1
  <2>2. CASE n # k
    <3>1. openTx'[n] = openTx[n]
      BY <1>1, <1>2, <2>2
    <3>2. /\ openTx[n] \in Xids /\ openTx[n] < nextXid
          /\ txTable[openTx[n]] = Active(LastUpdate(History, openTx[n]))
      BY <1>7, <1>8, <2>2, <3>1
    <3>3. openTx[n] # nextXid /\ openTx[n] < nextXid + 1
      <4>1. \A y, z \in Nat : y < z => y # z /\ y < z + 1
        OBVIOUS
      <4>2. openTx[n] \in Nat
        BY <1>3, <3>2
      <4> QED
        BY <1>1, <3>2, <4>1, <4>2
    <3>4. txTable'[openTx[n]] = txTable[openTx[n]]
      BY <1>1, <1>2, <3>2, <3>3 DEF TxTable
    <3> QED
      BY <1>1, <3>1, <3>2, <3>3, <3>4
  <2> QED
    BY <2>1, <2>2
<1>9. ASSUME NEW n \in Names, NEW m \in Names, openTx'[n] = openTx'[m],
             openTx'[n] # NoXid
      PROVE  n = m
  <2>1. \A j \in Names : openTx'[j] = IF j = k THEN nextXid ELSE openTx[j]
    BY <1>1, <1>2
  <2>2. \A j \in Names \ {k} : openTx[j] # nextXid
    BY <1>1, <1>3, <1>7
  <2> QED
    BY <1>9, <2>1, <2>2 DEF TxInv
<1>10. pc' \notin Away /\ pc' # "end"
  BY <1>1 DEF Away, Recovering
<1> QED
  BY <1>1, <1>4, <1>5, <1>8, <1>9, <1>10 DEF TxInv

\* An update names the last one of its transaction and becomes the last.
LEMMA WritePage_Tx ==
    ASSUME TypeInv, TxInv, NEW k \in Names, NEW p \in Pages,
           NEW cells \in WriteSets, NEW v \in Values, WritePage(k, p, cells, v)
    PROVE  TxInv'
<1> DEFINE x       == openTx[k]
           before  == CurrentBytes(p)
           changed == [o \in Offsets |-> IF o \in cells THEN v ELSE before[o]]
           stamped == WritePageLsn(changed, log.next)
           rec     == UpdateOf(x, p, before, stamped)
<1>1. /\ openTx \in [Names -> Xids \cup {NoXid}] /\ txTable \in TxTable
      /\ x \in Xids /\ x # NoXid /\ log.next \in Nat
  BY DEF WritePage, TypeInv, TypeOK, LogState
<1>2. /\ pc = "idle" /\ pc' \in {"install", "ckptbegin"}
      /\ openTx' = openTx /\ nextXid' = nextXid
  BY DEF WritePage, Ready, MaybeCheckpoint
<1>3. pc' \notin Away /\ pc' # "end" /\ pc # "down"
  BY <1>2 DEF Away, Recovering
<1>4. CASE log' = TakeLsn(log) /\ txTable' = txTable
  <2>1. History' = History
    BY <1>4, HistoryMoves DEF Keeps
  <2> QED
    BY <1>2, <1>3, <1>4, <2>1 DEF TxInv
<1>5. CASE log' = Emit(log, rec) /\ txTable' = Chain(txTable, x, log.next)
  <2>1. before \in Image
    BY DEF TypeInv, TypeOK, CurrentBytes, Pool, Frame
  <2>2. stamped \in Image
    <3>1. changed \in Image
      BY <2>1, RuntimeConfig DEF Image
    <3> QED
      BY <1>1, <3>1, StampRead
  <2> HIDE DEF before, stamped
  <2>3. rec \in LogRecord
    BY <1>1, <2>1, <2>2, UpdateOfType
  <2>4. /\ rec.type = "update" /\ rec.lsn = log.next /\ rec.xid = x
        /\ rec.prev = txTable[x].lastLSN
    BY DEF UpdateOf, PrevLsn
  <2>5. Emits(rec)
    BY <1>5 DEF Emits
  <2> HIDE DEF rec
  <2>6. x < nextXid /\ txTable[x] = Active(LastUpdate(History, x))
    BY <1>1 DEF TxInv
  <2>7. rec.prev = LastUpdate(History, x)
    BY <2>4, <2>6 DEF Active
  <2> DEFINE h == History
             g == Append(h, rec)
  <2>8. h \in Seq(LogRecord) /\ History' = g
    BY <2>3, <2>5, HistoryMoves
  <2>9. rec.prev = LastUpdate(h, rec.xid)
    BY <2>4, <2>7
  <2> HIDE DEF h
  <2>10. /\ Chained(h) => Chained(g)
         /\ LastUpdate(g, x) = log.next
         /\ \A y : y # x => LastUpdate(g, y) = LastUpdate(h, y)
         /\ \A n : Below(h, n) /\ x < n => Below(g, n)
    BY <2>3, <2>4, <2>8, <2>9, UpdateAppended
  <2>11. Chained(History') /\ Below(History', nextXid)
    BY <1>3, <2>6, <2>8, <2>10 DEF TxInv, h
  <2>12. /\ txTable'[x] = Active(log.next)
         /\ \A y \in Xids : y # x => txTable'[y] = txTable[y]
    BY <1>1, <1>5, <2>6 DEF Chain, TxTable, TxEntry, Active
  <2>13. ASSUME NEW n \in Names, openTx[n] # NoXid
         PROVE  txTable'[openTx[n]] = Active(LastUpdate(History', openTx[n]))
    <3>1. CASE openTx[n] = x
      BY <2>8, <2>10, <2>12, <3>1
    <3>2. CASE openTx[n] # x
      <4>1. /\ openTx[n] \in Xids
            /\ txTable[openTx[n]] = Active(LastUpdate(h, openTx[n]))
        BY <1>1, <2>13 DEF TxInv, h
      <4> QED
        BY <2>8, <2>10, <2>12, <3>2, <4>1
    <3> QED
      BY <3>1, <3>2
  <2> QED
    BY <1>2, <1>3, <2>11, <2>13 DEF TxInv
<1> QED
  BY <1>4, <1>5 DEF WritePage

\* A transaction that commits is no longer open.
LEMMA CommitRecord_Tx ==
    ASSUME TypeInv, TxInv, NEW k \in Names, CommitRecord(k)
    PROVE  TxInv'
<1> DEFINE x   == openTx[k]
           rec == TxRec("commit", x)
<1>1. /\ openTx \in [Names -> Xids \cup {NoXid}] /\ txTable \in TxTable
      /\ x \in Xids /\ x # NoXid
  BY DEF CommitRecord, TypeInv, TypeOK
<1>2. /\ pc = "idle" /\ pc' = "end" /\ scan' = x /\ nextXid' = nextXid
      /\ openTx' = [openTx EXCEPT ![k] = NoXid]
      /\ txTable' = [txTable EXCEPT ![x] = [status |-> "committed",
                                            lastLSN |-> log.next]]
      /\ log' = FlushLog(Emit(log, rec))
  BY DEF CommitRecord, Ready
<1>3. rec \in LogRecord
  BY <1>1, TxRecType
<1>4. rec.type # "update" /\ Emits(rec)
  BY <1>2 DEF TxRec, Emits
<1> HIDE DEF rec
<1>5. LogsNoUpdate
  BY <1>3, <1>4 DEF LogsNoUpdate
<1>6. /\ Chained(History') /\ Below(History', nextXid)
      /\ \A y : LastUpdate(History', y) = LastUpdate(History, y)
  BY <1>2, <1>5, NoUpdateMoves DEF TxInv
<1>7. \A n \in Names : openTx'[n] = IF n = k THEN NoXid ELSE openTx[n]
  BY <1>1, <1>2
<1>8. \A n \in Names \ {k} : openTx[n] # x
  BY <1>1 DEF TxInv
<1>9. \A y \in Xids : y # x => txTable'[y] = txTable[y]
  BY <1>1, <1>2 DEF TxTable
<1> HIDE DEF x
<1>10. ASSUME NEW n \in Names, openTx'[n] # NoXid
       PROVE  /\ openTx'[n] < nextXid'
              /\ txTable'[openTx'[n]] =
                    Active(LastUpdate(History', openTx'[n]))
  <2>1. n # k /\ openTx'[n] = openTx[n] /\ openTx[n] # x
    BY <1>7, <1>8, <1>10
  <2>2. openTx[n] \in Xids
    BY <1>1, <1>10, <2>1
  <2>3. /\ openTx[n] < nextXid
        /\ txTable[openTx[n]] = Active(LastUpdate(History, openTx[n]))
    BY <1>10, <2>1 DEF TxInv
  <2> QED
    BY <1>2, <1>6, <1>9, <2>1, <2>2, <2>3
<1>11. ASSUME NEW n \in Names, NEW m \in Names, openTx'[n] = openTx'[m],
              openTx'[n] # NoXid
       PROVE  n = m
  <2>1. openTx'[n] = openTx[n] /\ openTx'[m] = openTx[m]
    BY <1>7, <1>11
  <2> QED
    BY <1>11, <2>1 DEF TxInv
<1>12. pc' \notin Away /\ \A n \in Names : openTx'[n] # scan'
  BY <1>1, <1>2, <1>7, <1>8 DEF Away, Recovering
<1> QED
  BY <1>2, <1>6, <1>10, <1>11, <1>12 DEF TxInv

LEMMA CommitEnd_Tx ==
    ASSUME TypeInv, TxInv, CommitEnd
    PROVE  TxInv'
<1> DEFINE rec == TxRec("end", scan)
<1>1. /\ pc = "end" /\ pc' = "idle" /\ scan \in Xids
      /\ openTx' = openTx /\ nextXid' = nextXid
      /\ txTable' = [txTable EXCEPT ![scan] = NoTx]
      /\ log' = FlushLog(Emit(log, rec))
  BY DEF CommitEnd, TypeInv, ScanInv
<1>2. rec \in LogRecord
  BY <1>1, TxRecType
<1>3. rec.type # "update" /\ Emits(rec)
  BY <1>1 DEF TxRec, Emits
<1> HIDE DEF rec
<1>4. LogsNoUpdate
  BY <1>2, <1>3 DEF LogsNoUpdate
<1>5. /\ Chained(History') /\ Below(History', nextXid)
      /\ \A y : LastUpdate(History', y) = LastUpdate(History, y)
  BY <1>1, <1>4, NoUpdateMoves DEF TxInv
<1>6. ASSUME NEW n \in Names, openTx[n] # NoXid
      PROVE  txTable'[openTx[n]] = Active(LastUpdate(History', openTx[n]))
  <2>1. /\ openTx[n] \in Xids /\ openTx[n] # scan
        /\ txTable[openTx[n]] = Active(LastUpdate(History, openTx[n]))
    BY <1>1, <1>6 DEF TxInv, TypeInv, TypeOK
  <2>2. txTable'[openTx[n]] = txTable[openTx[n]]
    BY <1>1, <2>1 DEF TypeInv, TypeOK, TxTable
  <2> QED
    BY <1>5, <2>1, <2>2
<1>7. pc' \notin Away /\ pc' # "end"
  BY <1>1 DEF Away, Recovering
<1> QED
  BY <1>1, <1>5, <1>6, <1>7 DEF TxInv

\* After a crash or an exit nothing is open; a restart reads the next id.
LEMMA Down_Tx ==
    ASSUME TypeInv, TxInv, Kill \/ ExitDone \/ Restart
    PROVE  TxInv'
<1>1. /\ Loses
      /\ \A n \in Names : openTx'[n] = NoXid
      /\ pc' \in Away
  <2>1. CASE Kill
    <3>1. PICK u : /\ log' = ReopenLog(u)
                   /\ \E n \in 0 .. Len(log.buf) :
                         u = log.stable \o SubSeq(log.buf, 1, n)
      BY <2>1 DEF Kill
    <3>2. Loses
      BY <3>1, ReopenMoves
    <3> QED
      BY <2>1, <3>2 DEF Kill, Forget, Away
  <2>2. CASE ExitDone
    <3>1. FlushLog(log).stable = HistoryOf(log)
      BY FlushHistory DEF TypeInv, TypeOK
    <3>2. log' = ReopenLog(HistoryOf(log))
      BY <2>2, <3>1 DEF ExitDone
    <3>3. Loses
      BY <3>2, ReopenMoves
    <3> QED
      BY <2>2, <3>3 DEF ExitDone, Forget, Away
  <2>3. CASE Restart
    <3>1. Loses
      BY <2>3, ReopenMoves DEF Restart
    <3> QED
      BY <2>3, <3>1 DEF Restart, TxInv, Away, Recovering
  <2> QED
    BY <2>1, <2>2, <2>3
<1>2. Chained(History')
  <2>1. PICK u \in Seq(LogRecord) : Begins(u, History) /\ History' = u
    BY <1>1, HistoryMoves
  <2>2. History \in Seq(LogRecord) /\ Chained(History)
    BY HistoryMoves DEF TxInv
  <2> QED
    BY <2>1, <2>2, PrefixChained
<1>3. pc' # "down" => Below(History', nextXid')
  <2>1. CASE Kill \/ ExitDone
    BY <2>1 DEF Kill, ExitDone, Forget
  <2>2. CASE Restart
    <3> DEFINE s == log.stable
    <3>1. s \in Seq(LogRecord)
      BY DEF TypeInv, TypeOK, LogState
    <3>2. nextXid' = NextXid(s) /\ log' = ReopenLog(s)
      BY <2>2 DEF Restart
    <3> HIDE DEF s
    <3>3. History' = s
      BY <3>1, <3>2, ReopenType, ConcatEmptySeq DEF History
    <3>4. \A i \in DOMAIN s : s[i].xid < NextXid(s)
      BY <3>1, NextXidType
    <3> QED
      BY <3>2, <3>3, <3>4 DEF Below, UpdatesIn
  <2> QED
    BY <2>1, <2>2
<1>4. pc' # "end"
  BY <1>1 DEF Away, Recovering
<1> QED
  BY <1>1, <1>2, <1>3, <1>4 DEF TxInv

LEMMA Next_Tx == TypeInv /\ TxInv /\ [Next]_vars => TxInv'
<1> SUFFICES ASSUME TypeInv, TxInv, [Next]_vars PROVE TxInv'
  OBVIOUS
<1>1. CASE UNCHANGED vars
  BY <1>1 DEF vars, TxInv, History
<1> QED
  BY <1>1, StepsSilent, Silent_Tx, TxBegin_Tx, WritePage_Tx, CommitRecord_Tx,
     CommitEnd_Tx, Down_Tx

LEMMA Init_Tx == Init => TxInv
<1> SUFFICES ASSUME Init PROVE TxInv
  OBVIOUS
<1>1. History = << >>
  <2>1. << >> \in Seq(LogRecord) /\ log = ReopenLog(<< >>)
    BY DEF Init
  <2> QED
    BY <2>1, ReopenType, ConcatEmptySeq DEF History
<1>2. pc = "down" /\ \A n \in Names : openTx[n] = NoXid
  BY DEF Init
<1>3. Chained(History)
  BY <1>1 DEF Chained, UpdatesIn
<1> QED
  BY <1>2, <1>3 DEF TxInv

LEMMA AlwaysTxInv == Spec => []TxInv
<1> QED
  BY Init_Tx, Next_Tx, TypeInvariant, PTL DEF Spec

\* Following prev_lsn from the last update of a transaction visits all its
\* updates, latest first, across checkpoints, crashes and restarts
\* (_emit_with_lsn, begin and __init__'s next id).
THEOREM ChainsAreIntact == Spec => []ChainIntact
<1>1. TxInv => ChainIntact
  BY DEF TxInv, Chained, UpdatesIn, UpdatesOf, LsnOfLast, ChainIntact, IndicesOf
<1> QED
  BY <1>1, AlwaysTxInv, PTL

-----------------------------------------------------------------------------
(* Nothing is left of a transaction that is not open *)

Clean(x) == txTable[x].lastLSN = NoLsn
WellFormed(tt) == \A x \in Xids : tt[x].status = "none" => tt[x].lastLSN = NoLsn
TablesLogged(h) ==
    \A i \in DOMAIN h : h[i].type = "end_chkpt" => WellFormed(h[i].txs)

\* Undo leaves no loser, the end records no committed transaction, and a
\* commit its own only until its end record.
TableInv ==
    /\ WellFormed(txTable)
    /\ pc \in {"undo", "endloser"} =>
          \A x \in Xids :
             txTable[x].status = "active" /\ toUndo[x] = NoLsn =>
                Clean(x) \/ (pc = "endloser" /\ x = scan)
    /\ pc = "finish" =>
          \A x \in Xids : txTable[x].status = "active" => Clean(x)
    /\ pc = "boot" => \A x \in Xids : Clean(x)
    /\ pc \notin Away =>
          \A x \in Xids : x \in OpenXids \/ Clean(x) \/ (pc = "end" /\ x = scan)

LEMMA PrefixLogged ==
    ASSUME NEW u \in Seq(LogRecord), NEW h \in Seq(LogRecord), Begins(u, h),
           TablesLogged(h)
    PROVE  TablesLogged(u)
<1>1. \A i \in DOMAIN u : i \in DOMAIN h /\ u[i] = h[i]
  BY LenProperties DEF Begins
<1> QED
  BY <1>1 DEF TablesLogged

LEMMA AppendLogged ==
    ASSUME NEW h \in Seq(LogRecord), NEW e \in LogRecord, TablesLogged(h),
           e.type = "end_chkpt" => WellFormed(e.txs)
    PROVE  TablesLogged(Append(h, e))
<1> DEFINE g == Append(h, e)
<1>1. /\ DOMAIN h = 1 .. Len(h) /\ DOMAIN g = 1 .. Len(h) + 1
      /\ Len(h) \in Nat /\ \A i \in 1 .. Len(h) : g[i] = h[i]
      /\ g[Len(h) + 1] = e
  BY AppendParts
<1> HIDE DEF g
<1>2. \A i \in DOMAIN g : i \in DOMAIN h \/ i = Len(h) + 1
  BY <1>1
<1>3. TablesLogged(g)
  BY <1>1, <1>2 DEF TablesLogged
<1> QED
  BY <1>3 DEF g

\* A checkpoint logs the table as it is.
LEMMA Logged_Table ==
    ASSUME TypeInv, WellFormed(txTable), TablesLogged(History), [Next]_vars
    PROVE  TablesLogged(History')
<1>1. History \in Seq(LogRecord)
  BY HistoryMoves
<1>2. CASE Keeps
  BY <1>2, HistoryMoves
<1>3. CASE Grows
  <2>1. PICK rec \in LogRecord :
           Emits(rec) /\ (rec.type = "end_chkpt" => rec.txs = txTable)
    BY <1>3 DEF Grows
  <2>2. History' = Append(History, rec)
    BY <2>1, HistoryMoves
  <2>3. rec.type = "end_chkpt" => WellFormed(rec.txs)
    BY <2>1
  <2> QED
    BY <1>1, <2>2, <2>3, AppendLogged
<1>4. CASE Loses
  <2>1. PICK u \in Seq(LogRecord) : Begins(u, History) /\ History' = u
    BY <1>4, HistoryMoves
  <2> QED
    BY <1>1, <2>1, PrefixLogged
<1> QED
  BY <1>2, <1>3, <1>4, NextMoves DEF LogMove

\* Recovery takes the losers and the committed transactions out of the table.
LEMMA Recover_Table ==
    ASSUME TypeInv, TxInv, TableInv, Recover
    PROVE  TableInv'
<1>1. /\ txTable \in TxTable /\ toUndo \in [Xids -> Lsns]
      /\ \A x \in Xids :
            /\ txTable[x].status \in {"none", "active", "committed"}
            /\ txTable[x].lastLSN \in Lsns
      /\ WellFormed(txTable)
  BY DEF TypeInv, TypeOK, TxTable, TxEntry, TableInv
<1>2. NoTx.lastLSN = NoLsn /\ NoTx.status = "none"
  BY DEF NoTx
<1>3. CASE AnalyzeRecord
  <2>1. pc = "analysis" /\ pc' = "analysis"
    BY <1>3 DEF AnalyzeRecord
  <2>2. WellFormed(txTable')
    <3> DEFINE rec == log.stable[scan]
    <3>1. CASE UNCHANGED txTable
      BY <1>1, <3>1
    <3>2. CASE Analyzed(rec)
      <4> HIDE DEF rec
      <4>1. \/ txTable' = [txTable EXCEPT ![rec.xid] = Active(rec.lsn)]
            \/ txTable' = txTable
            \/ txTable' = [txTable EXCEPT ![rec.xid] =
                             [status |-> "committed", lastLSN |-> rec.lsn]]
            \/ txTable' = [txTable EXCEPT ![rec.xid] = NoTx]
        BY <3>2 DEF Analyzed
      <4> QED
        BY <1>1, <1>2, <4>1 DEF WellFormed, TxTable, Active
    <3> QED
      BY <1>3, <3>1, <3>2 DEF AnalyzeRecord
  <2> QED
    BY <2>1, <2>2 DEF TableInv, Away, Recovering
<1>4. CASE \/ AnalysisDone \/ RedoSkip \/ RedoApply
           \/ EnsurePageExists \/ RedoFresh
  <2>1. txTable' = txTable /\ pc' \in {"redo", "redofresh"}
    BY <1>4 DEF AnalysisDone, RedoSkip, RedoApply, EnsurePageExists, RedoFresh,
                Redoing, Reapply, tables
  <2> QED
    BY <1>1, <2>1 DEF TableInv, Away, Recovering
<1>5. CASE RedoDone
  <2>1. /\ txTable' = txTable /\ pc' = "undo"
        /\ toUndo' = [x \in Xids |-> IF txTable[x].status = "active"
                                     THEN txTable[x].lastLSN ELSE NoLsn]
    BY <1>5 DEF RedoDone, tables
  <2> QED
    BY <1>1, <2>1 DEF TableInv, Away, Recovering, Clean
<1>6. ASSUME NEW x \in Xids, UndoRecord(x) PROVE TableInv'
  <2>1. PICK i \in 1 .. bootLen :
           /\ toUndo' = [toUndo EXCEPT ![x] = log.stable[i].prev]
           /\ \/ log.stable[i].prev # NoLsn /\ UNCHANGED <<pc, scan>>
              \/ pc' = "endloser" /\ scan' = x
    BY <1>6 DEF UndoRecord
  <2>2. txTable' = txTable /\ pc = "undo"
    BY <1>6 DEF UndoRecord, tables
  <2>3. ASSUME NEW y \in Xids, txTable[y].status = "active", toUndo'[y] = NoLsn
        PROVE  Clean(y) \/ (pc' = "endloser" /\ y = scan')
    <3>1. CASE y = x
      BY <1>1, <2>1, <2>3, <3>1
    <3>2. CASE y # x
      <4>1. toUndo[y] = NoLsn
        BY <1>1, <2>1, <2>3, <3>2
      <4> QED
        BY <2>2, <2>3, <4>1 DEF TableInv
    <3> QED
      BY <3>1, <3>2
  <2>4. pc' \in {"undo", "endloser"}
    BY <2>1, <2>2
  <2> QED
    BY <1>1, <2>2, <2>3, <2>4 DEF TableInv, Away, Recovering, Clean
<1>7. CASE EndLoser
  <2>1. /\ pc = "endloser" /\ pc' = "undo" /\ toUndo' = toUndo
        /\ txTable' = [txTable EXCEPT ![scan] = NoTx] /\ scan \in Xids
    BY <1>7 DEF EndLoser, EmitEnd, TypeInv, ScanInv
  <2>2. \A y \in Xids : txTable'[y] = IF y = scan THEN NoTx ELSE txTable[y]
    BY <1>1, <2>1 DEF TxTable
  <2> QED
    BY <1>1, <1>2, <2>1, <2>2 DEF TableInv, WellFormed, Away, Recovering, Clean
<1>8. CASE UndoDone
  <2>1. /\ pc = "undo" /\ pc' = "finish" /\ txTable' = txTable
        /\ \A x \in Xids : toUndo[x] = NoLsn
    BY <1>8 DEF UndoDone, tables
  <2> QED
    BY <1>1, <2>1 DEF TableInv, Away, Recovering, Clean
<1>9. ASSUME NEW x \in Xids, FinishCommitted(x) PROVE TableInv'
  <2>1. /\ pc = "finish" /\ pc' = "finish"
        /\ txTable' = [txTable EXCEPT ![x] = NoTx]
    BY <1>9 DEF FinishCommitted, EmitEnd
  <2>2. \A y \in Xids : txTable'[y] = IF y = x THEN NoTx ELSE txTable[y]
    BY <1>1, <2>1 DEF TxTable
  <2> QED
    BY <1>1, <1>2, <2>1, <2>2 DEF TableInv, WellFormed, Away, Recovering, Clean
<1>10. CASE RecoveryDone
  <2>1. /\ pc = "finish" /\ pc' = "boot" /\ txTable' = txTable
        /\ \A x \in Xids : txTable[x].status # "committed"
    BY <1>10 DEF RecoveryDone, tables
  <2> QED
    BY <1>1, <2>1 DEF TableInv, WellFormed, Away, Recovering, Clean
<1>11. CASE Boot
  <2>1. pc = "boot" /\ pc' = "idle" /\ txTable' = txTable
    BY <1>11 DEF Boot, tables
  <2> QED
    BY <1>1, <2>1 DEF TableInv, Away, Recovering, Clean
<1> QED
  BY <1>3, <1>4, <1>5, <1>6, <1>7, <1>8, <1>9, <1>10, <1>11 DEF Recover

\* While input is served only open transactions and the committing one are
\* in the table.
LEMMA Serve_Table ==
    ASSUME TypeInv, TxInv, TableInv, pc \notin Away, [Next]_vars,
           ~Kill, ~ExitDone
    PROVE  TableInv'
<1>1. /\ txTable \in TxTable /\ openTx \in [Names -> Xids \cup {NoXid}]
      /\ WellFormed(txTable) /\ NoXid \notin Xids
      /\ \A x \in Xids : x \in OpenXids \/ Clean(x) \/ (pc = "end" /\ x = scan)
  BY EngineConfig DEF TypeInv, TypeOK, TableInv
<1>2. CASE Silent
  <2>1. /\ txTable' = txTable /\ openTx' = openTx /\ pc # "end"
        /\ pc' \notin Away
    BY <1>2 DEF Silent, Away
  <2>2. OpenXids' = OpenXids
    BY <2>1 DEF OpenXids
  <2> QED
    BY <1>1, <2>1, <2>2 DEF TableInv, Away, Recovering, Clean
<1>3. CASE UNCHANGED vars
  BY <1>3 DEF vars, TableInv, OpenXids, Clean
<1>4. ASSUME NEW k \in Names, TxBegin(k) PROVE TableInv'
  <2>1. /\ pc = "idle" /\ pc' \in {"idle", "ckptbegin"} /\ nextXid \in Xids
        /\ openTx' = [openTx EXCEPT ![k] = nextXid] /\ openTx[k] = NoXid
        /\ txTable' = [txTable EXCEPT ![nextXid] = Active(NoLsn)]
    BY <1>4 DEF TxBegin, Ready, MaybeCheckpoint
  <2>2. \A n \in Names : openTx'[n] = IF n = k THEN nextXid ELSE openTx[n]
    BY <1>1, <2>1
  <2>3. OpenXids \subseteq OpenXids'
    BY <2>1, <2>2 DEF OpenXids
  <2>4. \A x \in Xids : txTable'[x] = IF x = nextXid THEN Active(NoLsn)
                                      ELSE txTable[x]
    BY <1>1, <2>1 DEF TxTable
  <2>5. \A x \in Xids : x \in OpenXids' \/ txTable'[x].lastLSN = NoLsn
    BY <1>1, <2>1, <2>3, <2>4 DEF Active, Clean
  <2>6. WellFormed(txTable')
    BY <1>1, <2>4 DEF WellFormed, Active
  <2> QED
    BY <2>1, <2>5, <2>6 DEF TableInv, Clean, Away, Recovering
<1>5. ASSUME NEW k \in Names, NEW p \in Pages, NEW cells \in WriteSets,
             NEW v \in Values, WritePage(k, p, cells, v)
      PROVE  TableInv'
  <2> DEFINE x == openTx[k]
  <2>1. /\ pc = "idle" /\ pc' \in {"install", "ckptbegin"} /\ x \in Xids
        /\ openTx' = openTx
        /\ txTable' \in {txTable, Chain(txTable, x, log.next)}
    BY <1>1, <1>5 DEF WritePage, Ready, MaybeCheckpoint
  <2>2. x \in OpenXids /\ OpenXids' = OpenXids
    BY <1>1, <2>1 DEF OpenXids
  <2> HIDE DEF x
  <2>3. \A y \in Xids : y # x => txTable'[y] = txTable[y]
    BY <1>1, <2>1 DEF Chain, TxTable
  <2>4. txTable'[x].status = txTable[x].status
        /\ (txTable[x].status = "none" => txTable'[x] = txTable[x])
    BY <1>1, <2>1 DEF Chain, TxTable, TxEntry
  <2>5. WellFormed(txTable')
    BY <1>1, <2>1, <2>3, <2>4 DEF WellFormed
  <2>6. \A y \in Xids : y \in OpenXids' \/ txTable'[y].lastLSN = NoLsn
    BY <1>1, <2>1, <2>2, <2>3 DEF Clean
  <2> QED
    BY <2>1, <2>5, <2>6 DEF TableInv, Clean, Away, Recovering
<1>6. ASSUME NEW k \in Names, CommitRecord(k) PROVE TableInv'
  <2> DEFINE x == openTx[k]
             e == [status |-> "committed", lastLSN |-> log.next]
  <2>1. /\ pc = "idle" /\ pc' = "end" /\ scan' = x /\ x \in Xids
        /\ openTx' = [openTx EXCEPT ![k] = NoXid]
        /\ txTable' = [txTable EXCEPT ![x] = e]
    BY <1>1, <1>6 DEF CommitRecord, Ready
  <2>2. e.status = "committed"
    OBVIOUS
  <2> HIDE DEF e
  <2>3. \A n \in Names : openTx'[n] = IF n = k THEN NoXid ELSE openTx[n]
    BY <1>1, <2>1
  <2>4. OpenXids \ {x} \subseteq OpenXids'
    BY <2>3 DEF OpenXids
  <2> HIDE DEF x
  <2>5. \A y \in Xids : txTable'[y] = IF y = x THEN e ELSE txTable[y]
    BY <1>1, <2>1 DEF TxTable
  <2>6. WellFormed(txTable')
    BY <1>1, <2>2, <2>5 DEF WellFormed
  <2>7. \A y \in Xids : y \in OpenXids' \/ txTable'[y].lastLSN = NoLsn \/ y = x
    BY <1>1, <2>1, <2>4, <2>5 DEF Clean
  <2> QED
    BY <2>1, <2>6, <2>7 DEF TableInv, Clean, Away, Recovering
<1>7. CASE CommitEnd
  <2>1. /\ pc' = "idle" /\ openTx' = openTx /\ pc = "end" /\ scan \in Xids
        /\ txTable' = [txTable EXCEPT ![scan] = NoTx]
    BY <1>7 DEF CommitEnd, TypeInv, ScanInv
  <2>2. OpenXids' = OpenXids
    BY <2>1 DEF OpenXids
  <2>3. \A y \in Xids : txTable'[y] = IF y = scan THEN NoTx ELSE txTable[y]
    BY <1>1, <2>1 DEF TxTable
  <2>4. WellFormed(txTable')
    BY <1>1, <2>3 DEF WellFormed, NoTx
  <2>5. \A y \in Xids : y \in OpenXids' \/ txTable'[y].lastLSN = NoLsn
    BY <1>1, <2>2, <2>3 DEF Clean, NoTx
  <2> QED
    BY <2>1, <2>4, <2>5 DEF TableInv, Clean, Away, Recovering
<1>8. ~Restart
  BY DEF Restart, Away
<1> QED
  BY <1>2, <1>3, <1>4, <1>5, <1>6, <1>7, <1>8, StepsSilent

\* A restart takes the table of the last complete checkpoint or none.
LEMMA Down_Table ==
    ASSUME TypeInv, TableInv, TablesLogged(History), Kill \/ ExitDone \/ Restart
    PROVE  TableInv'
<1>1. WellFormed(NoTable) /\ \A x \in Xids : NoTable[x].lastLSN = NoLsn
  BY DEF WellFormed, NoTable, NoTx
<1>2. CASE Kill \/ ExitDone
  <2>1. pc' = "down" /\ txTable' = NoTable
    BY <1>2 DEF Kill, ExitDone, Forget
  <2> QED
    BY <1>1, <2>1 DEF TableInv, Away
<1>3. CASE Restart
  <2> DEFINE s == log.stable
  <2>1. s \in Seq(LogRecord) /\ Begins(s, History)
    <3>1. s \in Seq(LogRecord) /\ log.buf \in Seq(LogRecord)
      BY DEF TypeInv, TypeOK, LogState
    <3> QED
      BY <3>1, AppendedType DEF Begins, History
  <2>2. /\ pc' = IF s = << >> THEN "boot" ELSE "analysis"
        /\ \/ \E e \in CheckpointEnds(s, master) : txTable' = s[e].txs
           \/ txTable' = NoTable
    BY <1>3 DEF Restart, LoadTables
  <2> HIDE DEF s
  <2>3. TablesLogged(s)
    BY <2>1, HistoryMoves, PrefixLogged
  <2>4. WellFormed(txTable')
    BY <1>1, <2>2, <2>3 DEF TablesLogged, CheckpointEnds
  <2>5. s = << >> => \A x \in Xids : txTable'[x].lastLSN = NoLsn
    <3>1. s = << >> => CheckpointEnds(s, master) = {}
      BY DEF CheckpointEnds
    <3> QED
      BY <1>1, <2>2, <3>1
  <2> QED
    BY <2>2, <2>4, <2>5 DEF TableInv, Clean, Away, Recovering
<1> QED
  BY <1>2, <1>3

LEMMA Next_Table ==
    TypeInv /\ TxInv /\ TableInv /\ TablesLogged(History) /\ [Next]_vars
        => (TableInv /\ TablesLogged(History))'
<1> SUFFICES ASSUME TypeInv, TxInv, TableInv, TablesLogged(History), [Next]_vars
             PROVE  (TableInv /\ TablesLogged(History))'
  OBVIOUS
<1>1. TablesLogged(History')
  BY Logged_Table DEF TableInv
<1>2. ASSUME pc \notin Away PROVE TableInv'
  BY <1>2, Serve_Table, Down_Table
<1>3. ASSUME pc \in Away PROVE TableInv'
  <2>1. ~Serve
    <3>1. pc # "idle"
      BY <1>3 DEF Away, Recovering
    <3> QED
      BY <3>1 DEF Serve, TxBegin, CommitRecord, GetPage, AllocatePage,
                  WritePage, StartFlush, Shutdown, Ready
  <2>2. ~Continue
    <3>1. pc \notin {"install", "ckptbegin", "ckptend", "master", "end",
                     "flush", "exit"}
      BY <1>3 DEF Away, Recovering
    <3> QED
      BY <3>1 DEF Continue, Install, CheckpointBegin, CheckpointEnd,
                  WriteMaster, CommitEnd, FlushPage, FlushDone, ExitDone
  <2>3. ASSUME UNCHANGED vars PROVE TableInv'
    BY <2>3 DEF vars, TableInv, OpenXids, Clean
  <2> QED
    BY <2>1, <2>2, <2>3, Recover_Table, Down_Table DEF Next
<1> QED
  BY <1>1, <1>2, <1>3

LEMMA Init_Table == Init => TableInv /\ TablesLogged(History)
<1> SUFFICES ASSUME Init PROVE TableInv /\ TablesLogged(History)
  OBVIOUS
<1>1. History = << >>
  <2>1. << >> \in Seq(LogRecord) /\ log = ReopenLog(<< >>)
    BY DEF Init
  <2> QED
    BY <2>1, ReopenType, ConcatEmptySeq DEF History
<1>2. pc = "down" /\ txTable = NoTable
  BY DEF Init
<1>3. TablesLogged(History)
  BY <1>1 DEF TablesLogged
<1>4. TableInv
  BY <1>2 DEF TableInv, WellFormed, NoTable, NoTx, Away
<1> QED
  BY <1>3, <1>4

LEMMA AlwaysTableInv == Spec => []TableInv
<1>1. Spec => [](TableInv /\ TablesLogged(History))
  BY AlwaysTxInv, Init_Table, Next_Table, TypeInvariant, PTL DEF Spec
<1> QED
  BY <1>1, PTL

\* Between two operations exactly the open transactions have work to lose:
\* recovery leaves no loser behind, also one it learnt from a checkpoint,
\* and a commit takes its own transaction out of the table
\* (_phase_undo, _recover, commit).
THEOREM NoTransactionIsLeft == Spec => []NoZombies
<1>1. TypeInv /\ TxInv /\ TableInv => NoZombies
  <2> SUFFICES ASSUME TypeInv, TxInv, TableInv, pc = "idle" PROVE
               /\ \A x \in OpenXids : txTable[x].status = "active"
               /\ \A x \in Xids \ OpenXids : txTable[x].lastLSN = NoLsn
    BY DEF NoZombies
  <2>1. ASSUME NEW x \in OpenXids PROVE txTable[x].status = "active"
    <3>1. PICK n \in Names : openTx[n] = x /\ x # NoXid
      BY DEF OpenXids
    <3>2. txTable[x] = Active(LastUpdate(History, x))
      BY <3>1 DEF TxInv
    <3> QED
      BY <3>2 DEF Active
  <2>2. pc \notin Away
    BY DEF Away, Recovering
  <2> QED
    BY <2>1, <2>2 DEF TableInv, Clean
<1> QED
  BY <1>1, AlwaysTxInv, AlwaysTableInv, TypeInvariant, PTL

-----------------------------------------------------------------------------
(* What the beginning of a log says of a transaction *)

Ends(rec, x) == rec.type \in {"commit", "end"} /\ rec.xid = x
Ended(h, n, x) == \E i \in DOMAIN h : i <= n /\ Ends(h[i], x)
Seen(h, n, x)  == \E i \in DOMAIN h : i <= n /\ h[i].xid = x
UpTo(h, n, x)  == {i \in UpdatesOf(h, x) : i <= n}
\* Entry t of the table is what the first n records say of x.
Found(t, h, n, x) ==
    /\ UpTo(h, n, x) # {} /\ ~Ended(h, n, x)
          => t = Active(LsnOfLast(h, UpTo(h, n, x)))
    /\ UpTo(h, n, x) = {} \/ Ended(h, n, x)
          => t.status # "active" \/ t.lastLSN = NoLsn
    /\ t.lastLSN # NoLsn => Seen(h, n, x)
    /\ t.status = "committed" => t.lastLSN # NoLsn
Follows(tt, h, n) == \A x \in Xids : Found(tt[x], h, n, x)

\* What the first records of a log say does not depend on the others.
LEMMA SameBeginning ==
    ASSUME NEW u \in Seq(LogRecord), NEW h \in Seq(LogRecord), Begins(u, h),
           NEW n \in Nat, n <= Len(u)
    PROVE  /\ \A x : Ended(u, n, x) <=> Ended(h, n, x)
           /\ \A x : Seen(u, n, x) <=> Seen(h, n, x)
           /\ \A x : UpTo(u, n, x) = UpTo(h, n, x)
           /\ \A tt : Follows(tt, u, n) <=> Follows(tt, h, n)
<1>1. /\ Len(u) \in Nat /\ Len(h) \in Nat /\ Len(u) <= Len(h)
      /\ DOMAIN u = 1 .. Len(u) /\ DOMAIN h = 1 .. Len(h)
      /\ \A i \in DOMAIN u : i \in DOMAIN h /\ u[i] = h[i]
      /\ \A i \in DOMAIN h : i <= n => i \in DOMAIN u
  BY LenProperties DEF Begins
<1>2. ASSUME NEW x PROVE Ended(u, n, x) <=> Ended(h, n, x)
  BY <1>1 DEF Ended
<1>3. ASSUME NEW x PROVE Seen(u, n, x) <=> Seen(h, n, x)
  BY <1>1 DEF Seen
<1>4. ASSUME NEW x PROVE UpTo(u, n, x) = UpTo(h, n, x)
  BY <1>1 DEF UpTo, UpdatesOf, UpdatesIn
<1>5. ASSUME NEW x
      PROVE  LsnOfLast(u, UpTo(u, n, x)) = LsnOfLast(h, UpTo(h, n, x))
  <2>1. UpTo(u, n, x) \in SUBSET DOMAIN u
    BY DEF UpTo, UpdatesOf, UpdatesIn
  <2> QED
    BY <1>4, <2>1, SameLast
<1>6. ASSUME NEW t, NEW x PROVE Found(t, u, n, x) <=> Found(t, h, n, x)
  BY <1>2, <1>3, <1>4, <1>5 DEF Found
<1>7. ASSUME NEW tt PROVE Follows(tt, u, n) <=> Follows(tt, h, n)
  BY <1>6 DEF Follows
<1> QED
  BY <1>2, <1>3, <1>4, <1>7

\* One more record, and what it may add.
LEMMA OneMore ==
    ASSUME NEW h \in Seq(LogRecord), NEW k \in DOMAIN h, NEW x
    PROVE  /\ Ended(h, k, x) <=> Ended(h, k - 1, x) \/ Ends(h[k], x)
           /\ Seen(h, k - 1, x) \/ h[k].xid = x => Seen(h, k, x)
           /\ UpTo(h, k, x) =
                 IF h[k].type = "update" /\ h[k].xid = x
                 THEN UpTo(h, k - 1, x) \cup {k} ELSE UpTo(h, k - 1, x)
<1>1. DOMAIN h \subseteq Nat /\ k \in Nat
  BY LenProperties
<1>2. \A i \in Nat : i <= k <=> (i <= k - 1 \/ i = k)
  BY <1>1
<1>3. \A i \in DOMAIN h : i <= k <=> (i <= k - 1 \/ i = k)
  BY <1>1, <1>2
<1> QED
  BY <1>3 DEF Ended, Seen, UpTo, UpdatesOf, UpdatesIn

\* The entry of one transaction: a record that is not its own leaves it.
LEMMA FoundOther ==
    ASSUME NEW h \in Seq(LogRecord), NEW k \in DOMAIN h, NEW x \in Xids, NEW t,
           Found(t, h, k - 1, x), ~Ends(h[k], x),
           h[k].type = "update" => h[k].xid # x
    PROVE  Found(t, h, k, x)
<1>1. /\ Ended(h, k, x) <=> Ended(h, k - 1, x)
      /\ UpTo(h, k, x) = UpTo(h, k - 1, x)
      /\ Seen(h, k - 1, x) => Seen(h, k, x)
  BY OneMore
<1> QED
  BY <1>1 DEF Found

\* An update enters it, unless the transaction has ended.
LEMMA FoundUpdate ==
    ASSUME NEW h \in Seq(LogRecord), NEW k \in DOMAIN h, NEW x \in Xids,
           h[k].type = "update", h[k].xid = x, ~Ended(h, k - 1, x)
    PROVE  Found(Active(h[k].lsn), h, k, x)
<1>1. ~Ended(h, k, x) /\ Seen(h, k, x) /\ k \in UpTo(h, k, x)
  BY OneMore DEF Ends
<1>2. Max(UpTo(h, k, x)) = k
  <2> DEFINE is == UpTo(h, k, x)
  <2>1. k \in Nat /\ is \in SUBSET (1 .. k) /\ \A i \in is : i <= k
    BY LenProperties DEF UpTo, UpdatesOf, UpdatesIn
  <2>2. k \in is
    BY <1>1
  <2> HIDE DEF is
  <2>3. Max(is) = k
    BY <2>1, <2>2, LargestIndex
  <2> QED
    BY <2>3 DEF is
<1>3. LsnOfLast(h, UpTo(h, k, x)) = h[k].lsn
  BY <1>1, <1>2 DEF LsnOfLast
<1>4. Active(h[k].lsn).status = "active"
  BY DEF Active
<1> QED
  BY <1>1, <1>3, <1>4 DEF Found

\* A commit or an end leaves no loser, in whichever of three ways.
LEMMA FoundEnd ==
    ASSUME NEW h \in Seq(LogRecord), NEW k \in DOMAIN h, NEW x \in Xids,
           Ends(h[k], x), NEW t,
           \/ t = NoTx
           \/ t.status = "none" /\ Found(t, h, k - 1, x)
           \/ t = [status |-> "committed", lastLSN |-> h[k].lsn]
    PROVE  Found(t, h, k, x)
<1>1. Ended(h, k, x) /\ Seen(h, k, x)
  BY OneMore DEF Ends
<1>2. h[k].lsn # NoLsn
  BY HistoryLsns DEF NoLsn
<1>3. t.status # "active" /\ (t.status = "committed" => t.lastLSN # NoLsn)
  BY <1>2 DEF NoTx
<1> QED
  BY <1>1, <1>3 DEF Found

-----------------------------------------------------------------------------
(* What a log that grows or loses its end keeps *)

\* Nothing is logged of a transaction after its end but, perhaps, its end
\* again; a checkpoint's table is what the log before it says.
HistInv(h) ==
    /\ \A i, j \in DOMAIN h :
          i < j /\ h[j].type = "update" => ~Ends(h[i], h[j].xid)
    /\ \A i \in DOMAIN h : h[i].type = "end_chkpt" => Follows(h[i].txs, h, i)
IdsBelow(h, n) == \A i \in DOMAIN h : h[i].xid < n

\* The transactions that have work in the log and no commit or end.
Losers(h) ==
    {x \in Xids : UpdatesOf(h, x) # {} /\ ~Ended(h, Len(h), x)}

LEMMA RecordIds ==
    \A rec \in LogRecord :
        /\ rec.type \in {"update", "commit", "end"} => rec.xid \in Xids
        /\ rec.type \in {"begin_chkpt", "end_chkpt"} => rec.xid = SysXid
        /\ rec.xid \in Int /\ SysXid \notin Xids
  BY LogBounds DEF LogRecord, UpdateRecord, TxRecord, BeginRecord, EndRecord,
                   Xids, SysXid

LEMMA PrefixHist ==
    ASSUME NEW u \in Seq(LogRecord), NEW h \in Seq(LogRecord), Begins(u, h),
           HistInv(h)
    PROVE  HistInv(u)
<1>1. /\ Len(u) \in Nat /\ DOMAIN u = 1 .. Len(u)
      /\ \A i \in DOMAIN u : i \in DOMAIN h /\ u[i] = h[i]
  BY LenProperties DEF Begins
<1>2. ASSUME NEW i \in DOMAIN u, u[i].type = "end_chkpt"
      PROVE  Follows(u[i].txs, u, i)
  <2>1. Follows(h[i].txs, h, i)
    BY <1>1, <1>2 DEF HistInv
  <2>2. i \in Nat /\ i <= Len(u)
    BY <1>1
  <2> QED
    BY <1>1, <2>1, <2>2, SameBeginning
<1>3. ASSUME NEW i \in DOMAIN u, NEW j \in DOMAIN u, i < j,
             u[j].type = "update"
      PROVE  ~Ends(u[i], u[j].xid)
  BY <1>1, <1>3 DEF HistInv
<1> QED
  BY <1>2, <1>3 DEF HistInv

\* What appending a record does to a log.
LEMMA AppendSays ==
    ASSUME NEW h \in Seq(LogRecord), NEW e \in LogRecord
    PROVE  LET g == Append(h, e)
           IN  /\ \A x : Ended(g, Len(g), x) <=>
                            Ended(h, Len(h), x) \/ Ends(e, x)
               /\ \A x : Seen(h, Len(h), x) \/ e.xid = x => Seen(g, Len(g), x)
               /\ \A x : UpdatesOf(h, x) = {} =>
                     \/ UpdatesOf(g, x) = {}
                     \/ e.type = "update" /\ e.xid = x
               /\ \A tt : Follows(tt, g, Len(h)) <=> Follows(tt, h, Len(h))
<1> DEFINE g == Append(h, e)
<1>1. /\ Len(h) \in Nat /\ DOMAIN h = 1 .. Len(h) /\ g \in Seq(LogRecord)
      /\ Len(g) = Len(h) + 1 /\ DOMAIN g = 1 .. Len(h) + 1
      /\ \A i \in 1 .. Len(h) : g[i] = h[i]
      /\ g[Len(h) + 1] = e
  BY AppendParts
<1> HIDE DEF g
<1>2. Begins(h, g)
  BY <1>1 DEF Begins
<1>3. /\ \A x : Ended(h, Len(h), x) <=> Ended(g, Len(h), x)
      /\ \A x : Seen(h, Len(h), x) <=> Seen(g, Len(h), x)
      /\ \A tt : Follows(tt, h, Len(h)) <=> Follows(tt, g, Len(h))
  BY <1>1, <1>2, SameBeginning
<1>4. Len(g) \in DOMAIN g /\ Len(g) - 1 = Len(h) /\ g[Len(g)] = e
  BY <1>1
<1>5. ASSUME NEW x
      PROVE  /\ Ended(g, Len(g), x) <=> Ended(g, Len(h), x) \/ Ends(e, x)
             /\ Seen(g, Len(h), x) \/ e.xid = x => Seen(g, Len(g), x)
  <2> DEFINE k == Len(g)
  <2>1. k \in DOMAIN g /\ k - 1 = Len(h) /\ g[k] = e
    BY <1>4
  <2> HIDE DEF k
  <2>2. /\ Ended(g, k, x) <=> Ended(g, k - 1, x) \/ Ends(g[k], x)
        /\ Seen(g, k - 1, x) \/ g[k].xid = x => Seen(g, k, x)
    BY <1>1, <2>1, OneMore
  <2> QED
    BY <2>1, <2>2 DEF k
<1>6. ASSUME NEW x, UpdatesOf(h, x) = {}
      PROVE  UpdatesOf(g, x) = {} \/ (e.type = "update" /\ e.xid = x)
  BY <1>1, <1>6 DEF UpdatesOf, UpdatesIn
<1>7. /\ \A x : Ended(g, Len(g), x) <=> Ended(h, Len(h), x) \/ Ends(e, x)
      /\ \A x : Seen(h, Len(h), x) \/ e.xid = x => Seen(g, Len(g), x)
      /\ \A tt : Follows(tt, g, Len(h)) <=> Follows(tt, h, Len(h))
  BY <1>3, <1>5
<1> QED
  BY <1>6, <1>7 DEF g

\* A record may follow if it is no update of an ended transaction and, at
\* the end of a checkpoint, holds a table that follows the log.
MayFollow(h, e) ==
    /\ e.type = "update" => ~Ended(h, Len(h), e.xid)
    /\ e.type = "end_chkpt" => Follows(e.txs, h, Len(h))

LEMMA AppendHist ==
    ASSUME NEW h \in Seq(LogRecord), NEW e \in LogRecord, HistInv(h),
           MayFollow(h, e)
    PROVE  HistInv(Append(h, e))
<1> DEFINE g == Append(h, e)
           k == Len(h) + 1
<1>1. /\ Len(h) \in Nat /\ DOMAIN h = 1 .. Len(h) /\ g \in Seq(LogRecord)
      /\ Len(g) = k /\ DOMAIN g = 1 .. k /\ k \in Nat /\ k - 1 = Len(h)
      /\ \A i \in 1 .. Len(h) : g[i] = h[i]
      /\ g[k] = e /\ k \in DOMAIN g
      /\ \A i \in DOMAIN g : i \in DOMAIN h \/ i = k
  BY AppendParts
<1>2. \A tt : Follows(tt, g, Len(h)) <=> Follows(tt, h, Len(h))
  BY AppendSays
<1>3. \A i, j \in DOMAIN g : i < j => i \in DOMAIN h /\ i <= Len(h)
  BY <1>1
<1> HIDE DEF g, k
<1>4. Begins(h, g)
  BY <1>1 DEF Begins
<1>5. ASSUME NEW i \in DOMAIN g, NEW j \in DOMAIN g, i < j,
             g[j].type = "update"
      PROVE  ~Ends(g[i], g[j].xid)
  <2>1. i \in DOMAIN h /\ i <= Len(h) /\ g[i] = h[i]
    BY <1>1, <1>3, <1>5
  <2>2. CASE j \in DOMAIN h
    BY <1>1, <1>5, <2>1, <2>2 DEF HistInv
  <2>3. CASE j = k
    BY <1>1, <1>5, <2>1, <2>3 DEF MayFollow, Ended
  <2> QED
    BY <1>1, <2>2, <2>3
<1>6. ASSUME NEW i \in DOMAIN g, g[i].type = "end_chkpt"
      PROVE  Follows(g[i].txs, g, i)
  <2>1. CASE i \in DOMAIN h
    <3>1. Follows(h[i].txs, h, i) /\ g[i] = h[i] /\ i \in Nat /\ i <= Len(h)
      BY <1>1, <1>6, <2>1 DEF HistInv
    <3> QED
      BY <1>1, <1>4, <3>1, SameBeginning
  <2>2. CASE i = k
    <3>1. Follows(e.txs, g, k - 1) /\ e.type = "end_chkpt"
      BY <1>1, <1>2, <1>6, <2>2 DEF MayFollow
    <3>2. ASSUME NEW x \in Xids PROVE Found(e.txs[x], g, k, x)
      BY <1>1, <3>1, <3>2, FoundOther DEF Follows, Ends
    <3> QED
      BY <1>1, <2>2, <3>2 DEF Follows
  <2> QED
    BY <1>1, <2>1, <2>2
<1>7. HistInv(g)
  BY <1>5, <1>6 DEF HistInv
<1> QED
  BY <1>7 DEF g

-----------------------------------------------------------------------------
(* The invariant: whose work is unfinished, and who knows of it *)

\* An entry with an LSN is of a transaction that is in the log.
TableSeen(h) ==
    \A x \in Xids : /\ txTable[x].lastLSN # NoLsn => Seen(h, Len(h), x)
                    /\ txTable[x].status = "committed" => ~Clean(x)

\* The log does not move before Undo.  Analysis's table follows it up to the
\* end of the checkpoint or the last record read, whichever is later.
Analyzing == {"analysis", "redo", "redofresh"}
ReadUpTo(m) ==
    /\ Follows(txTable, log.stable, m)
    /\ scan - 1 <= m
    /\ m # scan - 1 => m \in CheckpointEnds(log.stable, master)
    /\ \A e \in CheckpointEnds(log.stable, master) : e <= m
AnalysisInv ==
    /\ pc \in Analyzing => log.buf = << >> /\ bootLen = Len(log.stable)
    /\ pc = "analysis" => \E m \in 0 .. bootLen : ReadUpTo(m)
    /\ pc \in {"redo", "redofresh"} => Follows(txTable, log.stable, bootLen)

\* Undo has every loser on its list until it logs its end.
Unfinished == {x \in Xids : \/ toUndo[x] # NoLsn
                            \/ pc = "endloser" /\ x = scan}
UndoInv ==
    /\ pc \in {"undo", "endloser"} =>
          /\ Losers(History) \subseteq Unfinished
          /\ \A x \in Unfinished : ~Clean(x)
    /\ pc = "endloser" => toUndo[scan] = NoLsn

LoserInv ==
    /\ HistInv(History)
    /\ pc # "down" => IdsBelow(History, nextXid)
    /\ \A x \in OpenXids : ~Ended(History, Len(History), x)
    /\ pc \notin Away \ {"finish", "boot"} => Losers(History) \subseteq OpenXids
    /\ TableSeen(History)
    /\ AnalysisInv
    /\ UndoInv

\* What LoserInv stands on.
Base == TypeInv /\ TxInv /\ TableInv /\ CommitInv /\ InOrder(log)

LEMMA BaseTypes ==
    ASSUME TypeInv
    PROVE  /\ txTable \in [Xids -> TxEntry] /\ toUndo \in [Xids -> Lsns]
           /\ log \in LogState /\ log.stable \in Seq(LogRecord)
           /\ log.buf \in Seq(LogRecord) /\ History \in Seq(LogRecord)
           /\ openTx \in [Names -> Xids \cup {NoXid}] /\ NoXid \notin Xids
           /\ OpenXids \subseteq Xids /\ nextXid \in Nat /\ scan \in Nat
           /\ bootLen \in Nat /\ log.next \in Nat /\ NoLsn \notin Nat
  BY HistoryMoves, EngineConfig
     DEF TypeInv, TypeOK, TxTable, LogState, OpenXids, NoLsn

\* One record more in the log of the engine.
LEMMA EmitSays ==
    ASSUME TypeInv, HistInv(History), NEW e \in LogRecord, Emits(e),
           MayFollow(History, e)
    PROVE  /\ HistInv(History')
           /\ \A n : IdsBelow(History, n) /\ e.xid < n => IdsBelow(History', n)
           /\ \A x : Ended(History', Len(History'), x) <=>
                        Ended(History, Len(History), x) \/ Ends(e, x)
           /\ \A x : Seen(History, Len(History), x) \/ e.xid = x
                        => Seen(History', Len(History'), x)
           /\ \A x \in Losers(History') :
                 /\ ~Ends(e, x)
                 /\ x \in Losers(History) \/ (e.type = "update" /\ e.xid = x)
<1> DEFINE h == History
           g == Append(h, e)
<1>1. h \in Seq(LogRecord) /\ History' = g
  BY HistoryMoves
<1>2. HistInv(h) /\ MayFollow(h, e)
  OBVIOUS
<1> HIDE DEF h
<1>3. /\ \A x : Ended(g, Len(g), x) <=> Ended(h, Len(h), x) \/ Ends(e, x)
      /\ \A x : Seen(h, Len(h), x) \/ e.xid = x => Seen(g, Len(g), x)
      /\ \A x : UpdatesOf(h, x) = {} =>
            \/ UpdatesOf(g, x) = {}
            \/ e.type = "update" /\ e.xid = x
  BY <1>1, AppendSays
<1>4. HistInv(g)
  BY <1>1, <1>2, AppendHist
<1>5. ASSUME NEW n, IdsBelow(h, n), e.xid < n PROVE IdsBelow(g, n)
  <2>1. /\ DOMAIN h = 1 .. Len(h) /\ DOMAIN g = 1 .. Len(h) + 1
        /\ Len(h) \in Nat /\ \A i \in 1 .. Len(h) : g[i] = h[i]
        /\ g[Len(h) + 1] = e
    BY <1>1, AppendParts
  <2> HIDE DEF g
  <2>2. \A i \in DOMAIN g : i \in DOMAIN h \/ i = Len(h) + 1
    BY <2>1
  <2> QED
    BY <1>5, <2>1, <2>2 DEF IdsBelow
<1> HIDE DEF g
<1>6. ASSUME NEW x \in Losers(g)
      PROVE  /\ ~Ends(e, x)
             /\ x \in Losers(h) \/ (e.type = "update" /\ e.xid = x)
  BY <1>3 DEF Losers
<1>7. h = History
  BY DEF h
<1>8. History' = g
  BY <1>1
<1> QED
  BY <1>3, <1>4, <1>5, <1>6, <1>7, <1>8, Zenon

-----------------------------------------------------------------------------
(* While input is served *)

Serving == pc \notin Away

\* Without a record and with the same transactions.
Quiet ==
    /\ Serving /\ pc' \notin Away
    /\ UNCHANGED <<txTable, openTx, nextXid>> /\ History' = History

LEMMA ServingParts ==
    /\ Serving => /\ pc \notin Analyzing /\ pc \notin {"undo", "endloser"}
                  /\ pc # "down" /\ pc \notin Away \ {"finish", "boot"}
    /\ pc' \notin Away => /\ pc' \notin Analyzing
                          /\ pc' \notin {"undo", "endloser"} /\ pc' # "down"
  BY DEF Serving, Away, Recovering, Analyzing

\* While input is served these four are what LoserInv says.
LEMMA ServeInv ==
    ASSUME pc' \notin Away, HistInv(History'), IdsBelow(History', nextXid'),
           \A x \in OpenXids' : ~Ended(History', Len(History'), x),
           Losers(History') \subseteq OpenXids', TableSeen(History)'
    PROVE  LoserInv'
  BY ServingParts DEF LoserInv, AnalysisInv, UndoInv, Analyzing

LEMMA Quiet_Loser ==
    ASSUME LoserInv, Quiet
    PROVE  LoserInv'
<1>1. OpenXids' = OpenXids /\ History' = History /\ nextXid' = nextXid
  BY DEF Quiet, OpenXids
<1>2. TableSeen(History)'
  BY <1>1 DEF Quiet, LoserInv, TableSeen, Clean
<1> QED
  BY <1>1, <1>2, ServeInv, ServingParts DEF Quiet, LoserInv

\* An id that is given out is in no record.
LEMMA TxBegin_Loser ==
    ASSUME Base, LoserInv, NEW k \in Names, TxBegin(k)
    PROVE  LoserInv'
<1>1. /\ pc = "idle" /\ pc' \in {"idle", "ckptbegin"} /\ nextXid \in Xids
      /\ nextXid' = nextXid + 1 /\ openTx[k] = NoXid
      /\ openTx' = [openTx EXCEPT ![k] = nextXid]
      /\ txTable' = [txTable EXCEPT ![nextXid] = Active(NoLsn)]
      /\ History' = History
  BY DEF TxBegin, Ready, MaybeCheckpoint, History
<1>2. /\ txTable \in [Xids -> TxEntry] /\ History \in Seq(LogRecord)
      /\ openTx \in [Names -> Xids \cup {NoXid}] /\ nextXid \in Nat
  BY BaseTypes DEF Base
<1>3. Serving /\ pc' \notin Away
  BY <1>1 DEF Serving, Away, Recovering
<1>4. IdsBelow(History, nextXid)
  BY <1>3, ServingParts DEF LoserInv
<1>5. IdsBelow(History, nextXid + 1)
  <2>1. \A i \in DOMAIN History : History[i].xid \in Int
    BY <1>2, RecordIds
  <2> QED
    BY <1>2, <1>4, <2>1 DEF IdsBelow
<1>6. ~Ended(History, Len(History), nextXid)
  BY <1>2, <1>4 DEF IdsBelow, Ended, Ends
<1>7. /\ OpenXids \subseteq OpenXids'
      /\ OpenXids' \subseteq OpenXids \cup {nextXid}
  <2>1. \A n \in Names : openTx'[n] = IF n = k THEN nextXid ELSE openTx[n]
    BY <1>1, <1>2
  <2> QED
    BY <1>1, <2>1 DEF OpenXids
<1>8. TableSeen(History)'
  <2>1. \A x \in Xids : txTable'[x] = IF x = nextXid THEN Active(NoLsn)
                                      ELSE txTable[x]
    BY <1>1, <1>2
  <2>2. Active(NoLsn).lastLSN = NoLsn /\ Active(NoLsn).status = "active"
    BY DEF Active
  <2> QED
    BY <1>1, <2>1, <2>2 DEF LoserInv, TableSeen, Clean
<1>9. Losers(History) \subseteq OpenXids
  BY <1>3, ServingParts DEF LoserInv
<1> QED
  BY <1>1, <1>3, <1>5, <1>6, <1>7, <1>8, <1>9, ServeInv DEF LoserInv

\* A transaction that writes is open.
LEMMA WritePage_Loser ==
    ASSUME Base, LoserInv, NEW k \in Names, NEW p \in Pages,
           NEW cells \in WriteSets, NEW v \in Values, WritePage(k, p, cells, v)
    PROVE  LoserInv'
<1> DEFINE x == openTx[k]
           before == CurrentBytes(p)
           changed == [o \in Offsets |-> IF o \in cells THEN v ELSE before[o]]
           stamped == WritePageLsn(changed, log.next)
           rec == UpdateOf(x, p, before, stamped)
<1>1. /\ pc = "idle" /\ pc' \in {"install", "ckptbegin"} /\ x # NoXid
      /\ openTx' = openTx /\ nextXid' = nextXid
      /\ \/ /\ log' = Emit(log, rec)
            /\ txTable' = Chain(txTable, x, log.next)
         \/ log' = TakeLsn(log) /\ txTable' = txTable
  BY DEF WritePage, Ready, MaybeCheckpoint
<1>2. Serving /\ pc' \notin Away /\ OpenXids' = OpenXids
  BY <1>1 DEF Serving, Away, Recovering, OpenXids
<1>3. CASE log' = TakeLsn(log) /\ txTable' = txTable
  <2>1. History' = History
    BY <1>3, HistoryMoves DEF Base, Keeps
  <2> QED
    BY <1>1, <1>2, <1>3, <2>1, Quiet_Loser DEF Quiet
<1>4. CASE log' = Emit(log, rec) /\ txTable' = Chain(txTable, x, log.next)
  <2>1. x \in Xids /\ x \in OpenXids /\ x < nextXid
    BY <1>1, BaseTypes DEF Base, OpenXids, TxInv
  <2>2. rec \in LogRecord /\ rec.type = "update" /\ rec.xid = x
    <3>1. before \in Image /\ log.next \in Nat
      BY BaseTypes DEF Base, TypeInv, TypeOK, CurrentBytes, Pool, Frame
    <3>2. changed \in Image
      BY <3>1, RuntimeConfig DEF Image
    <3>3. stamped \in Image
      BY <3>1, <3>2, StampRead
    <3> HIDE DEF before, stamped
    <3>4. rec \in LogRecord
      BY <2>1, <3>1, <3>3, UpdateOfType DEF Base
    <3> QED
      BY <3>4 DEF UpdateOf
  <2> HIDE DEF rec, x
  <2>3. Emits(rec)
    BY <1>4 DEF Emits
  <2>4. MayFollow(History, rec)
    BY <2>1, <2>2 DEF MayFollow, LoserInv
  <2>5. IdsBelow(History, nextXid)
    BY <1>2, ServingParts DEF LoserInv
  <2>6. /\ HistInv(History') /\ IdsBelow(History', nextXid)
        /\ \A y : Ended(History', Len(History'), y) <=>
                     Ended(History, Len(History), y)
        /\ \A y : Seen(History, Len(History), y) \/ y = x
                     => Seen(History', Len(History'), y)
        /\ \A y \in Losers(History') : y \in Losers(History) \/ y = x
    BY <2>1, <2>2, <2>3, <2>4, <2>5, EmitSays DEF Base, LoserInv, Ends
  <2>7. Losers(History) \subseteq OpenXids
    BY <1>2, ServingParts DEF LoserInv
  <2>8. TableSeen(History)'
    <3>1. /\ txTable \in [Xids -> TxEntry] /\ log.next \in Nat
          /\ NoLsn \notin Nat
      BY BaseTypes DEF Base
    <3>2. /\ \A y \in Xids \ {x} : txTable'[y] = txTable[y]
          /\ txTable'[x].status = txTable[x].status
          /\ txTable'[x].lastLSN \in {txTable[x].lastLSN, log.next}
      BY <1>4, <2>1, <3>1 DEF Chain, TxEntry
    <3> QED
      BY <2>1, <2>6, <3>1, <3>2 DEF LoserInv, TableSeen, Clean
  <2> QED
    BY <1>1, <1>2, <2>1, <2>6, <2>7, <2>8, ServeInv DEF LoserInv
<1> QED
  BY <1>1, <1>3, <1>4

\* A checkpoint record is of no transaction.
LEMMA Checkpoint_Emits ==
    ASSUME Base, LoserInv, pc \in {"ckptbegin", "ckptend"}, pc' \notin Away,
           UNCHANGED <<txTable, openTx, nextXid>>,
           NEW rec \in LogRecord, rec.type \in {"begin_chkpt", "end_chkpt"},
           Emits(rec), MayFollow(History, rec)
    PROVE  LoserInv'
<1>1. Serving /\ OpenXids' = OpenXids
  BY DEF Serving, Away, Recovering, OpenXids
<1>2. rec.xid = SysXid /\ rec.xid < nextXid
  BY RecordIds, BaseTypes DEF Base, SysXid
<1>3. \A x : ~Ends(rec, x)
  BY DEF Ends
<1>4. IdsBelow(History, nextXid) /\ HistInv(History)
  BY <1>1, ServingParts DEF LoserInv
<1>5. /\ HistInv(History') /\ IdsBelow(History', nextXid)
      /\ \A x : Ended(History', Len(History'), x) <=>
                   Ended(History, Len(History), x)
      /\ \A x : Seen(History, Len(History), x)
                   => Seen(History', Len(History'), x)
      /\ Losers(History') \subseteq Losers(History)
  BY <1>2, <1>3, <1>4, EmitSays DEF Base
<1>6. Losers(History) \subseteq OpenXids
  BY <1>1, ServingParts DEF LoserInv
<1>7. TableSeen(History)'
  BY <1>5 DEF LoserInv, TableSeen, Clean
<1> QED
  BY <1>1, <1>5, <1>6, <1>7, ServeInv DEF LoserInv

LEMMA CheckpointBegin_Loser ==
    ASSUME Base, LoserInv, CheckpointBegin
    PROVE  LoserInv'
<1> DEFINE rec == [type |-> "begin_chkpt", lsn |-> log.next,
                   prev |-> NoLsn, xid |-> SysXid]
<1>1. rec \in LogRecord /\ rec.type = "begin_chkpt"
  BY BaseTypes DEF Base, LogRecord, BeginRecord
<1>2. /\ Emits(rec) /\ pc = "ckptbegin" /\ pc' = "ckptend"
      /\ UNCHANGED <<txTable, openTx, nextXid>>
  BY DEF CheckpointBegin, Emits, tables
<1> HIDE DEF rec
<1>3. MayFollow(History, rec) /\ pc' \notin Away
  BY <1>1, <1>2 DEF MayFollow, Away, Recovering
<1> QED
  BY <1>1, <1>2, <1>3, Checkpoint_Emits

\* A transaction the log knows of is open, or has ended and left the table;
\* so the table that goes into the log is what the log says.
LEMMA ServedTable ==
    ASSUME Base, LoserInv, pc = "ckptend"
    PROVE  Follows(txTable, History, Len(History))
<1>1. Serving /\ pc # "end" /\ History \in Seq(LogRecord)
  BY BaseTypes DEF Base, Serving, Away, Recovering
<1>2. ASSUME NEW x \in Xids
      PROVE  UpTo(History, Len(History), x) = UpdatesOf(History, x)
  BY <1>1, LenProperties DEF UpTo, UpdatesOf, UpdatesIn
<1>3. ASSUME NEW x \in OpenXids
      PROVE  /\ ~Ended(History, Len(History), x)
             /\ txTable[x] = Active(LsnOfLast(History, UpdatesOf(History, x)))
  BY DEF OpenXids, Base, TxInv, LastUpdate, LoserInv
<1>4. ASSUME NEW x \in Xids, x \notin OpenXids
      PROVE  x \notin Losers(History) /\ Clean(x)
  BY <1>1, <1>4, ServingParts DEF LoserInv, Base, TableInv, Serving
<1>5. LsnOfLast(History, {}) = NoLsn /\ \A l : Active(l).lastLSN = l
  BY DEF LsnOfLast, Active
<1>6. ASSUME NEW x \in Xids
      PROVE  Found(txTable[x], History, Len(History), x)
  <2>1. /\ txTable[x].lastLSN # NoLsn => Seen(History, Len(History), x)
        /\ txTable[x].status = "committed" => txTable[x].lastLSN # NoLsn
    BY DEF LoserInv, TableSeen, Clean
  <2>2. CASE x \in OpenXids
    BY <1>2, <1>3, <1>5, <2>1, <2>2 DEF Found
  <2>3. CASE x \notin OpenXids
    BY <1>2, <1>4, <2>1, <2>3 DEF Found, Losers, Clean
  <2> QED
    BY <2>2, <2>3
<1> QED
  BY <1>6 DEF Follows

LEMMA CheckpointEnd_Loser ==
    ASSUME Base, LoserInv, CheckpointEnd
    PROVE  LoserInv'
<1> DEFINE rec == EndCheckpointRec
<1>1. /\ rec \in LogRecord /\ rec.type = "end_chkpt" /\ rec.txs = txTable
  BY DEF Base, EndCheckpointRec, LogRecord, EndRecord, TypeInv, TypeOK, LogState
<1>2. /\ Emits(rec) /\ pc = "ckptend" /\ pc' = "master"
      /\ UNCHANGED <<txTable, openTx, nextXid>>
  BY DEF CheckpointEnd, Emits, tables
<1> HIDE DEF rec
<1>3. MayFollow(History, rec) /\ pc' \notin Away
  BY <1>1, <1>2, ServedTable DEF MayFollow, Away, Recovering
<1> QED
  BY <1>1, <1>2, <1>3, Checkpoint_Emits

\* A commit takes its transaction from the losers and from the open ones.
LEMMA CommitRecord_Loser ==
    ASSUME Base, LoserInv, NEW k \in Names, CommitRecord(k)
    PROVE  LoserInv'
<1> DEFINE x == openTx[k]
           rec == TxRec("commit", x)
           e == [status |-> "committed", lastLSN |-> log.next]
<1>1. /\ pc = "idle" /\ pc' = "end" /\ x # NoXid
      /\ openTx' = [openTx EXCEPT ![k] = NoXid] /\ nextXid' = nextXid
      /\ log' = FlushLog(Emit(log, rec))
      /\ txTable' = [txTable EXCEPT ![x] = e]
  BY DEF CommitRecord, Ready
<1>2. /\ openTx \in [Names -> Xids \cup {NoXid}] /\ log.next \in Nat
      /\ txTable \in [Xids -> TxEntry] /\ NoLsn \notin Nat
  BY BaseTypes DEF Base
<1>3. x \in Xids /\ x < nextXid
  BY <1>1, <1>2 DEF Base, TxInv
<1>4. Serving /\ pc' \notin Away
  BY <1>1 DEF Serving, Away, Recovering
<1>5. OpenXids' = OpenXids \ {x}
  <2>1. \A n \in Names : openTx'[n] = IF n = k THEN NoXid ELSE openTx[n]
    BY <1>1, <1>2
  <2>2. \A n \in Names : n # k => openTx[n] # x
    BY <1>1 DEF Base, TxInv
  <2> QED
    BY <2>1, <2>2 DEF OpenXids
<1>6. /\ rec \in LogRecord /\ rec.type = "commit" /\ rec.xid = x
      /\ Emits(rec)
  <2>1. rec \in LogRecord
    BY <1>3, TxRecType DEF Base
  <2> QED
    BY <1>1, <2>1 DEF TxRec, Emits
<1>7. e.status = "committed" /\ e.lastLSN = log.next
  OBVIOUS
<1> HIDE DEF rec, x, e
<1>8. /\ MayFollow(History, rec) /\ HistInv(History)
      /\ IdsBelow(History, nextXid)
  BY <1>4, <1>6, ServingParts DEF MayFollow, LoserInv
<1>9. /\ HistInv(History') /\ IdsBelow(History', nextXid)
      /\ \A y : Ended(History', Len(History'), y) <=>
                   Ended(History, Len(History), y) \/ y = x
      /\ \A y : Seen(History, Len(History), y) \/ y = x
                   => Seen(History', Len(History'), y)
      /\ \A y \in Losers(History') : y \in Losers(History) /\ y # x
  BY <1>3, <1>6, <1>8, EmitSays DEF Base, Ends
<1>10. TableSeen(History)'
  <2>1. \A y \in Xids : txTable'[y] = IF y = x THEN e ELSE txTable[y]
    BY <1>1, <1>2
  <2> QED
    BY <1>2, <1>7, <1>9, <2>1 DEF LoserInv, TableSeen, Clean
<1>11. Losers(History) \subseteq OpenXids
  BY <1>4, ServingParts DEF LoserInv
<1>12. \A y \in OpenXids' : ~Ended(History', Len(History'), y)
  BY <1>5, <1>9 DEF LoserInv
<1> QED
  BY <1>1, <1>4, <1>5, <1>9, <1>10, <1>11, <1>12, ServeInv

\* An end record is of a transaction that is in the log and not open.
LEMMA End_Emits ==
    ASSUME Base, LoserInv, NEW x \in Xids, pc # "down", x \notin OpenXids,
           Seen(History, Len(History), x),
           log' \in {Emit(log, TxRec("end", x)),
                     FlushLog(Emit(log, TxRec("end", x)))},
           txTable' = [txTable EXCEPT ![x] = NoTx],
           UNCHANGED <<openTx, nextXid>>
    PROVE  /\ HistInv(History') /\ IdsBelow(History', nextXid')
           /\ OpenXids' = OpenXids
           /\ \A y \in OpenXids' : ~Ended(History', Len(History'), y)
           /\ Losers(History') \subseteq Losers(History) \ {x}
           /\ TableSeen(History)'
<1> DEFINE rec == TxRec("end", x)
<1>1. /\ rec \in LogRecord /\ rec.type = "end" /\ rec.xid = x
      /\ Emits(rec)
  <2>1. rec \in LogRecord
    BY TxRecType DEF Base
  <2> QED
    BY <2>1 DEF TxRec, Emits
<1> HIDE DEF rec
<1>2. /\ MayFollow(History, rec) /\ HistInv(History)
      /\ IdsBelow(History, nextXid)
  BY <1>1 DEF MayFollow, LoserInv
<1>3. x < nextXid
  BY <1>2 DEF IdsBelow, Seen
<1>4. /\ HistInv(History') /\ IdsBelow(History', nextXid)
      /\ \A y : Ended(History', Len(History'), y) <=>
                   Ended(History, Len(History), y) \/ y = x
      /\ \A y : Seen(History, Len(History), y) \/ y = x
                   => Seen(History', Len(History'), y)
      /\ \A y \in Losers(History') : y \in Losers(History) /\ y # x
  BY <1>1, <1>2, <1>3, EmitSays DEF Base, Ends
<1>5. TableSeen(History)'
  <2>1. \A y \in Xids : txTable'[y] = IF y = x THEN NoTx ELSE txTable[y]
    BY BaseTypes DEF Base
  <2>2. NoTx.lastLSN = NoLsn /\ NoTx.status = "none"
    BY DEF NoTx
  <2> QED
    BY <1>4, <2>1, <2>2 DEF LoserInv, TableSeen, Clean
<1>6. OpenXids' = OpenXids
  BY DEF OpenXids
<1>7. \A y \in OpenXids' : ~Ended(History', Len(History'), y)
  BY <1>4, <1>6 DEF LoserInv
<1>8. IdsBelow(History', nextXid') /\ HistInv(History')
  BY <1>4
<1> QED
  BY <1>4, <1>5, <1>6, <1>7, <1>8

LEMMA CommitEnd_Loser ==
    ASSUME Base, LoserInv, CommitEnd
    PROVE  LoserInv'
<1>1. /\ pc = "end" /\ pc' = "idle"
      /\ log' = FlushLog(Emit(log, TxRec("end", scan)))
      /\ txTable' = [txTable EXCEPT ![scan] = NoTx]
      /\ UNCHANGED <<openTx, nextXid>>
  BY DEF CommitEnd
<1>2. Serving /\ pc' \notin Away /\ scan \in Xids /\ pc # "down"
  BY <1>1 DEF Base, TypeInv, ScanInv, Serving, Away, Recovering
<1>3. scan \notin OpenXids
  BY <1>1 DEF Base, TxInv, OpenXids
<1>4. Seen(History, Len(History), scan)
  <2>1. Begins(log.stable, History)
    <3>1. log.stable \in Seq(LogRecord) /\ log.buf \in Seq(LogRecord)
      BY BaseTypes DEF Base
    <3> QED
      BY <3>1, AppendedType DEF Begins, History
  <2>2. /\ \A i \in DOMAIN log.stable :
              i \in DOMAIN History /\ log.stable[i] = History[i]
        /\ \A i \in DOMAIN History : i <= Len(History)
    BY <2>1, BaseTypes, LenProperties DEF Base, Begins
  <2>3. InFile(scan)
    BY <1>1 DEF Base, CommitInv
  <2> QED
    BY <2>2, <2>3 DEF InFile, Seen
<1>5. /\ HistInv(History') /\ IdsBelow(History', nextXid')
      /\ OpenXids' = OpenXids
      /\ \A y \in OpenXids' : ~Ended(History', Len(History'), y)
      /\ Losers(History') \subseteq Losers(History) \ {scan}
      /\ TableSeen(History)'
  BY <1>1, <1>2, <1>3, <1>4, End_Emits
<1>6. Losers(History) \subseteq OpenXids
  BY <1>2, ServingParts DEF LoserInv
<1> QED
  BY <1>2, <1>5, <1>6, ServeInv

-----------------------------------------------------------------------------
(* The crash, the restart and Analysis *)

\* A crash leaves a beginning of the log and an empty table.
LEMMA DownLoses ==
    ASSUME TypeInv, Kill \/ ExitDone
    PROVE  Loses
<1>1. CASE Kill
  <2>1. PICK u : /\ log' = ReopenLog(u)
                 /\ \E n \in 0 .. Len(log.buf) :
                       u = log.stable \o SubSeq(log.buf, 1, n)
    BY <1>1 DEF Kill
  <2> QED
    BY <2>1, ReopenMoves
<1>2. CASE ExitDone
  <2>1. FlushLog(log).stable = HistoryOf(log)
    BY FlushHistory DEF TypeInv, TypeOK
  <2>2. log' = ReopenLog(HistoryOf(log))
    BY <1>2, <2>1 DEF ExitDone
  <2> QED
    BY <2>2, ReopenMoves
<1> QED
  BY <1>1, <1>2

LEMMA Down_Loser ==
    ASSUME Base, LoserInv, Kill \/ ExitDone
    PROVE  LoserInv'
<1>1. Loses
  BY DownLoses DEF Base
<1>2. /\ pc' = "down" /\ txTable' = NoTable
      /\ openTx' = [n \in Names |-> NoXid]
  BY DEF Kill, ExitDone, Forget
<1>3. HistInv(History')
  <2>1. PICK u \in Seq(LogRecord) : Begins(u, History) /\ History' = u
    BY <1>1, HistoryMoves DEF Base
  <2>2. History \in Seq(LogRecord) /\ HistInv(History)
    BY BaseTypes DEF Base, LoserInv
  <2> QED
    BY <2>1, <2>2, PrefixHist
<1>4. OpenXids' = {}
  BY <1>2 DEF OpenXids
<1>5. TableSeen(History)'
  BY <1>2 DEF TableSeen, NoTable, NoTx, Clean
<1>6. pc' \in Away \ {"finish", "boot"}
  BY <1>2 DEF Away
<1> QED
  BY <1>2, <1>3, <1>4, <1>5, <1>6
     DEF LoserInv, AnalysisInv, UndoInv, Analyzing

\* LSNs name records, so master.rec names one checkpoint.
LEMMA OneEnd ==
    ASSUME NEW s \in Seq(LogRecord), NEW n, Ordered(s, n), NEW m,
           NEW e \in CheckpointEnds(s, m), NEW f \in CheckpointEnds(s, m)
    PROVE  e = f
<1>1. DOMAIN s = 1 .. Len(s) /\ Len(s) \in Nat
  BY LenProperties
<1>2. PICK b \in 1 .. (e - 1) :
         /\ s[b].lsn = m /\ \A k \in b .. (e - 1) : s[k].type # "end_chkpt"
  BY DEF CheckpointEnds
<1>3. PICK c \in 1 .. (f - 1) :
         /\ s[c].lsn = m /\ \A k \in c .. (f - 1) : s[k].type # "end_chkpt"
  BY DEF CheckpointEnds
<1>4. /\ e \in DOMAIN s /\ f \in DOMAIN s
      /\ s[e].type = "end_chkpt" /\ s[f].type = "end_chkpt"
  BY DEF CheckpointEnds
<1>5. b \in DOMAIN s /\ c \in DOMAIN s
  BY <1>1, <1>4
<1>6. b = c
  <2>1. s[b].lsn \in Nat /\ s[c].lsn \in Nat
    BY <1>5, HistoryLsns
  <2>2. ~(b < c) /\ ~(c < b)
    BY <1>2, <1>3, <1>5, <2>1 DEF Ordered
  <2> QED
    BY <1>1, <1>5, <2>2
<1>7. ~(e < f) /\ ~(f < e)
  BY <1>1, <1>2, <1>3, <1>4, <1>5, <1>6
<1> QED
  BY <1>1, <1>4, <1>7

\* A restart takes the table of the checkpoint, which follows the log up to
\* its end record, or none, which follows the empty beginning.
LEMMA Restart_Loser ==
    ASSUME Base, LoserInv, Restart
    PROVE  LoserInv'
<1> DEFINE s == log.stable
           ends == CheckpointEnds(s, master)
<1>1. /\ pc = "down" /\ pc' = IF s = << >> THEN "boot" ELSE "analysis"
      /\ scan' = 1 /\ bootLen' = Len(s) /\ log' = ReopenLog(s)
      /\ master' = master /\ openTx' = openTx /\ nextXid' = NextXid(s)
      /\ \/ \E e \in ends : txTable' = s[e].txs
         \/ ends = {} /\ txTable' = NoTable
  BY DEF Restart, LoadTables, durable
<1>2. /\ s \in Seq(LogRecord) /\ Len(s) \in Nat /\ DOMAIN s = 1 .. Len(s)
      /\ History \in Seq(LogRecord)
  BY BaseTypes, LenProperties DEF Base
<1>3. log'.stable = s /\ log'.buf = << >> /\ History' = s
  BY <1>1, <1>2, ReopenType, ConcatEmptySeq DEF History
<1>4. Begins(s, History)
  <2>1. s \in Seq(LogRecord) /\ log.buf \in Seq(LogRecord)
    BY BaseTypes DEF Base
  <2> QED
    BY <2>1, AppendedType DEF Begins, History
<1>5. Ordered(s, log.next)
  <2>1. Ordered(History, log.next)
    BY DEF Base, InOrder, HistoryOf, History
  <2>2. \A i \in DOMAIN s : i \in DOMAIN History /\ s[i] = History[i]
    BY <1>2, <1>4, LenProperties DEF Begins
  <2> HIDE DEF s
  <2> QED
    BY <2>1, <2>2 DEF Ordered
<1>6. HistInv(s)
  BY <1>2, <1>4, PrefixHist DEF LoserInv
<1>7. IdsBelow(s, NextXid(s))
  BY <1>2, NextXidType DEF IdsBelow
<1>8. OpenXids' = OpenXids /\ OpenXids = {}
  BY <1>1 DEF OpenXids, Base, TxInv, Away
<1> HIDE DEF s
<1>9. PICK m \in 0 .. Len(s) :
         /\ Follows(txTable', s, m) /\ (m # 0 => m \in ends)
         /\ \A e \in ends : e <= m
  <2>1. CASE ends = {} /\ txTable' = NoTable
    <3>1. ASSUME NEW x \in Xids PROVE Found(NoTable[x], s, 0, x)
      BY <1>2 DEF Found, NoTable, NoTx, UpTo, UpdatesOf, UpdatesIn
    <3>2. Follows(txTable', s, 0)
      BY <2>1, <3>1 DEF Follows
    <3> QED
      BY <1>2, <2>1, <3>2
  <2>2. ASSUME NEW e \in ends, txTable' = s[e].txs
        PROVE  /\ e \in 0 .. Len(s) /\ Follows(txTable', s, e)
               /\ \A f \in ends : f <= e
    <3>1. e \in DOMAIN s /\ s[e].type = "end_chkpt"
      BY DEF CheckpointEnds
    <3>2. \A f \in ends : f = e
      BY <1>2, <1>5, OneEnd
    <3> QED
      BY <1>2, <1>6, <2>2, <3>1, <3>2 DEF HistInv
  <2> QED
    BY <1>1, <2>1, <2>2
<1>10. TableSeen(History)'
  <2>1. \A x : Seen(s, m, x) => Seen(s, Len(s), x)
    BY <1>2 DEF Seen
  <2> QED
    BY <1>3, <1>9, <2>1 DEF Follows, Found, TableSeen, Clean
<1>11. s = << >> => Losers(s) = {}
  BY DEF Losers, UpdatesOf, UpdatesIn
<1>12. OpenXids' = {} /\ IdsBelow(History', nextXid') /\ HistInv(History')
  BY <1>1, <1>3, <1>6, <1>7, <1>8
<1>13. CASE s = << >>
  <2>1. pc' = "boot" /\ pc' \notin Analyzing /\ Losers(History') = {}
    BY <1>1, <1>3, <1>11, <1>13 DEF Analyzing
  <2>2. AnalysisInv' /\ UndoInv'
    BY <2>1 DEF AnalysisInv, UndoInv, Analyzing
  <2> QED
    BY <1>10, <1>12, <2>1, <2>2 DEF LoserInv
<1>14. CASE s # << >>
  <2>1. pc' = "analysis" /\ pc' \in Away \ {"finish", "boot"}
    BY <1>1, <1>14 DEF Away, Recovering
  <2>2. ReadUpTo(m)' /\ m \in 0 .. bootLen'
    BY <1>1, <1>2, <1>3, <1>9 DEF ReadUpTo
  <2>3. AnalysisInv'
    BY <1>1, <1>3, <2>1, <2>2 DEF AnalysisInv
  <2>4. UndoInv'
    BY <2>1 DEF UndoInv
  <2> QED
    BY <1>10, <1>12, <2>1, <2>3, <2>4 DEF LoserInv
<1> QED
  BY <1>13, <1>14

\* The steps of recovery that log nothing.
LEMMA Still ==
    ASSUME Base, LoserInv, pc \in Recovering, History' = History,
           UNCHANGED <<openTx, nextXid>>
    PROVE  /\ HistInv(History') /\ IdsBelow(History', nextXid')
           /\ OpenXids' = {} /\ OpenXids = {}
<1>1. OpenXids' = OpenXids /\ OpenXids = {}
  BY DEF OpenXids, Base, TxInv, Away
<1>2. pc # "down"
  BY DEF Recovering
<1> QED
  BY <1>1, <1>2 DEF LoserInv

\* Analysis reads a record: the table follows the log one record further.
LEMMA ReadRecord ==
    ASSUME TypeInv, NEW s \in Seq(LogRecord), HistInv(s), NEW k \in DOMAIN s,
           Follows(txTable, s, k - 1), Analyzed(s[k])
    PROVE  Follows(txTable', s, k)
<1> DEFINE rec == s[k]
<1>1. /\ rec \in LogRecord /\ k \in Nat
      /\ rec.type \in {"update", "commit", "end"} => rec.xid \in Xids
  BY RecordIds, LenProperties
<1>2. txTable \in [Xids -> TxEntry]
  BY BaseTypes
<1>3. rec.type = "update" => ~Ended(s, k - 1, rec.xid)
  <2>1. \A i \in DOMAIN s : i <= k - 1 => i < k
    BY <1>1, LenProperties
  <2> QED
    BY <2>1 DEF HistInv, Ended
<1>4. ASSUME NEW x \in Xids PROVE Found(txTable'[x], s, k, x)
  <2>1. Found(txTable[x], s, k - 1, x)
    BY DEF Follows
  <2>2. CASE rec.type = "update" /\ rec.xid = x
    <3>1. txTable'[x] = Active(rec.lsn)
      BY <1>2, <2>2 DEF Analyzed
    <3> QED
      BY <1>3, <2>2, <3>1, FoundUpdate
  <2>3. CASE Ends(rec, x)
    <3>1. \/ txTable'[x] = NoTx
          \/ txTable'[x].status = "none" /\ txTable'[x] = txTable[x]
          \/ txTable'[x] = [status |-> "committed", lastLSN |-> rec.lsn]
      BY <1>2, <2>3 DEF Analyzed, Ends
    <3> QED
      BY <2>1, <2>3, <3>1, FoundEnd
  <2>4. CASE ~Ends(rec, x) /\ ~(rec.type = "update" /\ rec.xid = x)
    <3>1. txTable'[x] = txTable[x]
      <4>1. CASE rec.type \in {"update", "commit", "end"}
        <5>1. rec.xid # x /\ rec.xid \in Xids
          BY <1>1, <2>4, <4>1 DEF Ends
        <5> HIDE DEF rec
        <5>2. \/ txTable' = [txTable EXCEPT ![rec.xid] = Active(rec.lsn)]
              \/ txTable' = txTable
              \/ txTable' = [txTable EXCEPT ![rec.xid] =
                               [status |-> "committed", lastLSN |-> rec.lsn]]
              \/ txTable' = [txTable EXCEPT ![rec.xid] = NoTx]
          BY <4>1 DEF Analyzed, rec
        <5> QED
          BY <1>2, <5>1, <5>2
      <4>2. CASE rec.type \notin {"update", "commit", "end"}
        BY <4>2 DEF Analyzed
      <4> QED
        BY <4>1, <4>2
    <3> QED
      BY <2>1, <2>4, <3>1, FoundOther
  <2> QED
    BY <2>2, <2>3, <2>4
<1> QED
  BY <1>4 DEF Follows

LEMMA AnalyzeRecord_Loser ==
    ASSUME Base, LoserInv, AnalyzeRecord
    PROVE  LoserInv'
<1> DEFINE s == log.stable
           ends == CheckpointEnds(s, master)
<1>1. /\ pc = "analysis" /\ pc' = "analysis" /\ scan <= bootLen
      /\ scan' = scan + 1 /\ log' = log /\ master' = master
      /\ UNCHANGED <<openTx, nextXid, bootLen, toUndo>>
      /\ IF \E e \in ends : s[scan].lsn <= s[e].lsn
         THEN txTable' = txTable ELSE Analyzed(s[scan])
  BY DEF AnalyzeRecord, durable
<1>2. /\ s \in Seq(LogRecord) /\ DOMAIN s = 1 .. bootLen /\ bootLen \in Nat
      /\ History' = s /\ History = s /\ scan \in Nat /\ scan \in DOMAIN s
      /\ bootLen = Len(s)
  <2>1. log.buf = << >> /\ bootLen = Len(s)
    BY <1>1 DEF LoserInv, AnalysisInv, Analyzing
  <2>2. s \in Seq(LogRecord) /\ scan >= 1 /\ scan \in Nat
    BY <1>1, BaseTypes DEF Base, TypeInv, ScanInv
  <2> QED
    BY <1>1, <2>1, <2>2, LenProperties, ConcatEmptySeq DEF History
<1>3. Ordered(s, log.next)
  BY <1>2 DEF Base, InOrder, HistoryOf, History
<1>4. /\ HistInv(History') /\ IdsBelow(History', nextXid')
      /\ OpenXids' = {} /\ OpenXids = {} /\ HistInv(s)
  BY <1>1, <1>2, Still DEF Recovering, LoserInv
<1>5. PICK m \in 0 .. bootLen : ReadUpTo(m)
  BY <1>1 DEF LoserInv, AnalysisInv
<1>6. \E n \in 0 .. bootLen : ReadUpTo(n)'
  <2>1. CASE \E e \in ends : s[scan].lsn <= s[e].lsn
    <3>1. PICK e \in ends : s[scan].lsn <= s[e].lsn
      BY <2>1
    <3>2. e \in DOMAIN s
      BY DEF CheckpointEnds
    <3>3. scan <= e
      <4>1. s[e].lsn \in Nat /\ s[scan].lsn \in Nat
        BY <1>2, <3>2, HistoryLsns
      <4>2. ~(e < scan)
        BY <1>2, <1>3, <3>1, <3>2, <4>1 DEF Ordered
      <4> QED
        BY <1>2, <3>2, <4>2
    <3>4. e <= m /\ m \in Nat
      BY <1>2, <1>5 DEF ReadUpTo
    <3>5. scan' - 1 <= m /\ m # scan - 1
      BY <1>1, <1>2, <3>2, <3>3, <3>4
    <3>6. ReadUpTo(m)'
      BY <1>1, <1>5, <2>1, <3>5 DEF ReadUpTo
    <3> QED
      BY <3>6
  <2>2. CASE ~ \E e \in ends : s[scan].lsn <= s[e].lsn
    <3>1. \A e \in ends : e < scan
      <4>1. ASSUME NEW e \in ends, scan <= e
            PROVE  s[scan].lsn <= s[e].lsn
        <5>1. e \in DOMAIN s
          BY DEF CheckpointEnds
        <5>2. s[e].lsn \in Nat /\ s[scan].lsn \in Nat
          BY <1>2, <5>1, HistoryLsns
        <5>3. scan = e \/ scan < e
          BY <1>2, <4>1, <5>1
        <5> QED
          BY <1>2, <1>3, <5>1, <5>2, <5>3 DEF Ordered
      <4>2. \A e \in ends : ~(scan <= e) /\ e \in DOMAIN s
        BY <2>2, <4>1 DEF CheckpointEnds
      <4> QED
        BY <1>2, <4>2
    <3>2. m = scan - 1
      BY <1>2, <1>5, <3>1 DEF ReadUpTo
    <3>3. Follows(txTable', s, scan)
      BY <1>1, <1>2, <1>4, <1>5, <2>2, <3>2, ReadRecord DEF Base, ReadUpTo
    <3>4. PICK k \in 0 .. bootLen : k = scan
      BY <1>2
    <3>5. scan' - 1 = k /\ \A e \in ends : e <= k
      <4>1. ends \subseteq DOMAIN s
        BY DEF CheckpointEnds
      <4> QED
        BY <1>1, <1>2, <3>1, <3>4, <4>1
    <3>6. ReadUpTo(k)'
      BY <1>1, <1>2, <3>3, <3>4, <3>5 DEF ReadUpTo
    <3> QED
      BY <3>4, <3>6
  <2> QED
    BY <2>1, <2>2
<1>7. TableSeen(History)'
  <2>1. PICK n \in 0 .. bootLen : ReadUpTo(n)'
    BY <1>6
  <2>2. Follows(txTable', s, n)
    BY <1>1, <2>1 DEF ReadUpTo
  <2>3. \A x : Seen(s, n, x) => Seen(s, Len(s), x)
    BY <1>2 DEF Seen
  <2> QED
    BY <1>2, <2>2, <2>3 DEF Follows, Found, TableSeen, Clean
<1>8. AnalysisInv'
  BY <1>1, <1>6 DEF LoserInv, AnalysisInv, Analyzing
<1>9. UndoInv' /\ pc' \in Away \ {"finish", "boot"}
  BY <1>1 DEF UndoInv, Away, Recovering
<1> QED
  BY <1>4, <1>7, <1>8, <1>9 DEF LoserInv

LEMMA Redo_Loser ==
    ASSUME Base, LoserInv,
           \/ AnalysisDone \/ RedoSkip \/ RedoApply
           \/ EnsurePageExists \/ RedoFresh
    PROVE  LoserInv'
<1>1. /\ pc \in Analyzing /\ pc' \in {"redo", "redofresh"}
      /\ UNCHANGED <<log, txTable, openTx, nextXid, bootLen>>
  BY DEF AnalysisDone, RedoSkip, RedoApply, EnsurePageExists, RedoFresh,
         Redoing, Reapply, tables, Analyzing, recovery
<1>2. /\ HistInv(History') /\ IdsBelow(History', nextXid')
      /\ OpenXids' = {} /\ OpenXids = {} /\ History' = History
  <2>1. History' = History /\ pc \in Recovering
    BY <1>1 DEF History, Analyzing, Recovering
  <2> QED
    BY <1>1, <2>1, Still
<1>3. log.buf = << >> /\ bootLen = Len(log.stable)
  BY <1>1 DEF LoserInv, AnalysisInv
<1>4. Follows(txTable, log.stable, bootLen)
  <2>1. CASE AnalysisDone
    <3>1. pc = "analysis" /\ scan > bootLen
      BY <2>1 DEF AnalysisDone
    <3>2. PICK m \in 0 .. bootLen : ReadUpTo(m)
      BY <3>1 DEF LoserInv, AnalysisInv
    <3>3. m = bootLen
      BY <3>1, <3>2, BaseTypes DEF Base, ReadUpTo
    <3> QED
      BY <3>2, <3>3 DEF ReadUpTo
  <2>2. CASE pc \in {"redo", "redofresh"}
    BY <2>2 DEF LoserInv, AnalysisInv
  <2> QED
    BY <2>1, <2>2 DEF RedoSkip, RedoApply, EnsurePageExists, RedoFresh, Redoing
<1>5. AnalysisInv' /\ UndoInv' /\ pc' \in Away \ {"finish", "boot"}
  BY <1>1, <1>3, <1>4
     DEF AnalysisInv, UndoInv, Analyzing, Away, Recovering
<1>6. TableSeen(History)'
  BY <1>1, <1>2 DEF LoserInv, TableSeen, Clean
<1> QED
  BY <1>2, <1>5, <1>6 DEF LoserInv

-----------------------------------------------------------------------------
(* Undo, the end records and the theorem *)

\* The list of losers is the table's, and the table knows them all.
LEMMA RedoDone_Loser ==
    ASSUME Base, LoserInv, RedoDone
    PROVE  LoserInv'
<1>1. /\ pc = "redo" /\ pc' = "undo"
      /\ UNCHANGED <<log, txTable, openTx, nextXid>>
      /\ toUndo' = [x \in Xids |-> IF txTable[x].status = "active"
                                   THEN txTable[x].lastLSN ELSE NoLsn]
  BY DEF RedoDone, tables
<1>2. /\ HistInv(History') /\ IdsBelow(History', nextXid')
      /\ OpenXids' = {} /\ OpenXids = {} /\ History' = History
  <2>1. History' = History /\ pc \in Recovering
    BY <1>1 DEF History, Recovering
  <2> QED
    BY <1>1, <2>1, Still
<1>3. /\ History \in Seq(LogRecord) /\ Follows(txTable, History, Len(History))
  <2>1. /\ log.buf = << >> /\ bootLen = Len(log.stable)
        /\ Follows(txTable, log.stable, bootLen)
    BY <1>1 DEF LoserInv, AnalysisInv, Analyzing
  <2>2. History = log.stable /\ log.stable \in Seq(LogRecord)
    BY <2>1, BaseTypes, ConcatEmptySeq DEF Base, History
  <2> QED
    BY <2>1, <2>2
<1>4. ASSUME NEW x \in Losers(History) PROVE toUndo'[x] # NoLsn
  <2>1. UpTo(History, Len(History), x) = UpdatesOf(History, x)
    BY <1>3, LenProperties DEF UpTo, UpdatesOf, UpdatesIn
  <2> DEFINE is == UpdatesOf(History, x)
             l  == LsnOfLast(History, is)
  <2>2. x \in Xids /\ txTable[x] = Active(l) /\ is # {}
    BY <1>3, <2>1 DEF Losers, Follows, Found
  <2>3. l \in Nat
    <3>1. DOMAIN History = 1 .. Len(History) /\ Len(History) \in Nat
      BY <1>3, LenProperties
    <3>2. is \in SUBSET (1 .. Len(History))
      BY <3>1 DEF UpdatesOf, UpdatesIn
    <3> HIDE DEF is
    <3>3. Max(is) \in DOMAIN History
      BY <2>2, <3>1, <3>2, MaxIndex
    <3> QED
      BY <1>3, <2>2, <3>3, HistoryLsns DEF LsnOfLast
  <2> HIDE DEF l
  <2>4. Active(l).status = "active" /\ Active(l).lastLSN = l /\ l # NoLsn
    BY <2>3 DEF Active, NoLsn
  <2> QED
    BY <1>1, <2>2, <2>4
<1>5. \A x \in Xids : toUndo'[x] # NoLsn => txTable'[x].lastLSN # NoLsn
  BY <1>1
<1>6. UndoInv'
  BY <1>1, <1>2, <1>4, <1>5 DEF UndoInv, Unfinished, Losers, Clean
<1>7. AnalysisInv' /\ pc' \in Away \ {"finish", "boot"}
  BY <1>1 DEF AnalysisInv, Analyzing, Away, Recovering
<1>8. TableSeen(History)'
  BY <1>1, <1>2 DEF LoserInv, TableSeen, Clean
<1> QED
  BY <1>2, <1>6, <1>7, <1>8 DEF LoserInv

\* One record of a chain: its transaction stays on the list or is next to
\* get its end.
LEMMA UndoRecord_Loser ==
    ASSUME Base, LoserInv, NEW z \in Xids, UndoRecord(z)
    PROVE  LoserInv'
<1>1. PICK prev :
         /\ toUndo' = [toUndo EXCEPT ![z] = prev]
         /\ \/ prev # NoLsn /\ UNCHANGED <<pc, scan>>
            \/ prev = NoLsn /\ pc' = "endloser" /\ scan' = z
  BY DEF UndoRecord
<1>2. /\ pc = "undo" /\ toUndo[z] # NoLsn
      /\ UNCHANGED <<log, txTable, openTx, nextXid>>
  BY DEF UndoRecord, NextLoser, tables
<1>3. /\ HistInv(History') /\ IdsBelow(History', nextXid')
      /\ OpenXids' = {} /\ OpenXids = {} /\ History' = History
  <2>1. History' = History /\ pc \in Recovering
    BY <1>2 DEF History, Recovering
  <2> QED
    BY <1>2, <2>1, Still
<1>4. \A y \in Xids : toUndo'[y] = IF y = z THEN prev ELSE toUndo[y]
  BY <1>1, BaseTypes DEF Base
<1>5. Unfinished' = Unfinished
  BY <1>1, <1>2, <1>4 DEF Unfinished
<1>6. UndoInv'
  BY <1>1, <1>2, <1>3, <1>4, <1>5 DEF LoserInv, UndoInv, Losers, Clean
<1>7. AnalysisInv' /\ pc' \in Away \ {"finish", "boot"}
  BY <1>1, <1>2 DEF AnalysisInv, Analyzing, Away, Recovering
<1>8. TableSeen(History)'
  BY <1>2, <1>3 DEF LoserInv, TableSeen, Clean
<1> QED
  BY <1>3, <1>6, <1>7, <1>8 DEF LoserInv

LEMMA EndLoser_Loser ==
    ASSUME Base, LoserInv, EndLoser
    PROVE  LoserInv'
<1>1. /\ pc = "endloser" /\ pc' = "undo" /\ toUndo' = toUndo
      /\ log' = Emit(log, TxRec("end", scan))
      /\ txTable' = [txTable EXCEPT ![scan] = NoTx]
      /\ UNCHANGED <<openTx, nextXid>>
  BY DEF EndLoser, EmitEnd
<1>2. /\ scan \in Xids /\ pc # "down" /\ OpenXids = {}
      /\ toUndo[scan] = NoLsn
  BY <1>1 DEF Base, TypeInv, ScanInv, TxInv, OpenXids, Away, Recovering,
              LoserInv, UndoInv
<1>3. /\ Losers(History) \subseteq Unfinished
      /\ \A x \in Unfinished : ~Clean(x)
  BY <1>1 DEF LoserInv, UndoInv
<1>4. Seen(History, Len(History), scan)
  <2>1. scan \in Unfinished
    BY <1>1, <1>2 DEF Unfinished
  <2> QED
    BY <1>2, <1>3, <2>1 DEF LoserInv, TableSeen, Clean
<1>5. /\ HistInv(History') /\ IdsBelow(History', nextXid')
      /\ OpenXids' = OpenXids
      /\ \A y \in OpenXids' : ~Ended(History', Len(History'), y)
      /\ Losers(History') \subseteq Losers(History) \ {scan}
      /\ TableSeen(History)'
  BY <1>1, <1>2, <1>4, End_Emits
<1>6. Unfinished' = Unfinished \ {scan}
  BY <1>1, <1>2 DEF Unfinished
<1>7. \A x \in Unfinished' : txTable'[x] = txTable[x]
  BY <1>1, <1>2, <1>6, BaseTypes DEF Base, Unfinished
<1>8. UndoInv'
  BY <1>1, <1>3, <1>5, <1>6, <1>7 DEF UndoInv, Clean
<1>9. AnalysisInv' /\ pc' \in Away \ {"finish", "boot"}
  BY <1>1 DEF AnalysisInv, Analyzing, Away, Recovering
<1> QED
  BY <1>5, <1>8, <1>9 DEF LoserInv

\* With an empty list there is no loser, and none comes back.
LEMMA Finish_Loser ==
    ASSUME Base, LoserInv, UndoDone \/ RecoveryDone \/ Boot
    PROVE  LoserInv'
<1>1. /\ UNCHANGED <<txTable, openTx, nextXid>>
      /\ \/ pc = "undo" /\ pc' = "finish" /\ \A x \in Xids : toUndo[x] = NoLsn
         \/ pc = "finish" /\ pc' = "boot"
         \/ pc = "boot" /\ pc' = "idle"
  BY DEF UndoDone, RecoveryDone, Boot, tables
<1>2. History' = History
  <2>1. Keeps
    BY DEF UndoDone, RecoveryDone, Boot, Keeps
  <2> QED
    BY <2>1, HistoryMoves DEF Base
<1>3. /\ HistInv(History') /\ IdsBelow(History', nextXid')
      /\ OpenXids' = {} /\ OpenXids = {}
  <2>1. pc \in Recovering
    BY <1>1 DEF Recovering
  <2> QED
    BY <1>1, <1>2, <2>1, Still
<1>4. Losers(History) = {}
  <2>1. CASE pc = "undo"
    <3>1. Unfinished = {}
      BY <1>1, <2>1 DEF Unfinished
    <3> QED
      BY <2>1, <3>1 DEF LoserInv, UndoInv
  <2>2. CASE pc \in {"finish", "boot"}
    BY <1>3, <2>2 DEF LoserInv, Away
  <2> QED
    BY <1>1, <2>1, <2>2
<1>5. AnalysisInv' /\ UndoInv' /\ pc' # "down"
  BY <1>1 DEF AnalysisInv, UndoInv, Analyzing
<1>6. TableSeen(History)'
  BY <1>1, <1>2 DEF LoserInv, TableSeen, Clean
<1> QED
  BY <1>2, <1>3, <1>4, <1>5, <1>6 DEF LoserInv

LEMMA FinishCommitted_Loser ==
    ASSUME Base, LoserInv, NEW x \in Xids, FinishCommitted(x)
    PROVE  LoserInv'
<1>1. /\ pc = "finish" /\ pc' = "finish" /\ txTable[x].status = "committed"
      /\ log' = Emit(log, TxRec("end", x))
      /\ txTable' = [txTable EXCEPT ![x] = NoTx]
      /\ UNCHANGED <<openTx, nextXid>>
  BY DEF FinishCommitted, EmitEnd
<1>2. OpenXids = {} /\ pc # "down" /\ Losers(History) \subseteq OpenXids
  BY <1>1 DEF Base, TxInv, OpenXids, LoserInv, Away, Recovering
<1>3. Seen(History, Len(History), x)
  BY <1>1 DEF LoserInv, TableSeen, Clean
<1>4. /\ HistInv(History') /\ IdsBelow(History', nextXid')
      /\ OpenXids' = OpenXids
      /\ \A y \in OpenXids' : ~Ended(History', Len(History'), y)
      /\ Losers(History') \subseteq Losers(History) \ {x}
      /\ TableSeen(History)'
  BY <1>1, <1>2, <1>3, End_Emits
<1>5. AnalysisInv' /\ UndoInv'
  BY <1>1 DEF AnalysisInv, UndoInv, Analyzing
<1> QED
  BY <1>2, <1>4, <1>5 DEF LoserInv

LEMMA Quiet_Steps ==
    ASSUME Base, LoserInv,
           \/ \E p \in Pages : GetPage(p) \/ AllocatePage(p) \/ FlushPage(p)
           \/ StartFlush \/ Shutdown \/ FlushDone \/ WriteMaster \/ Install
    PROVE  LoserInv'
<1>1. Keeps
  BY PoolMoves DEF GetPage, AllocatePage, FlushPage, StartFlush, Shutdown,
                   FlushDone, WriteMaster, Install, Keeps
<1>2. History' = History
  BY <1>1, HistoryMoves DEF Base
<1>3. /\ pc \in {"idle", "flush", "exit", "master", "install"}
      /\ pc' \in {"idle", "flush", "exit", "install"}
      /\ UNCHANGED <<txTable, openTx, nextXid>>
  BY DEF GetPage, AllocatePage, FlushPage, StartFlush, Shutdown, FlushDone,
         WriteMaster, Install, Ready, tables
<1> QED
  BY <1>2, <1>3, Quiet_Loser DEF Quiet, Serving, Away, Recovering

LEMMA Next_Loser == Base /\ LoserInv /\ [Next]_vars => LoserInv'
<1> SUFFICES ASSUME Base, LoserInv, [Next]_vars PROVE LoserInv'
  OBVIOUS
<1>1. CASE UNCHANGED vars
  <2>1. History' = History /\ OpenXids' = OpenXids /\ Unfinished' = Unfinished
    BY <1>1 DEF vars, History, OpenXids, Unfinished
  <2>2. \A m : ReadUpTo(m)' <=> ReadUpTo(m)
    BY <1>1 DEF vars, ReadUpTo
  <2> QED
    BY <1>1, <2>1, <2>2 DEF vars, LoserInv, TableSeen, AnalysisInv,
                                UndoInv, Clean
<1>2. CASE Serve
  BY <1>2, TxBegin_Loser, CommitRecord_Loser, WritePage_Loser, Quiet_Steps
     DEF Serve
<1>3. CASE Continue
  BY <1>3, CheckpointBegin_Loser, CheckpointEnd_Loser, CommitEnd_Loser,
     Quiet_Steps, Down_Loser DEF Continue
<1>4. CASE Recover
  BY <1>4, AnalyzeRecord_Loser, Redo_Loser, RedoDone_Loser, UndoRecord_Loser,
     EndLoser_Loser, Finish_Loser, FinishCommitted_Loser DEF Recover
<1>5. CASE Restart \/ Kill
  BY <1>5, Restart_Loser, Down_Loser
<1> QED
  BY <1>1, <1>2, <1>3, <1>4, <1>5 DEF Next

LEMMA Init_Loser == Init => LoserInv
<1> SUFFICES ASSUME Init PROVE LoserInv
  OBVIOUS
<1>1. History = << >>
  <2>1. << >> \in Seq(LogRecord) /\ log = ReopenLog(<< >>)
    BY DEF Init
  <2> QED
    BY <2>1, ReopenType, ConcatEmptySeq DEF History
<1>2. pc = "down" /\ OpenXids = {} /\ txTable = NoTable
  BY DEF Init, OpenXids
<1>3. HistInv(History)
  BY <1>1 DEF HistInv
<1>4. TableSeen(History)
  BY <1>2 DEF TableSeen, NoTable, NoTx, Clean
<1>5. AnalysisInv /\ UndoInv /\ pc \in Away \ {"finish", "boot"}
  BY <1>2 DEF AnalysisInv, UndoInv, Analyzing, Away
<1> QED
  BY <1>2, <1>3, <1>4, <1>5 DEF LoserInv

LEMMA AlwaysBase == Spec => []Base
<1>1. TypeInv /\ TxInv /\ TableInv /\ CommitInv /\ InOrder(log) => Base
  BY DEF Base
<1> QED
  BY <1>1, TypeInvariant, AlwaysTxInv, AlwaysTableInv, AlwaysCommitInv,
     AlwaysInOrder, PTL

LEMMA AlwaysLoserInv == Spec => []LoserInv
  BY AlwaysBase, Init_Loser, Next_Loser, PTL DEF Spec

\* Analysis finds exactly the losers, and for each the update its chain
\* starts at, whether the checkpoint or the log told it, after any number of
\* crashes and also when the last one fell inside recovery
\* (_phase_analysis, _phase_undo, _checkpoint).
THEOREM AnalysisFindsLosers == Spec => []LosersFound
<1>1. Base /\ LoserInv => LosersFound
  <2> SUFFICES ASSUME Base, LoserInv, pc = "redo" PROVE LosersFound
    BY DEF LosersFound
  <2>1. /\ log.buf = << >> /\ bootLen = Len(log.stable)
        /\ Follows(txTable, log.stable, bootLen)
    BY DEF LoserInv, AnalysisInv, Analyzing
  <2> DEFINE h == History
  <2>2. h = log.stable /\ h \in Seq(LogRecord) /\ bootLen = Len(h)
        /\ DOMAIN h = 1 .. Len(h) /\ Follows(txTable, h, bootLen)
    <3>1. h = log.stable /\ log.stable \in Seq(LogRecord)
      BY <2>1, BaseTypes, ConcatEmptySeq DEF Base, History
    <3> HIDE DEF h
    <3> QED
      BY <2>1, <3>1, LenProperties
  <2>3. ASSUME NEW x \in Xids
        PROVE  LET mine  == {i \in IndicesOf("update") : h[i].xid = x}
                   loser == /\ mine # {}
                            /\ x \notin Logged("commit", bootLen)
                            /\ x \notin Logged("end", bootLen)
               IN  /\ loser => txTable[x] = Active(h[Max(mine)].lsn)
                   /\ ~loser => txTable[x].status # "active"
                                \/ txTable[x].lastLSN = NoLsn
    <3> DEFINE mine == {i \in IndicesOf("update") : h[i].xid = x}
    <3>1. mine = UpTo(h, bootLen, x)
      BY <2>2 DEF IndicesOf, UpTo, UpdatesOf, UpdatesIn
    <3>2. Ended(h, bootLen, x) <=>
             x \in Logged("commit", bootLen) \/ x \in Logged("end", bootLen)
      BY <2>2 DEF Ended, Ends, Logged
    <3>3. Found(txTable[x], h, bootLen, x)
      BY <2>2 DEF Follows
    <3> HIDE DEF mine
    <3> QED
      BY <3>1, <3>2, <3>3 DEF Found, LsnOfLast, mine
  <2> QED
    BY <2>3 DEF LosersFound
<1> QED
  BY <1>1, AlwaysBase, AlwaysLoserInv, PTL
===============================================================================
