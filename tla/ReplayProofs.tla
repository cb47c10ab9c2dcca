---------------------------- MODULE ReplayProofs ----------------------------
(***************************************************************************)
(* ReplayInv is an invariant of every instance of WalEngine: first what    *)
(* replaying a page from the log gives, then one lemma per action.         *)
(***************************************************************************)
EXTENDS ReplayInv, LogProofs

-----------------------------------------------------------------------------
(* Replaying a page from the log *)

Agree(g, h, n) ==
    n <= Len(g) /\ n <= Len(h) /\ \A i \in 1 .. n : g[i] = h[i]

LEMMA TrackedCells ==
    /\ Track \subseteq Offsets /\ UserCells \subseteq Track
    /\ LsnOffset \in Track /\ LsnOffset + 1 \in Track
    /\ UserCells \cap LsnCells = {} /\ TypeCell \notin Track
    /\ \A cells \in WriteSets : cells \subseteq Offsets
  BY PageLayout, RuntimeConfig
     DEF Track, UserCells, LsnCells, Offsets, DataCells

LEMMA UpdateParts ==
    ASSUME NEW h \in Seq(LogRecord), NEW p \in Pages, NEW i \in UpdatesOn(h, p)
    PROVE  /\ i \in 1 .. Len(h) /\ h[i] \in UpdateRecord
           /\ h[i].type = "update" /\ h[i].page = p /\ h[i].lsn \in Nat
           /\ h[i].xid \in Xids /\ h[i].before \in Image
           /\ h[i].after \in Image
<1>1. i \in 1 .. Len(h) /\ h[i] \in LogRecord /\ h[i].type = "update"
      /\ h[i].page = p
  BY DEF UpdatesOn, IsUpdateOn
<1> QED
  BY <1>1, RecordFields DEF UpdateRecord

\* A cell's value is what its last writer put there.
LEMMA LastWriter ==
    ASSUME NEW h \in Seq(LogRecord), NEW is \in SUBSET DOMAIN h, NEW k \in is,
           \A i \in is : i <= k, NEW o
    PROVE  ValueOf(h, is, o) = h[k].after[o]
<1>1. Len(h) \in Nat /\ is \in SUBSET (1 .. Len(h)) /\ is # {}
  OBVIOUS
<1>2. Max(is) = k
  BY <1>1, LargestIndex
<1> QED
  BY <1>1, <1>2 DEF ValueOf

LEMMA ValueParts ==
    ASSUME NEW h \in Seq(LogRecord), NEW is \in SUBSET DOMAIN h, NEW o
    PROVE  \/ is = {} /\ ValueOf(h, is, o) = 0
           \/ \E k \in is : /\ \A i \in is : i <= k
                            /\ ValueOf(h, is, o) = h[k].after[o]
<1>1. Len(h) \in Nat /\ is \in SUBSET (1 .. Len(h))
  OBVIOUS
<1>2. is # {} => Max(is) \in is /\ \A i \in is : i <= Max(is)
  BY <1>1, MaxIndex
<1> QED
  BY <1>2 DEF ValueOf

LEMMA WritersIn ==
    ASSUME NEW h, NEW p, NEW o, NEW n
    PROVE  /\ Writers(h, p, o, n) \subseteq DOMAIN h
           /\ Writers(h, p, o, n) \subseteq UpdatesOn(h, p)
           /\ UpdatesOn(h, p) \subseteq DOMAIN h
  BY DEF Writers, UpdatesOn

\* Two logs with the same first n records replay them alike.
LEMMA SameAt ==
    ASSUME NEW g \in Seq(LogRecord), NEW h \in Seq(LogRecord), NEW n \in Nat,
           Agree(g, h, n), NEW p, NEW m \in 0 .. n, NEW o
    PROVE  At(g, p, o, m) = At(h, p, o, m)
<1>1. DOMAIN g = 1 .. Len(g) /\ DOMAIN h = 1 .. Len(h) /\ Len(g) \in Nat
      /\ Len(h) \in Nat
  OBVIOUS
<1>2. Writers(g, p, o, m) \subseteq Writers(h, p, o, m)
  BY <1>1 DEF Writers, UpdatesOn, Agree
<1>3. Writers(h, p, o, m) \subseteq Writers(g, p, o, m)
  BY <1>1 DEF Writers, UpdatesOn, Agree
<1> DEFINE is == Writers(g, p, o, m)
<1>4. is = Writers(h, p, o, m) /\ is \in SUBSET DOMAIN g
      /\ is \in SUBSET DOMAIN h
  BY <1>2, <1>3, WritersIn
<1>5. \A i \in is : i \in 1 .. n
  BY <1>1 DEF Writers, UpdatesOn, Agree
<1>6. ValueOf(g, is, o) = ValueOf(h, is, o)
  <2>1. \A k \in is : g[k] = h[k]
    BY <1>5 DEF Agree
  <2> HIDE DEF is
  <2>2. CASE is = {}
    BY <2>2 DEF ValueOf
  <2>3. CASE is # {}
    <3>1. PICK k \in is : /\ \A i \in is : i <= k
                          /\ ValueOf(g, is, o) = g[k].after[o]
      BY <2>3, <1>4, ValueParts
    <3>2. ValueOf(h, is, o) = h[k].after[o]
      BY <3>1, <1>4, LastWriter
    <3> QED
      BY <3>1, <3>2, <2>1
  <2> QED
    BY <2>2, <2>3
<1> QED
  BY <1>4, <1>6 DEF At

LEMMA SameUpdates ==
    ASSUME NEW g \in Seq(LogRecord), NEW h \in Seq(LogRecord), NEW n \in Nat,
           Agree(g, h, n), NEW p, NEW i \in 1 .. n
    PROVE  i \in UpdatesOn(g, p) <=> i \in UpdatesOn(h, p)
<1>1. DOMAIN g = 1 .. Len(g) /\ DOMAIN h = 1 .. Len(h) /\ Len(g) \in Nat
      /\ Len(h) \in Nat
  OBVIOUS
<1> QED
  BY <1>1 DEF UpdatesOn, Agree

LEMMA SameShown ==
    ASSUME NEW g \in Seq(LogRecord), NEW h \in Seq(LogRecord), NEW n \in Nat,
           Agree(g, h, n), NEW p, NEW m \in 0 .. n, NEW img,
           Shown(img, h, p, m)
    PROVE  Shown(img, g, p, m)
  BY SameAt DEF Shown

LEMMA SameLink ==
    ASSUME NEW g \in Seq(LogRecord), NEW h \in Seq(LogRecord), NEW n \in Nat,
           Agree(g, h, n), NEW p, NEW i \in 1 .. n, Link(h, p, i)
    PROVE  Link(g, p, i)
<1>1. g[i] = h[i] /\ i - 1 \in 0 .. n /\ i \in 0 .. n
  BY DEF Agree
<1>2. \A o : At(g, p, o, i - 1) = At(h, p, o, i - 1)
             /\ At(g, p, o, i) = At(h, p, o, i)
  BY <1>1, SameAt
<1> QED
  BY <1>1, <1>2 DEF Link

\* Records that do not change p leave its replay alone.
LEMMA Gap ==
    ASSUME NEW h \in Seq(LogRecord), NEW p, NEW m \in Nat, NEW n \in Nat,
           m <= n, \A i \in UpdatesOn(h, p) : i <= m \/ i > n, NEW o
    PROVE  At(h, p, o, m) = At(h, p, o, n)
<1>1. \A i \in UpdatesOn(h, p) : i \in Nat
  BY DEF UpdatesOn
<1>2. Writers(h, p, o, m) = Writers(h, p, o, n)
  BY <1>1 DEF Writers
<1> QED
  BY <1>2 DEF At

LEMMA GapShown ==
    ASSUME NEW h \in Seq(LogRecord), NEW p, NEW m \in Nat, NEW n \in Nat,
           m <= n, \A i \in UpdatesOn(h, p) : i <= m \/ i > n, NEW img
    PROVE  Shown(img, h, p, m) <=> Shown(img, h, p, n)
  BY Gap DEF Shown

LEMMA WriterAt ==
    ASSUME NEW h \in Seq(LogRecord), NEW p, NEW i \in UpdatesOn(h, p), NEW o
    PROVE  /\ o \in Changed(h[i]) => At(h, p, o, i) = h[i].after[o]
           /\ o \notin Changed(h[i]) => At(h, p, o, i) = At(h, p, o, i - 1)
<1>1. i \in Nat /\ i \in DOMAIN h /\ \A j \in UpdatesOn(h, p) : j \in Nat
  BY DEF UpdatesOn
<1>2. ASSUME o \in Changed(h[i])
      PROVE  At(h, p, o, i) = h[i].after[o]
  <2>1. i \in Writers(h, p, o, i) /\ \A j \in Writers(h, p, o, i) : j <= i
    BY <1>1, <1>2 DEF Writers
  <2> QED
    BY <2>1, WritersIn, LastWriter DEF At
<1>3. ASSUME o \notin Changed(h[i])
      PROVE  Writers(h, p, o, i) = Writers(h, p, o, i - 1)
  <2>1. \A j \in UpdatesOn(h, p) :
           o \in Changed(h[j]) => (j <= i <=> j <= i - 1)
    BY <1>1, <1>3
  <2> QED
    BY <2>1 DEF Writers
<1> QED
  BY <1>2, <1>3 DEF At

\* The pageLSN of a page shown after n records divides its updates.
LEMMA LsnShown ==
    ASSUME NEW h \in Seq(LogRecord), NEW k, Ordered(h, k), NEW p \in Pages,
           NEW n \in Nat, NEW xs, Sound(h, xs, p, n),
           \A i \in UpdatesOn(h, p) : i <= n => Link(h, p, i),
           NEW img \in Image, Shown(img, h, p, n)
    PROVE  \A i \in UpdatesOn(h, p) :
              /\ i <= n => h[i].lsn <= ReadPageLsn(img)
              /\ i > n /\ h[i].lsn # 0 => ReadPageLsn(img) < h[i].lsn
<1> DEFINE is == {i \in UpdatesOn(h, p) : i <= n}
<1>1. /\ \A i \in UpdatesOn(h, p) :
            i \in Nat /\ i \in DOMAIN h /\ h[i].lsn \in Nat
      /\ \A i, j \in UpdatesOn(h, p) : i < j => h[i].lsn < h[j].lsn
  BY UpdateParts DEF Ordered, UpdatesOn
<1>2. /\ img[LsnOffset] = At(h, p, LsnOffset, n)
      /\ img[LsnOffset + 1] = At(h, p, LsnOffset + 1, n)
  BY TrackedCells DEF Shown
<1>3. ReadPageLsn(img) \in Nat
  BY PageLsnType
<1>4. CASE is = {}
  <2>1. \A o : Writers(h, p, o, n) = {}
    BY <1>4 DEF Writers
  <2>2. \A o : At(h, p, o, n) = 0
    BY <2>1 DEF At, ValueOf
  <2>3. ReadPageLsn(img) = 0 + ByteBase * 0
    BY <1>2, <2>2 DEF ReadPageLsn
  <2>4. ReadPageLsn(img) = 0
    BY <2>3, PageLayout
  <2> QED
    BY <2>4, <1>1, <1>4
<1>5. CASE is # {}
  <2>1. PICK m \in is : \A i \in is : i <= m
    <3>1. is \in SUBSET (1 .. Len(h)) /\ Len(h) \in Nat
      BY DEF UpdatesOn
    <3> HIDE DEF is
    <3> QED
      BY <1>5, <3>1, MaxIndex
  <2>2. m \in UpdatesOn(h, p) /\ m <= n /\ m \in Nat
        /\ \A i \in UpdatesOn(h, p) : i <= m \/ i > n
    BY <2>1, <1>1
  <2>3. \A o : At(h, p, o, m) = At(h, p, o, n)
    BY <2>2, Gap
  <2> DEFINE lsn == h[m].lsn
  <2>4. lsn \in Nat /\ img[LsnOffset] = lsn % ByteBase
        /\ img[LsnOffset + 1] = lsn \div ByteBase
    BY <1>2, <2>2, <2>3, <1>1 DEF Link
  <2>5. ReadPageLsn(img) = lsn
    <3> HIDE DEF lsn
    <3>1. ReadPageLsn(img) = (lsn % ByteBase) + ByteBase * (lsn \div ByteBase)
      BY <2>4 DEF ReadPageLsn
    <3>2. (lsn % ByteBase) + ByteBase * (lsn \div ByteBase) = lsn
      BY <2>4, PageLayout
    <3> QED
      BY <3>1, <3>2
  <2> QED
    BY <2>2, <2>5, <1>1, <1>3
<1> QED
  BY <1>4, <1>5

\* Redo of the next update of a page brings it to that point of the log.
LEMMA Applied ==
    ASSUME NEW h \in Seq(LogRecord), NEW p \in Pages,
           NEW i \in UpdatesOn(h, p), Link(h, p, i),
           NEW img \in Image, Shown(img, h, p, i - 1)
    PROVE  /\ ApplyAfter(img, h[i]) \in Image
           /\ Shown(ApplyAfter(img, h[i]), h, p, i)
           /\ ReadPageLsn(ApplyAfter(img, h[i])) = h[i].lsn
<1>1. h[i] \in UpdateRecord /\ h[i].lsn \in Nat /\ h[i].before \in Image
      /\ h[i].after \in Image
  BY UpdateParts
<1>2. ApplyAfter(img, h[i]) \in Image
  BY <1>1, ImageTypes
<1>3. ASSUME NEW o \in Track
      PROVE  ApplyAfter(img, h[i])[o] = At(h, p, o, i)
  <2>1. o \in Offsets /\ img[o] = At(h, p, o, i - 1)
    BY TrackedCells DEF Shown
  <2>2. CASE o \in Changed(h[i])
    <3>1. o \in h[i].window
      BY <2>2 DEF Link
    <3> QED
      BY <2>1, <2>2, <3>1, WriterAt DEF ApplyAfter
  <2>3. CASE o \notin Changed(h[i]) /\ o \in h[i].window
    <3>1. h[i].before[o] = h[i].after[o]
      BY <2>1, <2>3 DEF Changed, Differing
    <3>2. h[i].before[o] = At(h, p, o, i - 1)
      BY <2>3 DEF Link
    <3>3. At(h, p, o, i) = At(h, p, o, i - 1)
      BY <2>3, WriterAt
    <3>4. ApplyAfter(img, h[i])[o] = h[i].after[o]
      BY <2>1, <2>3 DEF ApplyAfter
    <3> QED
      BY <3>1, <3>2, <3>3, <3>4
  <2>4. CASE o \notin Changed(h[i]) /\ o \notin h[i].window
    BY <2>1, <2>4, WriterAt DEF ApplyAfter
  <2> QED
    BY <2>2, <2>3, <2>4
<1>4. ReadPageLsn(ApplyAfter(img, h[i])) = h[i].lsn
  <2> DEFINE lsn == h[i].lsn
             new == ApplyAfter(img, h[i])
  <2>1. new[LsnOffset] = lsn % ByteBase
        /\ new[LsnOffset + 1] = lsn \div ByteBase
    BY <1>3, TrackedCells DEF Link
  <2>2. lsn \in Nat
    BY <1>1
  <2> HIDE DEF lsn, new
  <2>3. ReadPageLsn(new) = (lsn % ByteBase) + ByteBase * (lsn \div ByteBase)
    BY <2>1 DEF ReadPageLsn
  <2>4. (lsn % ByteBase) + ByteBase * (lsn \div ByteBase) = lsn
    BY <2>2, PageLayout
  <2> QED
    BY <2>3, <2>4 DEF lsn, new
<1> QED
  BY <1>2, <1>3, <1>4 DEF Shown

LEMMA SoundMoves ==
    ASSUME NEW g \in Seq(LogRecord), NEW h \in Seq(LogRecord), NEW n \in Nat,
           Agree(g, h, n), NEW xs, NEW ys,
           \A i \in 1 .. n : g[i].type = "update" /\ g[i].xid \in ys
                                 => g[i].xid \in xs,
           NEW p, NEW m \in Nat, n <= m, Sound(g, ys, p, m)
    PROVE  Sound(h, xs, p, n)
<1> SUFFICES ASSUME NEW i \in UpdatesOn(h, p), i <= n
             PROVE  h[i].lsn # 0 /\ h[i].xid \in xs
  BY DEF Sound
<1>1. i \in 1 .. n /\ g[i] = h[i] /\ i <= m
  BY DEF UpdatesOn, Agree
<1>2. i \in UpdatesOn(g, p)
  BY <1>1, SameUpdates
<1>3. g[i].type = "update"
  BY <1>2 DEF UpdatesOn, IsUpdateOn
<1> QED
  BY <1>1, <1>2, <1>3 DEF Sound

LEMMA SoundLess ==
    ASSUME NEW h \in Seq(LogRecord), NEW xs, NEW p, NEW n \in Nat,
           Sound(h, xs, p, n), NEW m \in Nat, m <= n
    PROVE  Sound(h, xs, p, m)
<1>1. \A i \in UpdatesOn(h, p) : i \in Nat
  BY DEF UpdatesOn
<1> QED
  BY <1>1 DEF Sound

-----------------------------------------------------------------------------
(* What every step may rely on *)

Known == WalInv /\ Base /\ LoserInv

LEMMA LogParts ==
    ASSUME NEW l \in LogState
    PROVE  LET h == HistoryOf(l)
           IN  /\ h \in Seq(LogRecord) /\ l.stable \in Seq(LogRecord)
               /\ l.next \in Nat
               /\ Len(h) \in Nat /\ Len(l.stable) \in Nat
               /\ DOMAIN h = 1 .. Len(h)
               /\ DOMAIN l.stable = 1 .. Len(l.stable)
               /\ Len(l.stable) <= Len(h)
               /\ Agree(l.stable, h, Len(l.stable))
               /\ \A i \in DOMAIN h :
                     i > Len(l.stable) => h[i] \in Range(l.buf)
               /\ l.buf = << >> => h = l.stable
<1>1. l.stable \in Seq(LogRecord) /\ l.buf \in Seq(LogRecord)
      /\ HistoryOf(l) \in Seq(LogRecord) /\ l.next \in Nat
  BY HistoryType DEF LogState
<1> DEFINE s == l.stable
           b == l.buf
           h == s \o b
<1>2. HistoryOf(l) = h
  BY DEF HistoryOf
<1>3. s \in Seq(LogRecord) /\ b \in Seq(LogRecord)
  BY <1>1
<1> HIDE DEF s, b
<1>4. /\ h \in Seq(LogRecord) /\ Len(h) = Len(s) + Len(b)
      /\ Len(s) \in Nat /\ Len(b) \in Nat /\ DOMAIN b = 1 .. Len(b)
      /\ DOMAIN h = 1 .. Len(h) /\ DOMAIN s = 1 .. Len(s)
  BY <1>3
<1>5. \A i \in 1 .. Len(s) : h[i] = s[i]
  BY <1>3
<1>6. \A i \in DOMAIN h : i > Len(s) =>
         /\ i - Len(s) \in DOMAIN b /\ h[i] = b[i - Len(s)]
  BY <1>3
<1>7. b = << >> => h = s
  BY <1>3
<1> HIDE DEF h
<1>8. \A i \in DOMAIN h : i > Len(s) => h[i] \in Range(b)
  BY <1>6 DEF Range
<1>9. Len(s) <= Len(h) /\ Len(h) \in Nat
  BY <1>4
<1>10. Agree(s, h, Len(s))
  BY <1>4, <1>5, <1>9 DEF Agree
<1> QED
  BY <1>1, <1>2, <1>3, <1>4, <1>7, <1>8, <1>9, <1>10 DEF s, b

LEMMA StepTypes ==
    ASSUME Known, Known'
    PROVE  /\ log \in LogState /\ log' \in LogState
           /\ History = HistoryOf(log) /\ History' = HistoryOf(log')
           /\ Ordered(History, log.next) /\ Ordered(History', log'.next)
           /\ disk \in [Pages -> Image] /\ disk' \in [Pages -> Image]
           /\ dpt \in [Pages -> Lsns] /\ dpt' \in [Pages -> Lsns]
           /\ scan \in Nat /\ scan' \in Nat
           /\ OpenXids \subseteq Xids /\ NoXid \notin Xids
<1>1. TypeInv /\ TypeInv' /\ InOrder(log) /\ InOrder(log')
  BY DEF Known, Base, InOrder
<1>2. /\ log \in LogState /\ log' \in LogState
      /\ disk \in [Pages -> Image] /\ disk' \in [Pages -> Image]
      /\ dpt \in [Pages -> Lsns] /\ dpt' \in [Pages -> Lsns]
      /\ scan \in Nat /\ scan' \in Nat
  BY <1>1 DEF TypeInv, TypeOK, DirtyPageTable
<1>3. OpenXids \subseteq Xids /\ NoXid \notin Xids
  BY <1>1, BaseTypes
<1>4. History = HistoryOf(log) /\ History' = HistoryOf(log')
  BY DEF History, HistoryOf
<1> QED
  BY <1>1, <1>2, <1>3, <1>4 DEF InOrder

\* The step adds no update to the log and keeps its first n records.
Calm(n) ==
    /\ n \in Nat /\ Len(log.stable) <= n
    /\ Agree(History', History, n)
    /\ \A p \in Pages : \A i \in UpdatesOn(History', p) : i <= n
CalmOn(p, n) ==
    /\ n \in Nat /\ Len(log.stable) <= n
    /\ Agree(History', History, n)
    /\ \A i \in UpdatesOn(History', p) : i <= n
Adds(e) == e \in LogRecord /\ e.type # "update" /\ Emits(e)

LEMMA CalmPage ==
    ASSUME NEW n, Calm(n), NEW p \in Pages
    PROVE  CalmOn(p, n)
  BY DEF Calm, CalmOn

LEMMA CalmKeeps ==
    ASSUME Known, Known', Keeps
    PROVE  Calm(Len(History)) /\ History' = History
<1>1. History' = History
  BY HistoryMoves DEF Known, WalInv
<1>2. /\ History \in Seq(LogRecord) /\ Len(log.stable) <= Len(History)
      /\ Len(History) \in Nat
  BY StepTypes, LogParts
<1> QED
  BY <1>1, <1>2 DEF Calm, Agree, UpdatesOn

LEMMA CalmAdds ==
    ASSUME Known, Known', NEW e, Adds(e)
    PROVE  Calm(Len(History)) /\ History' = Append(History, e)
<1>1. History' = Append(History, e) /\ e \in LogRecord /\ e.type # "update"
  BY HistoryMoves DEF Known, WalInv, Adds
<1>2. /\ History \in Seq(LogRecord) /\ Len(log.stable) <= Len(History)
      /\ Len(History) \in Nat
  BY StepTypes, LogParts
<1> DEFINE h == History
           g == Append(h, e)
<1>3. h \in Seq(LogRecord) /\ Len(h) \in Nat
  BY <1>2
<1> HIDE DEF h
<1>4. /\ Len(g) = Len(h) + 1 /\ DOMAIN g = 1 .. Len(h) + 1
      /\ \A i \in 1 .. Len(h) : g[i] = h[i]
      /\ g[Len(h) + 1] = e
  BY <1>1, <1>3, AppendParts
<1>5. Agree(g, h, Len(h))
  BY <1>3, <1>4 DEF Agree
<1>6. \A p \in Pages : \A i \in UpdatesOn(g, p) : i <= Len(h)
  <2> SUFFICES ASSUME NEW p \in Pages, NEW i \in 1 .. Len(h) + 1,
                      i > Len(h), g[i].type = "update"
               PROVE  FALSE
    BY <1>3, <1>4 DEF UpdatesOn, IsUpdateOn
  <2>1. i = Len(h) + 1
    BY <1>3
  <2> QED
    BY <2>1, <1>1, <1>4
<1> QED
  BY <1>1, <1>2, <1>5, <1>6 DEF Calm, h

LEMMA CalmLoses ==
    ASSUME Known, Known', Loses
    PROVE  /\ \E n \in Nat : Calm(n) /\ Len(History') = n
           /\ Begins(History', History)
<1>1. PICK u \in Seq(LogRecord) :
          log' = ReopenLog(u) /\ Begins(u, History) /\ Begins(log.stable, u)
  BY DEF Loses
<1>2. log'.stable = u /\ log'.buf = << >>
  BY <1>1, ReopenType
<1>3. log \in LogState /\ log' \in LogState /\ History' = HistoryOf(log')
  BY StepTypes
<1>4. History' = u
  BY <1>2, <1>3, LogParts
<1>5. Len(u) \in Nat /\ DOMAIN u = 1 .. Len(u)
  BY <1>1
<1>6. Agree(u, History, Len(u))
  BY <1>1, <1>5 DEF Agree, Begins
<1>7. \A p \in Pages : \A i \in UpdatesOn(u, p) : i <= Len(u)
  BY <1>5 DEF UpdatesOn
<1>8. Len(log.stable) <= Len(u)
  BY <1>1 DEF Begins
<1> QED
  BY <1>1, <1>4, <1>5, <1>6, <1>7, <1>8 DEF Calm

-----------------------------------------------------------------------------
(* Steps that add no update: what each page keeps *)

\* What may be trusted after the step could be trusted before.
Trusts ==
    \A i \in DOMAIN History :
        History[i].type = "update" /\ History[i].xid \in Trusted'
            => History[i].xid \in Trusted

LEMMA SoundBack ==
    ASSUME Known, Known', Trusts, NEW n \in Nat, Agree(History', History, n),
           NEW p, NEW m \in Nat, n <= m, Sound(History', Trusted', p, m)
    PROVE  SoundTo(p, n)
<1>1. /\ History \in Seq(LogRecord) /\ History' \in Seq(LogRecord)
      /\ DOMAIN History = 1 .. Len(History) /\ Len(History) \in Nat
  BY StepTypes, LogParts
<1>2. \A i \in 1 .. n : History'[i].type = "update"
                            /\ History'[i].xid \in Trusted'
                                => History'[i].xid \in Trusted
  BY <1>1 DEF Trusts, Agree
<1>3. Sound(History, Trusted, p, n)
  BY <1>1, <1>2, SoundMoves
<1> QED
  BY <1>3 DEF SoundTo

LEMMA LinkAt ==
    ASSUME Known, Known', Trusts, LinkInv, NEW n \in Nat,
           Agree(History', History, n), NEW p \in Pages,
           NEW i \in UpdatesOn(History', p), i <= n,
           Sound(History', Trusted', p, i)
    PROVE  Link(History', p, i)
<1>1. /\ History \in Seq(LogRecord) /\ History' \in Seq(LogRecord)
      /\ DOMAIN History' = 1 .. Len(History') /\ Len(History') \in Nat
  BY StepTypes, LogParts
<1>2. i \in 1 .. n /\ i \in Nat
  BY <1>1 DEF UpdatesOn
<1>3. Agree(History', History, i)
  BY <1>1, <1>2 DEF Agree
<1>4. SoundTo(p, i)
  BY <1>2, <1>3, SoundBack
<1>5. i \in UpdatesOn(History, p)
  BY <1>1, <1>2, SameUpdates
<1>6. Link(History, p, i)
  BY <1>4, <1>5 DEF LinkInv
<1> QED
  BY <1>1, <1>2, <1>6, SameLink

LEMMA KeptLink ==
    ASSUME Known, Known', Trusts, LinkInv, NEW n, Calm(n)
    PROVE  LinkInv'
  BY LinkAt DEF LinkInv, SoundTo, Calm

LEMMA KeptFile ==
    ASSUME Known, Known', Trusts, NEW n \in Nat,
           Agree(History', History, n), Len(log.stable) <= n, NEW p \in Pages,
           FileShows(p), disk'[p] = disk[p],
           Len(log.stable) <= Len(log'.stable),
           pc' \in {"redo", "redofresh"} =>
               \/ scan' <= 1
               \/ pc \in {"redo", "redofresh"} /\ scan' = scan
    PROVE  FileShows(p)'
<1>1. /\ History \in Seq(LogRecord) /\ History' \in Seq(LogRecord)
      /\ n \in Nat /\ Agree(History', History, n)
      /\ Len(log.stable) \in Nat /\ Len(log'.stable) \in Nat
      /\ Len(log.stable) <= n /\ scan' \in Nat
  BY StepTypes, LogParts
<1> SUFFICES ASSUME Sound(History', Trusted', p, Len(log'.stable))
             PROVE  \E m \in 0 .. Len(log'.stable) :
                       /\ Shown(disk'[p], History', p, m)
                       /\ pc' \in {"redo", "redofresh"} => m >= scan' - 1
  BY DEF FileShows, SoundTo
<1>2. Agree(History', History, Len(log.stable))
  BY <1>1 DEF Agree
<1>3. SoundTo(p, Len(log.stable))
  BY <1>1, <1>2, SoundBack
<1>4. PICK m \in 0 .. Len(log.stable) :
          /\ Shown(disk[p], History, p, m)
          /\ pc \in {"redo", "redofresh"} => m >= scan - 1
  BY <1>3 DEF FileShows
<1>5. Shown(disk'[p], History', p, m)
  BY <1>1, <1>2, <1>4, SameShown
<1>6. m \in 0 .. Len(log'.stable)
  BY <1>1
<1>7. pc' \in {"redo", "redofresh"} => m >= scan' - 1
  <2>1. CASE scan' <= 1
    <3>1. PICK k \in Nat : k = scan'
      BY <1>1
    <3>2. PICK l \in Nat : l = Len(log'.stable)
      BY <1>1
    <3>3. m \in 0 .. l /\ k <= 1
      BY <1>6, <3>1, <3>2, <2>1
    <3>4. m >= k - 1
      BY <3>3
    <3> QED
      BY <3>1, <3>4
  <2>2. ASSUME pc \in {"redo", "redofresh"}, scan' = scan
        PROVE  m >= scan' - 1
    BY <1>4, <2>2
  <2> QED
    BY <2>1, <2>2
<1> QED
  BY <1>5, <1>6, <1>7

LEMMA KeptMemory ==
    ASSUME Known, Known', Trusts, NEW p \in Pages, NEW n, CalmOn(p, n),
           n = Len(History), MemoryShows(p),
           \A o \in Track : Now(p)'[o] = Now(p)[o]
    PROVE  MemoryShows(p)'
<1>1. /\ History \in Seq(LogRecord) /\ History' \in Seq(LogRecord)
      /\ n \in Nat /\ Agree(History', History, n)
      /\ Len(History') \in Nat /\ n <= Len(History')
  BY StepTypes, LogParts DEF CalmOn, Agree
<1> SUFFICES ASSUME Sound(History', Trusted', p, Len(History'))
             PROVE  Shown(Now(p)', History', p, Len(History'))
  BY DEF MemoryShows, SoundTo
<1>2. SoundTo(p, n)
  BY <1>1, SoundBack
<1>3. Shown(Now(p), History, p, n)
  BY <1>2 DEF MemoryShows
<1>4. Shown(Now(p)', History, p, n)
  BY <1>3 DEF Shown
<1>5. Shown(Now(p)', History', p, n)
  BY <1>1, <1>4, SameShown
<1>6. \A i \in UpdatesOn(History', p) : i <= n
  BY DEF CalmOn
<1> QED
  BY <1>1, <1>5, <1>6, GapShown

\* A page that is written back shows the whole log, if it can be trusted.
LEMMA WrittenShows ==
    ASSUME Known, Known', Trusts, LinkInv', NEW n, Calm(n), n = Len(History),
           NEW p \in Pages, MemoryShows(p), disk'[p] = Now(p),
           \A rec \in Range(log'.buf) : ~IsUpdateOn(rec, p),
           Sound(History', Trusted', p, Len(log'.stable))
    PROVE  /\ Shown(disk'[p], History', p, Len(log'.stable))
           /\ \A i \in UpdatesOn(History', p) :
                 History'[i].lsn <= ReadPageLsn(disk'[p])
<1>1. /\ History \in Seq(LogRecord) /\ History' \in Seq(LogRecord)
      /\ n \in Nat /\ Agree(History', History, n)
      /\ Len(History') \in Nat /\ n <= Len(History')
      /\ Len(log'.stable) \in Nat /\ Len(log'.stable) <= Len(History')
      /\ DOMAIN History' = 1 .. Len(History')
      /\ Ordered(History', log'.next) /\ disk'[p] \in Image
  BY StepTypes, LogParts DEF Calm, Agree
<1>2. \A i \in UpdatesOn(History', p) :
         i <= n /\ i <= Len(log'.stable) /\ i <= Len(History') /\ i \in Nat
  <2> SUFFICES ASSUME NEW i \in UpdatesOn(History', p)
               PROVE  i <= n /\ i <= Len(log'.stable) /\ i <= Len(History')
                      /\ i \in Nat
    OBVIOUS
  <2>1. i \in DOMAIN History' /\ IsUpdateOn(History'[i], p)
    BY DEF UpdatesOn
  <2>2. i > Len(log'.stable) => History'[i] \in Range(log'.buf)
    BY <2>1, StepTypes, LogParts
  <2> QED
    BY <1>1, <2>1, <2>2 DEF Calm
<1>3. Sound(History', Trusted', p, Len(History'))
  BY <1>2 DEF Sound
<1>4. SoundTo(p, n)
  BY <1>1, <1>3, SoundBack
<1>5. Shown(disk'[p], History, p, n)
  BY <1>4 DEF MemoryShows
<1>6. Shown(disk'[p], History', p, n)
  BY <1>1, <1>5, SameShown
<1>7. Shown(disk'[p], History', p, Len(History'))
  BY <1>1, <1>2, <1>6, GapShown
<1>8. Shown(disk'[p], History', p, Len(log'.stable))
  BY <1>1, <1>2, <1>7, GapShown
<1>9. \A i \in UpdatesOn(History', p) : Link(History', p, i)
  <2>1. \A i \in UpdatesOn(History', p) : Sound(History', Trusted', p, i)
    BY <1>1, <1>2, <1>3, SoundLess
  <2> QED
    BY <2>1 DEF LinkInv, SoundTo
<1>10. \A i \in UpdatesOn(History', p) :
          History'[i].lsn <= ReadPageLsn(disk'[p])
  BY <1>1, <1>2, <1>3, <1>7, <1>9, LsnShown
<1> QED
  BY <1>8, <1>10

LEMMA KeptReach ==
    ASSUME Known, Known', Trusts, NEW p \in Pages, NEW n, CalmOn(p, n),
           n = Len(History), Reached(p), disk'[p] = disk[p], dpt'[p] = dpt[p],
           pc # "analysis"
    PROVE  Reached(p)'
<1>1. /\ History \in Seq(LogRecord) /\ History' \in Seq(LogRecord)
      /\ n \in Nat /\ Agree(History', History, n)
      /\ Len(History') \in Nat /\ n <= Len(History')
      /\ DOMAIN History' = 1 .. Len(History')
  BY StepTypes, LogParts DEF CalmOn, Agree
<1> SUFFICES ASSUME Sound(History', Trusted', p, Len(History')),
                    NEW i \in UpdatesOn(History', p)
             PROVE  ReadPageLsn(disk'[p]) < History'[i].lsn =>
                       dpt'[p] # NoLsn /\ dpt'[p] <= History'[i].lsn
  BY DEF Reached, SoundTo, Reaches
<1>2. SoundTo(p, n)
  BY <1>1, SoundBack
<1>3. i \in 1 .. n /\ History'[i] = History[i] /\ i \in UpdatesOn(History, p)
  <2>1. i \in 1 .. n
    BY <1>1 DEF CalmOn, UpdatesOn
  <2> QED
    BY <2>1, <1>1, SameUpdates DEF Agree
<1> QED
  BY <1>2, <1>3 DEF Reached, AnalyzedSoFar, Reaches

LEMMA KeptTable ==
    ASSUME Known, Known', Trusts, NEW n \in Nat,
           Agree(History', History, n), Len(log.stable) <= n,
           Len(log.stable) <= Len(log'.stable),
           NEW p \in Pages, NEW e \in 1 .. n, TableReached(p, e),
           disk'[p] = disk[p]
    PROVE  TableReached(p, e)'
<1>1. /\ History \in Seq(LogRecord) /\ History' \in Seq(LogRecord)
      /\ n \in Nat /\ Agree(History', History, n)
      /\ Len(log.stable) \in Nat /\ Len(log'.stable) \in Nat
      /\ Len(log.stable) <= n /\ DOMAIN History' = 1 .. Len(History')
  BY StepTypes, LogParts DEF Agree
<1> SUFFICES ASSUME Sound(History', Trusted', p, e),
                    Sound(History', Trusted', p, Len(log'.stable)),
                    NEW i \in UpdatesOn(History', p), i < e
             PROVE  ReadPageLsn(disk'[p]) < History'[i].lsn =>
                       /\ History'[e].dirty[p] # NoLsn
                       /\ History'[e].dirty[p] <= History'[i].lsn
  BY DEF TableReached, SoundTo, Reaches
<1>2. Agree(History', History, e) /\ Agree(History', History, Len(log.stable))
      /\ e \in Nat
  BY <1>1 DEF Agree
<1>3. SoundTo(p, e) /\ SoundTo(p, Len(log.stable))
  BY <1>1, <1>2, SoundBack
<1>4. i \in 1 .. n /\ History'[i] = History[i] /\ i \in UpdatesOn(History, p)
      /\ History'[e] = History[e]
  <2>1. i \in 1 .. n
    BY <1>1 DEF UpdatesOn
  <2> QED
    BY <2>1, <1>1, SameUpdates DEF Agree
<1>5. Reaches(History[e].dirty, p, i)
  BY <1>3, <1>4 DEF TableReached
<1> QED
  BY <1>4, <1>5 DEF Reaches

-----------------------------------------------------------------------------
(* Steps outside Redo that show every page as before *)

Held(p) == disk'[p] = disk[p] /\ dpt'[p] = dpt[p]
Written(p) ==
    /\ disk'[p] = Now(p) /\ dpt'[p] = NoLsn
    /\ \A rec \in Range(log'.buf) : ~IsUpdateOn(rec, p)
Logs(e) ==
    /\ Adds(e)
    /\ e.type = "end_chkpt" => e.dirty = dpt /\ e.lsn = log.next
    /\ e.type = "commit" => e.xid \in OpenXids
    /\ e.type = "end" => pc \in Recovering \/ e.xid \in Committed
Steady ==
    /\ pc \notin Replaying /\ pc' \notin Replaying
    /\ Keeps \/ \E e \in LogRecord : Logs(e)
    /\ OpenXids' \subseteq OpenXids \cup {nextXid}
    /\ \A p \in Pages : Held(p) \/ Written(p)
    /\ \A p \in Pages, o \in Track : Now(p)'[o] = Now(p)[o]

LEMMA EmitNext ==
    ASSUME TypeInv, NEW e \in LogRecord, Emits(e)
    PROVE  log'.next = log.next + 1
<1>1. log \in LogState
  BY BaseTypes
<1>2. Emit(log, e) \in LogState /\ Emit(log, e).next = log.next + 1
  BY <1>1, EmitType
<1>3. FlushLog(Emit(log, e)).next = log.next + 1
  BY <1>2, FlushType
<1> QED
  BY <1>2, <1>3 DEF Emits

LEMMA NextGrows ==
    ASSUME TypeInv, Keeps \/ \E e \in LogRecord : Emits(e)
    PROVE  \A k \in Int : k < log.next => k < log'.next
<1>1. log \in LogState /\ log.next \in Nat
  BY BaseTypes
<1>2. log'.next = log.next \/ log'.next = log.next + 1
  <2>1. CASE Keeps
    BY <1>1, <2>1, FlushType, TakeLsnType DEF Keeps
  <2>2. CASE \E e \in LogRecord : Emits(e)
    BY <2>2, EmitNext
  <2> QED
    BY <2>1, <2>2
<1>3. PICK m \in {log.next, log.next + 1} : log'.next = m
  BY <1>2
<1>4. \A k \in Int : k < log.next => k < m
  BY <1>1
<1> QED
  BY <1>3, <1>4

\* The records of the log after such a step.
LEMMA SteadyLog ==
    ASSUME Known, Known', Steady
    PROVE  /\ Calm(Len(History)) /\ Len(History) \in Nat
           /\ Len(History') = Len(History) \/ Len(History') = Len(History) + 1
           /\ \A e \in DOMAIN History' :
                 \/ e \in DOMAIN History /\ History'[e] = History[e]
                 \/ /\ e = Len(History) + 1 /\ History'[e] \in LogRecord
                    /\ Logs(History'[e])
<1>1. /\ History \in Seq(LogRecord) /\ Len(History) \in Nat
      /\ DOMAIN History = 1 .. Len(History)
  BY StepTypes, LogParts
<1>2. CASE Keeps
  BY <1>1, <1>2, CalmKeeps
<1>3. ASSUME NEW e \in LogRecord, Logs(e)
      PROVE  /\ Calm(Len(History))
             /\ Len(History') = Len(History) + 1
             /\ \A k \in DOMAIN History' :
                 \/ k \in DOMAIN History /\ History'[k] = History[k]
                 \/ k = Len(History) + 1 /\ History'[k] = e
  <2>1. Calm(Len(History)) /\ History' = Append(History, e)
    BY <1>3, CalmAdds DEF Logs
  <2> DEFINE h == History
  <2>2. h \in Seq(LogRecord) /\ Len(h) \in Nat /\ DOMAIN h = 1 .. Len(h)
    BY <1>1
  <2> HIDE DEF h
  <2>3. /\ Len(Append(h, e)) = Len(h) + 1
        /\ \A k \in DOMAIN Append(h, e) :
              \/ k \in DOMAIN h /\ Append(h, e)[k] = h[k]
              \/ k = Len(h) + 1 /\ Append(h, e)[k] = e
    <3>1. /\ Len(Append(h, e)) = Len(h) + 1
          /\ DOMAIN Append(h, e) = 1 .. Len(h) + 1
          /\ \A k \in 1 .. Len(h) : Append(h, e)[k] = h[k]
          /\ Append(h, e)[Len(h) + 1] = e
      BY <2>2, <1>3, AppendParts
    <3>2. \A k \in 1 .. Len(h) + 1 : k \in 1 .. Len(h) \/ k = Len(h) + 1
      BY <2>2
    <3> QED
      BY <2>2, <3>1, <3>2
  <2> QED
    BY <2>1, <2>3 DEF h
<1> QED
  BY <1>1, <1>2, <1>3 DEF Steady

LEMMA SteadyReach ==
    ASSUME Known, Known', Trusts, LinkInv', MemoryInv, Steady,
           NEW p \in Pages, Reached(p)
    PROVE  Reached(p)'
<1> DEFINE n == Len(History)
<1>1. Calm(n) /\ n \in Nat
  BY SteadyLog
<1>2. CASE Held(p)
  <2>1. pc # "analysis"
    BY DEF Steady, Replaying
  <2> QED
    BY <1>1, <1>2, <2>1, KeptReach, CalmPage DEF Held
<1>3. CASE Written(p)
  <2> SUFFICES ASSUME Sound(History', Trusted', p, Len(History')),
                      NEW i \in UpdatesOn(History', p)
               PROVE  ~(ReadPageLsn(disk'[p]) < History'[i].lsn)
    BY DEF Reached, SoundTo, Reaches
  <2>1. /\ History' \in Seq(LogRecord) /\ Len(History') \in Nat
        /\ Len(log'.stable) \in Nat /\ Len(log'.stable) <= Len(History')
        /\ disk'[p] \in Image
    BY StepTypes, LogParts
  <2>2. Sound(History', Trusted', p, Len(log'.stable))
    BY <2>1, SoundLess
  <2>3. MemoryShows(p)
    BY DEF Steady, MemoryInv
  <2>4. History'[i].lsn <= ReadPageLsn(disk'[p])
    BY <1>1, <1>3, <2>2, <2>3, WrittenShows DEF Written
  <2>5. PICK k \in Nat : k = History'[i].lsn
    BY <2>1, UpdateParts
  <2>6. PICK l \in Nat : l = ReadPageLsn(disk'[p])
    BY <2>1, PageLsnType
  <2>7. ~(l < k)
    BY <2>4, <2>5, <2>6
  <2> QED
    BY <2>5, <2>6, <2>7
<1> QED
  BY <1>2, <1>3 DEF Steady

LEMMA SteadyTable ==
    ASSUME Known, Known', Trusts, LinkInv', MemoryInv, ReachInv,
           LoggedReachInv, Steady, Len(log.stable) <= Len(log'.stable),
           NEW e \in Tables', NEW p \in Pages
    PROVE  TableReached(p, e)'
<1> DEFINE n == Len(History)
<1>1. Calm(n) /\ n \in Nat
  BY SteadyLog
<1>2. e \in DOMAIN History' /\ History'[e].type = "end_chkpt"
  BY DEF Tables
<1>3. /\ History' \in Seq(LogRecord) /\ Len(History') \in Nat
      /\ Len(log'.stable) \in Nat /\ Len(log'.stable) <= Len(History')
      /\ disk'[p] \in Image /\ DOMAIN History = 1 .. n
      /\ History \in Seq(LogRecord) /\ DOMAIN History' = 1 .. Len(History')
  BY StepTypes, LogParts
<1>4. CASE Written(p)
  <2> SUFFICES ASSUME Sound(History', Trusted', p, Len(log'.stable)),
                      NEW i \in UpdatesOn(History', p)
               PROVE  ~(ReadPageLsn(disk'[p]) < History'[i].lsn)
    BY DEF TableReached, SoundTo, Reaches
  <2>1. MemoryShows(p)
    BY DEF Steady, MemoryInv
  <2>2. History'[i].lsn <= ReadPageLsn(disk'[p])
    BY <1>1, <1>4, <2>1, WrittenShows DEF Written
  <2>3. PICK k \in Nat : k = History'[i].lsn
    BY <1>3, UpdateParts
  <2>4. PICK l \in Nat : l = ReadPageLsn(disk'[p])
    BY <1>3, PageLsnType
  <2>5. ~(l < k)
    BY <2>2, <2>3, <2>4
  <2> QED
    BY <2>3, <2>4, <2>5
<1>5. CASE Held(p) /\ e \in DOMAIN History /\ History'[e] = History[e]
  <2>1. e \in Tables
    BY <1>2, <1>5 DEF Tables
  <2>2. TableReached(p, e) /\ e \in 1 .. n
    BY <1>3, <1>5, <2>1 DEF LoggedReachInv
  <2> QED
    BY <1>1, <1>5, <2>2, KeptTable DEF Held, Calm
<1>6. CASE Held(p) /\ e = n + 1 /\ Logs(History'[e])
  <2> SUFFICES ASSUME Sound(History', Trusted', p, e),
                      NEW i \in UpdatesOn(History', p)
               PROVE  ReadPageLsn(disk'[p]) < History'[i].lsn =>
                         /\ History'[e].dirty[p] # NoLsn
                         /\ History'[e].dirty[p] <= History'[i].lsn
    BY DEF TableReached, SoundTo, Reaches
  <2>1. /\ Agree(History', History, n) /\ n <= e /\ e \in Nat
        /\ i \in 1 .. n
    BY <1>1, <1>3, <1>6 DEF Calm, UpdatesOn
  <2>2. SoundTo(p, n)
    BY <1>1, <2>1, SoundBack
  <2>3. i \in UpdatesOn(History, p) /\ History'[i] = History[i]
    BY <1>1, <1>3, <2>1, SameUpdates DEF Agree
  <2>4. pc # "down" /\ pc # "analysis"
    BY DEF Steady, Replaying
  <2>5. Reaches(dpt, p, i)
    BY <2>2, <2>3, <2>4 DEF ReachInv, Reached, AnalyzedSoFar
  <2>6. History'[e].dirty = dpt
    BY <1>2, <1>6 DEF Logs
  <2> QED
    BY <1>6, <2>3, <2>5, <2>6 DEF Reaches, Held
<1> QED
  BY <1>2, <1>4, <1>5, <1>6, SteadyLog DEF Steady

LEMMA SteadyPast ==
    ASSUME Known, Known', PastInv, Steady
    PROVE  PastInv'
<1>1. dpt \in [Pages -> Lsns] /\ log.next \in Nat /\ log \in LogState
      /\ \A x \in Lsns : x \in Int /\ NoLsn < log.next /\ NoLsn \in Int
  BY StepTypes DEF LogState, Lsns, NoLsn
<1>2. TypeInv
  BY DEF Known, Base
<1>3. Keeps \/ \E e \in LogRecord : Emits(e)
  BY DEF Steady, Logs, Adds
<1>4. ASSUME NEW p \in Pages
      PROVE  dpt'[p] < log'.next
  <2>1. dpt'[p] \in {dpt[p], NoLsn}
    BY DEF Steady, Held, Written
  <2>2. PICK k \in {dpt[p], NoLsn} : dpt'[p] = k
    BY <2>1
  <2>3. k \in Int /\ k < log.next
    BY <1>1, <2>2 DEF PastInv
  <2> QED
    BY <1>2, <1>3, <2>2, <2>3, NextGrows
<1>5. ASSUME NEW e \in Tables', NEW p \in Pages
      PROVE  History'[e].dirty[p] < History'[e].lsn
  <2>1. e \in DOMAIN History' /\ History'[e].type = "end_chkpt"
    BY DEF Tables
  <2>2. CASE e \in DOMAIN History /\ History'[e] = History[e]
    BY <2>1, <2>2 DEF PastInv, Tables
  <2>3. CASE Logs(History'[e])
    <3>1. History'[e].dirty = dpt /\ History'[e].lsn = log.next
      BY <2>1, <2>3 DEF Logs
    <3> QED
      BY <3>1 DEF PastInv
  <2> QED
    BY <2>1, <2>2, <2>3, SteadyLog
<1>6. pc' # "analysis"
  BY DEF Steady, Replaying
<1> QED
  BY <1>4, <1>5, <1>6 DEF PastInv

LEMMA Steady_Replay ==
    ASSUME Known, Known', Trusts, ReplayInv, Steady,
           Len(log.stable) <= Len(log'.stable)
    PROVE  /\ LinkInv' /\ FileInv' /\ MemoryInv' /\ ReachInv'
           /\ LoggedReachInv' /\ PastInv'
<1> DEFINE n == Len(History)
<1>1. Calm(n) /\ n \in Nat
  BY SteadyLog
<1>2. LinkInv'
  BY <1>1, KeptLink DEF ReplayInv
<1>3. pc # "down" /\ pc \notin Replaying /\ pc' \notin {"redo", "redofresh"}
      /\ pc' \notin Replaying
  BY DEF Steady, Replaying
<1>4. ASSUME NEW p \in Pages
      PROVE  FileShows(p)' /\ MemoryShows(p)' /\ Reached(p)'
  <2>1. FileShows(p) /\ MemoryShows(p) /\ Reached(p)
    BY <1>3 DEF ReplayInv, FileInv, MemoryInv, ReachInv
  <2>2. MemoryShows(p)'
    BY <1>1, <2>1, KeptMemory, CalmPage DEF Steady
  <2>3. ASSUME Held(p)
        PROVE  FileShows(p)'
    BY <1>1, <1>3, <2>1, <2>3, KeptFile DEF Held, Calm
  <2>4. ASSUME Written(p)
        PROVE  FileShows(p)'
    <3>1. ASSUME Sound(History', Trusted', p, Len(log'.stable))
          PROVE  Shown(disk'[p], History', p, Len(log'.stable))
      BY <1>1, <1>2, <2>1, <2>4, <3>1, WrittenShows DEF Written
    <3>2. Len(log'.stable) \in 0 .. Len(log'.stable)
      BY StepTypes, LogParts
    <3> QED
      BY <1>3, <3>1, <3>2 DEF FileShows, SoundTo
  <2>5. Reached(p)'
    BY <1>2, <2>1, SteadyReach DEF ReplayInv
  <2> QED
    BY <2>2, <2>3, <2>4, <2>5 DEF Steady
<1>5. LoggedReachInv'
  BY <1>2, SteadyTable DEF ReplayInv, LoggedReachInv
<1>6. PastInv'
  BY SteadyPast DEF ReplayInv
<1> QED
  BY <1>2, <1>4, <1>5, <1>6 DEF FileInv, MemoryInv, ReachInv

-----------------------------------------------------------------------------
(* Page moves between the pool and the files *)

LEMMA DiskWriteStore ==
    ASSUME disk \in [Pages -> Image], fileSize \in PageCounts, BlankBeyond,
           NEW p \in Pages, NEW img \in Image, NEW counts \in PageCounts,
           \A f \in Files : fileSize[f] <= counts[f],
           DiskWrite(p, img, counts)
    PROVE  /\ BlankBeyond' /\ SizesCounted'
           /\ disk'[p] = img /\ \A q \in Pages : q # p => disk'[q] = disk[q]
           /\ p[2] < filePages'[p[1]]
           /\ \A f \in Files : counts[f] <= filePages'[f]
<1> DEFINE f0 == p[1]
           s == [fileSize EXCEPT ![f0] = Grown(fileSize[f0], p)]
           c == [counts EXCEPT ![f0] = Grown(counts[f0], p)]
<1>1. /\ disk' = [disk EXCEPT ![p] = img] /\ fileSize' = s /\ filePages' = c
  BY DEF DiskWrite
<1>2. /\ f0 \in Files /\ p[2] \in Nat /\ \A q \in Pages : q[1] \in Files
      /\ \A q \in Pages : q[2] \in Nat
  BY PageParts, LogBounds
<1>3. \A f \in Files : fileSize[f] \in Nat /\ counts[f] \in Nat
  BY LogBounds DEF PageCounts
<1>4. /\ \A f \in Files : f # f0 => s[f] = fileSize[f] /\ c[f] = counts[f]
      /\ s[f0] = Grown(fileSize[f0], p) /\ c[f0] = Grown(counts[f0], p)
  BY <1>2 DEF PageCounts
<1> HIDE DEF s, c
<1>5. /\ p[2] < s[f0] /\ p[2] < c[f0] /\ s[f0] <= c[f0]
      /\ fileSize[f0] <= s[f0] /\ counts[f0] <= c[f0]
      /\ s[f0] \in Nat /\ c[f0] \in Nat
  BY <1>2, <1>3, <1>4 DEF Grown
<1>6. \A f \in Files : fileSize[f] <= s[f] /\ s[f] \in Nat /\ s[f] <= c[f]
                       /\ counts[f] <= c[f]
  BY <1>3, <1>4, <1>5
<1>7. disk'[p] = img /\ \A q \in Pages : q # p => disk'[q] = disk[q]
  BY <1>1
<1>8. BlankBeyond'
  <2> SUFFICES ASSUME NEW q \in Pages, q[2] >= s[q[1]]
               PROVE  disk'[q] = ZeroImage
    BY <1>1 DEF BlankBeyond
  <2>1. q # p
    BY <1>2, <1>5
  <2>2. q[2] >= fileSize[q[1]]
    BY <1>2, <1>3, <1>6
  <2> QED
    BY <2>1, <2>2, <1>7 DEF BlankBeyond
<1>9. SizesCounted'
  BY <1>1, <1>6 DEF SizesCounted
<1> QED
  BY <1>1, <1>5, <1>6, <1>7, <1>8, <1>9

LEMMA WriteBackShows ==
    ASSUME WalInv, BlankBeyond, NEW v \in Pages, v # pending.page,
           pool.frame[v].dirty, NEW counts \in PageCounts,
           \A f \in Files : fileSize[f] <= counts[f], WriteBack(v, counts)
    PROVE  /\ Written(v) /\ disk'[v] = pool.frame[v].data
           /\ \A q \in Pages : q # v => Held(q)
           /\ Keeps /\ BlankBeyond' /\ SizesCounted'
           /\ \A f \in Files : counts[f] <= filePages'[f]
<1>1. /\ disk \in [Pages -> Image] /\ fileSize \in PageCounts
      /\ dpt \in [Pages -> Lsns] /\ pool.frame[v].data \in Image /\ Cached(v)
  BY DEF WalInv, TypeInv, TypeOK, PageCounts, DirtyPageTable, Pool, Frame,
         PoolInv
<1>2. DiskWrite(v, pool.frame[v].data, counts) /\ dpt' = [dpt EXCEPT ![v] = NoLsn]
  BY DEF WriteBack
<1>3. /\ BlankBeyond' /\ SizesCounted' /\ disk'[v] = pool.frame[v].data
      /\ \A q \in Pages : q # v => disk'[q] = disk[q]
      /\ \A f \in Files : counts[f] <= filePages'[f]
  BY <1>1, <1>2, DiskWriteStore
<1>4. Now(v) = pool.frame[v].data
  BY <1>1 DEF Now, CurrentBytes
<1>5. \A rec \in Range(log'.buf) : ~IsUpdateOn(rec, v)
  BY WriteBackRule
<1>6. dpt'[v] = NoLsn /\ \A q \in Pages : q # v => dpt'[q] = dpt[q]
  BY <1>1, <1>2
<1>7. Keeps
  BY PoolMoves
<1> QED
  BY <1>3, <1>4, <1>5, <1>6, <1>7 DEF Written, Held

LEMMA MakeRoomShows ==
    ASSUME WalInv, BlankBeyond, SizesCounted, CleanCopies,
           NEW p \in Pages, ~Cached(p), pending.page \in {NoPage, p},
           NEW img \in Image, NEW d \in BOOLEAN, NEW counts \in PageCounts,
           \A f \in Files : filePages[f] <= counts[f],
           MakeRoomFor(p, img, d, counts)
    PROVE  /\ Keeps /\ BlankBeyond' /\ SizesCounted'
           /\ Held(p) /\ CurrentBytes(p)' = img
           /\ pool'.frame[p] = [data |-> img, dirty |-> d]
           /\ \A q \in Pages : Held(q) \/ Written(q)
           /\ \A q \in Pages : q # p => CurrentBytes(q)' = CurrentBytes(q)
           /\ \A q \in Pages :
                 q # p /\ Cached(q)' /\ ~pool'.frame[q].dirty
                     => pool'.frame[q].data = disk'[q]
           /\ \A f \in Files : counts[f] <= filePages'[f]
<1> DEFINE full   == Len(pool.order) >= PoolSize
           victim == VictimKey(pool)
           steal  == full /\ pool.frame[victim].dirty
           left   == IF full THEN Drop(pool, victim) ELSE pool
<1>1. /\ TypeOK /\ pool \in Pool /\ HeldOnce(pool.order)
      /\ p \notin Range(pool.order)
  BY DEF WalInv, TypeInv, TypeOK, PoolInv, Cached
<1>2. full => /\ victim \in Pages /\ victim \in Range(pool.order)
              /\ victim # p /\ victim # pending.page
  BY <1>1, VictimType, EngineConfig
<1>3. pool' = Touch(left, p, img, d)
  BY DEF MakeRoomFor
<1>4. /\ left \in Pool /\ HeldOnce(left.order)
      /\ Range(left.order) = IF full THEN Range(pool.order) \ {victim}
                                     ELSE Range(pool.order)
      /\ \A q \in Pages : ~(full /\ q = victim)
                              => left.frame[q] = pool.frame[q]
  <2>1. CASE full
    <3>1. left = Drop(pool, victim)
      BY <2>1
    <3> HIDE DEF left, victim
    <3>2. Drop(pool, victim) \in Pool
      BY <1>1, <1>2, <2>1, PoolType
    <3>3. /\ HeldOnce(Drop(pool, victim).order)
          /\ Range(Drop(pool, victim).order) = Range(pool.order) \ {victim}
          /\ \A q \in Pages : q # victim =>
                Drop(pool, victim).frame[q] = pool.frame[q]
      BY <1>1, <1>2, <2>1, DropFrames
    <3> QED
      BY <2>1, <3>1, <3>2, <3>3
  <2>2. CASE ~full
    BY <1>1, <2>2
  <2> QED
    BY <2>1, <2>2
<1> HIDE DEF left
<1>5. /\ Range(pool'.order) = Range(left.order) \cup {p}
      /\ pool'.frame[p] = [data |-> img, dirty |-> d]
      /\ \A q \in Pages : q # p => pool'.frame[q] = left.frame[q]
  BY <1>3, <1>4, TouchFrames
<1>6. \A f \in Files : fileSize[f] <= counts[f] /\ counts[f] <= counts[f]
  <2>1. /\ fileSize \in PageCounts /\ filePages \in PageCounts
    BY <1>1 DEF TypeOK, PageCounts
  <2> SUFFICES ASSUME NEW f \in Files
               PROVE  fileSize[f] <= counts[f] /\ counts[f] <= counts[f]
    OBVIOUS
  <2>2. fileSize[f] \in Nat /\ filePages[f] \in Nat /\ counts[f] \in Nat
    BY <2>1, LogBounds DEF PageCounts
  <2> QED
    BY <2>2 DEF SizesCounted
<1>7. /\ Keeps /\ BlankBeyond' /\ SizesCounted'
      /\ \A q \in Pages : ~(full /\ q = victim) => Held(q)
      /\ full => Held(victim) \/ Written(victim)
      /\ full => disk'[victim] = pool.frame[victim].data
      /\ \A f \in Files : counts[f] <= filePages'[f]
  <2>1. CASE steal /\ WriteBack(victim, counts)
    BY <1>2, <1>6, <2>1, WriteBackShows
  <2>2. CASE /\ ~steal /\ filePages' = counts
             /\ UNCHANGED <<disk, fileSize, log, dpt>>
    <3>1. BlankBeyond' /\ SizesCounted' /\ Keeps /\ \A q \in Pages : Held(q)
      BY <1>6, <2>2 DEF BlankBeyond, SizesCounted, Keeps, Held
    <3>2. full => disk[victim] = pool.frame[victim].data
      BY <1>2, <2>2 DEF CleanCopies, Cached
    <3> QED
      BY <1>2, <1>6, <2>2, <3>1, <3>2
  <2> QED
    BY <2>1, <2>2 DEF MakeRoomFor
<1> HIDE DEF full, victim, steal
<1>8. Held(p) /\ CurrentBytes(p)' = img
  BY <1>2, <1>5, <1>7 DEF CurrentBytes, Cached
<1>9. ASSUME NEW q \in Pages, q # p
      PROVE  /\ CurrentBytes(q)' = CurrentBytes(q)
             /\ Cached(q)' /\ ~pool'.frame[q].dirty
                    => pool'.frame[q].data = disk'[q]
  <2>1. CASE full /\ q = victim
    <3>1. q \notin Range(pool'.order) /\ q \in Range(pool.order)
      BY <1>2, <1>4, <1>5, <1>9, <2>1
    <3> QED
      BY <3>1, <2>1, <1>7 DEF CurrentBytes, Cached
  <2>2. CASE ~(full /\ q = victim)
    <3>1. /\ q \in Range(pool'.order) <=> q \in Range(pool.order)
          /\ pool'.frame[q] = pool.frame[q] /\ disk'[q] = disk[q]
      BY <1>4, <1>5, <1>7, <1>9, <2>2 DEF Held
    <3> QED
      BY <3>1 DEF CurrentBytes, Cached, CleanCopies
  <2> QED
    BY <2>1, <2>2
<1> QED
  BY <1>2, <1>5, <1>7, <1>8, <1>9

-----------------------------------------------------------------------------
(* Commits and ends in the log *)

Has(h, t, x) == \E i \in DOMAIN h : h[i].type = t /\ h[i].xid = x

LEMMA LoggedIs ==
    ASSUME Known, Known', NEW x
    PROVE  /\ x \in Committed <=> Has(History, "commit", x)
           /\ x \in Committed' <=> Has(History', "commit", x)
           /\ x \in RolledBack(Len(History)) <=>
                 Has(History, "end", x) /\ ~Has(History, "commit", x)
           /\ x \in RolledBack(Len(History))' <=>
                 Has(History', "end", x) /\ ~Has(History', "commit", x)
<1>1. DOMAIN History = 1 .. Len(History)
      /\ DOMAIN History' = 1 .. Len(History')
  BY StepTypes, LogParts
<1> QED
  BY <1>1 DEF Committed, RolledBack, Logged, Has

LEMMA SteadyCommitted ==
    ASSUME Known, Known', Steady
    PROVE  /\ Committed \subseteq Committed'
           /\ \A x \in Committed' : x \in Committed \/ x \in OpenXids
<1>1. \A i \in DOMAIN History :
         i \in DOMAIN History' /\ History'[i] = History[i]
  <2>1. /\ Agree(History', History, Len(History))
        /\ DOMAIN History = 1 .. Len(History)
        /\ DOMAIN History' = 1 .. Len(History') /\ Len(History) \in Nat
        /\ Len(History') \in Nat
    BY SteadyLog, StepTypes, LogParts DEF Calm
  <2> QED
    BY <2>1 DEF Agree
<1>2. \A x : Has(History, "commit", x) => Has(History', "commit", x)
  BY <1>1 DEF Has
<1>3. \A x : Has(History', "commit", x) =>
                Has(History, "commit", x) \/ x \in OpenXids
  BY SteadyLog DEF Has, Logs
<1> QED
  BY <1>2, <1>3, LoggedIs

LEMMA SteadyTrusts ==
    ASSUME Known, Known', Steady
    PROVE  Trusts
<1>1. Trusted = Committed \cup OpenXids /\ Trusted' = Committed' \cup OpenXids'
  BY DEF Steady, Trusted
<1>2. pc # "down" => IdsBelow(History, nextXid)
  BY DEF Known, LoserInv
<1>3. \A i \in DOMAIN History : History[i].xid # nextXid
  <2>1. nextXid \in Nat /\ \A i \in DOMAIN History : History[i].xid < nextXid
    BY <1>2 DEF Steady, Replaying, IdsBelow, Known, WalInv, TypeInv, TypeOK
  <2> QED
    BY <2>1
<1> QED
  BY <1>1, <1>3, SteadyCommitted DEF Trusts, Steady

LEMMA SteadyUndoList ==
    ASSUME Known, Known', UndoListInv, Steady, pc \notin Recovering,
           pc' \notin Recovering, Len(log.stable) <= Len(log'.stable)
    PROVE  UndoListInv'
<1>1. /\ pc' \notin {"undo", "endloser"} /\ pc' # "down"
      /\ pc \notin (Recovering \ {"boot"}) \cup {"down"}
  BY DEF Recovering, Steady, Replaying
<1>2. /\ Len(log.stable) \in Nat /\ Len(log'.stable) \in Nat
      /\ DOMAIN History = 1 .. Len(History) /\ Len(History) \in Nat
  BY StepTypes, LogParts
<1>3. ASSUME NEW i \in DOMAIN History', History'[i].type = "end"
      PROVE  i <= Len(log'.stable) \/ History'[i].xid \in Committed'
  <2>1. CASE i \in DOMAIN History /\ History'[i] = History[i]
    <3>1. i <= Len(log.stable) \/ History[i].xid \in Committed
      BY <1>1, <1>3, <2>1 DEF UndoListInv
    <3> QED
      BY <1>2, <2>1, <3>1, SteadyCommitted
  <2>2. CASE Logs(History'[i])
    BY <1>3, <2>2, SteadyCommitted DEF Logs
  <2> QED
    BY <2>1, <2>2, SteadyLog
<1> QED
  BY <1>1, <1>3 DEF UndoListInv

\* What is left to show of a serving step.
LEMMA Steady_Step ==
    ASSUME Known, Known', ReplayInv, [Next]_vars, Steady, StoreInv'
    PROVE  /\ Trusts /\ Len(log.stable) <= Len(log'.stable)
           /\ UndoListInv' => ReplayInv'
           /\ pc \notin Recovering /\ pc' \notin Recovering => ReplayInv'
<1>1. Begins(log.stable, log'.stable)
  BY NextMoves, MoveExtends DEF Known, WalInv
<1>2. Len(log.stable) <= Len(log'.stable)
  BY <1>1 DEF Begins
<1>3. Trusts
  BY SteadyTrusts
<1>4. /\ LinkInv' /\ FileInv' /\ MemoryInv' /\ ReachInv' /\ LoggedReachInv'
      /\ PastInv'
  BY <1>2, <1>3, Steady_Replay
<1>5. pc \notin Recovering /\ pc' \notin Recovering => UndoListInv'
  BY <1>2, SteadyUndoList DEF ReplayInv
<1> QED
  BY <1>2, <1>3, <1>4, <1>5 DEF ReplayInv

\* A step that leaves pages, pool and table alone.
Unmoved ==
    /\ UNCHANGED <<disk, fileSize, filePages, pool, pending, dpt>>
    /\ pc \notin Replaying /\ pc' \notin Replaying
    /\ OpenXids' \subseteq OpenXids \cup {nextXid}
    /\ Keeps \/ \E e \in LogRecord : Logs(e)

LEMMA UnmovedSteady ==
    ASSUME Known, StoreInv, Unmoved
    PROVE  Steady /\ StoreInv'
<1>1. \A p \in Pages : CurrentBytes(p)' = CurrentBytes(p)
  BY DEF Unmoved, CurrentBytes, Cached
<1>2. \A p \in Pages : Now(p)' = Now(p) /\ Held(p)
  BY <1>1 DEF Now, Unmoved, Held
<1>3. Steady
  BY <1>2 DEF Steady, Unmoved
<1>4. pc # "down" /\ pc' # "redofresh"
  BY DEF Unmoved, Replaying
<1>5. StoreInv'
  BY <1>4 DEF StoreInv, Unmoved, BlankBeyond, SizesCounted, CleanCopies,
              Cached
<1> QED
  BY <1>3, <1>5

LEMMA OpenSame == openTx' = openTx => OpenXids' = OpenXids
  BY DEF OpenXids

LEMMA TxBegin_Replay ==
    ASSUME Known, Known', ReplayInv, NEW k \in Names, TxBegin(k)
    PROVE  ReplayInv' /\ Steady
<1>1. /\ pc = "idle" /\ pc' \in {"idle", "ckptbegin"} /\ log' = log
      /\ UNCHANGED <<disk, fileSize, filePages, pool, pending, dpt>>
  BY DEF TxBegin, Ready, MaybeCheckpoint, durable
<1>2. /\ openTx' = [openTx EXCEPT ![k] = nextXid]
      /\ openTx \in [Names -> Xids \cup {NoXid}]
  BY DEF TxBegin, Known, WalInv, TypeInv, TypeOK
<1>3. OpenXids' \subseteq OpenXids \cup {nextXid}
  BY <1>2 DEF OpenXids
<1>4. Unmoved
  BY <1>1, <1>3 DEF Unmoved, Replaying, Keeps
<1>5. Steady /\ StoreInv'
  BY <1>4, UnmovedSteady DEF ReplayInv
<1>6. [Next]_vars
  BY DEF Next, Serve
<1>7. pc \notin Recovering /\ pc' \notin Recovering
  BY <1>1 DEF Recovering
<1> QED
  BY <1>5, <1>6, <1>7, Steady_Step

LEMMA CommitRecord_Replay ==
    ASSUME Known, Known', ReplayInv, NEW k \in Names, CommitRecord(k)
    PROVE  ReplayInv' /\ Steady
<1> DEFINE x == openTx[k]
           e == TxRec("commit", x)
<1>1. /\ pc = "idle" /\ pc' = "end" /\ log' = FlushLog(Emit(log, e))
      /\ UNCHANGED <<disk, fileSize, filePages, pool, pending, dpt>>
      /\ x # NoXid /\ openTx' = [openTx EXCEPT ![k] = NoXid]
  BY DEF CommitRecord, Ready, durable
<1>2. openTx \in [Names -> Xids \cup {NoXid}] /\ TypeInv
  BY DEF Known, WalInv, TypeInv, TypeOK
<1>3. x \in Xids /\ x \in OpenXids /\ OpenXids' \subseteq OpenXids
  BY <1>1, <1>2 DEF OpenXids
<1>4. e \in LogRecord /\ e.type = "commit" /\ e.xid = x
  BY <1>2, <1>3, TxRecType DEF TxRec
<1>5. Logs(e)
  BY <1>1, <1>3, <1>4 DEF Logs, Adds, Emits
<1>6. Unmoved
  BY <1>1, <1>3, <1>4, <1>5 DEF Unmoved, Replaying
<1>7. Steady /\ StoreInv'
  BY <1>6, UnmovedSteady DEF ReplayInv
<1>8. [Next]_vars
  BY DEF Next, Serve
<1>9. pc \notin Recovering /\ pc' \notin Recovering
  BY <1>1 DEF Recovering
<1> QED
  BY <1>7, <1>8, <1>9, Steady_Step

LEMMA CommitEnd_Replay ==
    ASSUME Known, Known', ReplayInv, CommitEnd
    PROVE  ReplayInv' /\ Steady
<1> DEFINE e == TxRec("end", scan)
<1>1. /\ pc = "end" /\ pc' = "idle" /\ log' = FlushLog(Emit(log, e))
      /\ UNCHANGED <<disk, fileSize, filePages, pool, pending, dpt>>
      /\ openTx' = openTx
  BY DEF CommitEnd, durable
<1>2. TypeInv /\ scan \in Xids /\ InFile(scan)
  BY <1>1 DEF Known, WalInv, TypeInv, ScanInv, Base, CommitInv
<1>3. scan \in Committed
  <2>1. PICK i \in DOMAIN log.stable :
            log.stable[i].type = "commit" /\ log.stable[i].xid = scan
    BY <1>2 DEF InFile
  <2>2. i \in DOMAIN History /\ History[i] = log.stable[i]
    <3>1. /\ Agree(log.stable, History, Len(log.stable))
          /\ DOMAIN History = 1 .. Len(History)
          /\ DOMAIN log.stable = 1 .. Len(log.stable)
          /\ Len(History) \in Nat /\ Len(log.stable) \in Nat
      BY StepTypes, LogParts
    <3> QED
      BY <3>1 DEF Agree
  <2> QED
    BY <2>1, <2>2, LoggedIs DEF Has
<1>4. e \in LogRecord /\ e.type = "end" /\ e.xid = scan
  BY <1>2, TxRecType DEF TxRec
<1>5. Logs(e)
  BY <1>1, <1>3, <1>4 DEF Logs, Adds, Emits
<1>6. Unmoved
  BY <1>1, <1>4, <1>5, OpenSame DEF Unmoved, Replaying
<1>7. Steady /\ StoreInv'
  BY <1>6, UnmovedSteady DEF ReplayInv
<1>8. [Next]_vars
  BY DEF Next, Continue
<1>9. pc \notin Recovering /\ pc' \notin Recovering
  BY <1>1 DEF Recovering
<1> QED
  BY <1>7, <1>8, <1>9, Steady_Step

LEMMA Checkpoint_Replay ==
    ASSUME Known, Known', ReplayInv, CheckpointBegin \/ CheckpointEnd
    PROVE  ReplayInv' /\ Steady
<1>1. TypeInv /\ log.next \in Nat
  BY BaseTypes DEF Known, Base
<1>2. CASE CheckpointBegin
  <2> DEFINE e == [type |-> "begin_chkpt", lsn |-> log.next,
                   prev |-> NoLsn, xid |-> SysXid]
  <2>1. e \in LogRecord
    BY <1>1 DEF LogRecord, BeginRecord
  <2>2. Logs(e)
    BY <1>2, <2>1 DEF CheckpointBegin, Logs, Adds, Emits
  <2> QED
    BY <1>2, <2>1, <2>2, OpenSame, UnmovedSteady, Steady_Step
       DEF CheckpointBegin, Unmoved, Replaying, Recovering, durable, tables,
           Next, Continue, ReplayInv
<1>3. CASE CheckpointEnd
  <2>1. EndCheckpointRec \in LogRecord
    BY <1>1 DEF EndCheckpointRec, LogRecord, EndRecord, TypeInv, TypeOK
  <2>2. Logs(EndCheckpointRec)
    BY <1>3, <2>1 DEF CheckpointEnd, Logs, Adds, Emits, EndCheckpointRec
  <2> QED
    BY <1>3, <2>1, <2>2, OpenSame, UnmovedSteady, Steady_Step
       DEF CheckpointEnd, Unmoved, Replaying, Recovering, durable, tables,
           Next, Continue, ReplayInv
<1> QED
  BY <1>2, <1>3

LEMMA Control_Replay ==
    ASSUME Known, Known', ReplayInv,
           WriteMaster \/ StartFlush \/ Shutdown \/ FlushDone
    PROVE  ReplayInv' /\ Steady
<1>1. /\ UNCHANGED <<disk, fileSize, filePages, pool, pending, dpt, log>>
      /\ openTx' = openTx /\ pc \in {"master", "idle", "flush"}
      /\ pc' \in {"idle", "install", "flush", "exit"}
  BY DEF WriteMaster, StartFlush, Shutdown, FlushDone, Ready, durable, tables
<1>2. Unmoved
  BY <1>1, OpenSame DEF Unmoved, Replaying, Keeps
<1>3. Steady /\ StoreInv'
  BY <1>2, UnmovedSteady DEF ReplayInv
<1>4. [Next]_vars
  BY DEF Next, Serve, Continue
<1>5. pc \notin Recovering /\ pc' \notin Recovering
  BY <1>1 DEF Recovering
<1> QED
  BY <1>3, <1>4, <1>5, Steady_Step

-----------------------------------------------------------------------------
(* The pool's own steps *)

LEMMA ServingTypes ==
    ASSUME Known, ReplayInv, pc # "down"
    PROVE  /\ WalInv /\ BlankBeyond /\ CleanCopies /\ SizesCounted
           /\ filePages \in PageCounts /\ fileSize \in PageCounts
           /\ disk \in [Pages -> Image] /\ dpt \in [Pages -> Lsns]
           /\ pool \in Pool /\ HeldOnce(pool.order)
           /\ \A f \in Files : filePages[f] <= filePages[f]
           /\ \A p \in Pages : pool.frame[p] \in Frame
           /\ \A p \in Pages : pool.frame[p].data \in Image
                               /\ pool.frame[p].dirty \in BOOLEAN
           /\ NoPage \notin Pages
           /\ pc \notin {"install", "ckptbegin", "ckptend", "master"}
                 => pending.page = NoPage
<1>1. /\ WalInv /\ filePages \in PageCounts /\ fileSize \in PageCounts
      /\ disk \in [Pages -> Image] /\ dpt \in [Pages -> Lsns]
      /\ pool \in Pool /\ HeldOnce(pool.order)
      /\ pc \notin {"install", "ckptbegin", "ckptend", "master"}
            => pending.page = NoPage
  BY DEF Known, WalInv, TypeInv, ScanInv, TypeOK, PoolInv, PageCounts,
         DirtyPageTable
<1>2. \A p \in Pages : pool.frame[p] \in Frame
  BY <1>1 DEF Pool
<1>3. \A f \in Files : filePages[f] <= filePages[f]
  BY <1>1, LogBounds DEF PageCounts
<1>4. BlankBeyond /\ CleanCopies /\ SizesCounted
  BY DEF ReplayInv, StoreInv
<1> QED
  BY <1>1, <1>2, <1>3, <1>4, EngineConfig DEF Frame

\* The views of all pages from the bytes of the pool and the files.
Viewed(p, img) ==
    /\ CurrentBytes(p)' = img
    /\ \A q \in Pages : q # p => CurrentBytes(q)' = CurrentBytes(q)
    /\ \A q \in Pages : Held(q) \/ Written(q)
    /\ \A q \in Pages : Cached(q)' /\ ~pool'.frame[q].dirty
                            => pool'.frame[q].data = disk'[q]
    /\ BlankBeyond' /\ SizesCounted' /\ Keeps

LEMMA TouchShows ==
    ASSUME Known, ReplayInv, pc # "down", NEW p \in Pages, NEW img \in Image,
           NEW d \in BOOLEAN, pool' = Touch(pool, p, img, d),
           d = TRUE \/ img = disk[p],
           UNCHANGED <<disk, fileSize, log, dpt>>,
           \A f \in Files : fileSize[f] <= filePages'[f]
    PROVE  Viewed(p, img)
<1>1. /\ pool \in Pool /\ HeldOnce(pool.order) /\ BlankBeyond /\ CleanCopies
  BY ServingTypes
<1>2. /\ Range(pool'.order) = Range(pool.order) \cup {p}
      /\ pool'.frame[p] = [data |-> img, dirty |-> d]
      /\ \A q \in Pages : q # p => pool'.frame[q] = pool.frame[q]
  BY <1>1, TouchFrames
<1>3. CurrentBytes(p)' = img
  BY <1>2 DEF CurrentBytes, Cached
<1>4. \A q \in Pages : q # p => CurrentBytes(q)' = CurrentBytes(q)
  BY <1>2 DEF CurrentBytes, Cached
<1>5. \A q \in Pages : Cached(q)' /\ ~pool'.frame[q].dirty
                            => pool'.frame[q].data = disk'[q]
  BY <1>1, <1>2 DEF CleanCopies, Cached
<1> QED
  BY <1>1, <1>3, <1>4, <1>5
     DEF Viewed, Held, Keeps, BlankBeyond, SizesCounted

LEMMA RoomShows ==
    ASSUME Known, ReplayInv, pc # "down", NEW p \in Pages, ~Cached(p),
           pending.page \in {NoPage, p}, NEW img \in Image, NEW d \in BOOLEAN,
           d = TRUE \/ img = disk[p], NEW counts \in PageCounts,
           \A f \in Files : filePages[f] <= counts[f],
           MakeRoomFor(p, img, d, counts)
    PROVE  Viewed(p, img)
<1>1. WalInv /\ BlankBeyond /\ SizesCounted /\ CleanCopies
  BY ServingTypes
<1>2. /\ Keeps /\ BlankBeyond' /\ SizesCounted'
      /\ Held(p) /\ CurrentBytes(p)' = img
      /\ pool'.frame[p] = [data |-> img, dirty |-> d]
      /\ \A q \in Pages : Held(q) \/ Written(q)
      /\ \A q \in Pages : q # p => CurrentBytes(q)' = CurrentBytes(q)
      /\ \A q \in Pages : q # p /\ Cached(q)' /\ ~pool'.frame[q].dirty
                             => pool'.frame[q].data = disk'[q]
  BY <1>1, MakeRoomShows
<1>3. Cached(p)' /\ ~pool'.frame[p].dirty => pool'.frame[p].data = disk'[p]
  BY <1>2 DEF Held
<1> QED
  BY <1>2, <1>3 DEF Viewed

\* A page seen anew as it was seen before: a steady step.
LEMMA ViewedSteady ==
    ASSUME Known, ReplayInv, pc \notin Replaying, pc' \notin Replaying,
           openTx' = openTx, NEW p \in Pages, NEW img, Viewed(p, img),
           pending'.page = NoPage, pending.page \in {NoPage, p},
           \A o \in Track : Now(p)[o] = img[o]
    PROVE  Steady /\ StoreInv'
<1>1. NoPage \notin Pages
  BY EngineConfig
<1>2. \A q \in Pages : Now(q)' = CurrentBytes(q)'
  BY <1>1 DEF Now
<1>3. \A q \in Pages : q # p => Now(q) = CurrentBytes(q)
  BY <1>1 DEF Now
<1>4. \A q \in Pages, o \in Track : Now(q)'[o] = Now(q)[o]
  BY <1>2, <1>3 DEF Viewed
<1>5. Steady
  BY <1>4, OpenSame DEF Steady, Viewed
<1>6. pc' # "redofresh"
  BY DEF Replaying
<1> QED
  BY <1>5, <1>6 DEF StoreInv, Viewed, CleanCopies

LEMMA GetPage_Replay ==
    ASSUME Known, Known', ReplayInv, NEW p \in Pages, GetPage(p)
    PROVE  ReplayInv' /\ Steady
<1>1. /\ pc = "idle" /\ pc' = pc /\ pending' = pending /\ openTx' = openTx
      /\ pc # "down"
  BY DEF GetPage, Ready
<1>2. /\ pending.page = NoPage /\ disk[p] \in Image /\ NoPage \notin Pages
      /\ pool.frame[p].data \in Image /\ pool.frame[p].dirty \in BOOLEAN
      /\ filePages \in PageCounts /\ CleanCopies /\ SizesCounted
      /\ \A f \in Files : filePages[f] <= filePages[f]
  BY <1>1, ServingTypes
<1>3. ASSUME Cached(p),
             pool' = Touch(pool, p, pool.frame[p].data, pool.frame[p].dirty),
             UNCHANGED <<disk, fileSize, filePages, log, dpt>>
      PROVE  Viewed(p, Now(p))
  <2>1. \A f \in Files : fileSize[f] <= filePages'[f]
    BY <1>2, <1>3 DEF SizesCounted
  <2>2. pool.frame[p].dirty = TRUE \/ pool.frame[p].data = disk[p]
    BY <1>2, <1>3 DEF CleanCopies
  <2>3. Viewed(p, pool.frame[p].data)
    BY <1>1, <1>2, <1>3, <2>1, <2>2, TouchShows
  <2>4. Now(p) = pool.frame[p].data
    BY <1>2, <1>3 DEF Now, CurrentBytes
  <2> QED
    BY <2>3, <2>4
<1>4. ASSUME ~Cached(p), MakeRoomFor(p, disk[p], FALSE, filePages)
      PROVE  Viewed(p, Now(p))
  <2>1. Viewed(p, disk[p])
    BY <1>1, <1>2, <1>4, RoomShows
  <2>2. Now(p) = disk[p]
    BY <1>2, <1>4 DEF Now, CurrentBytes
  <2> QED
    BY <2>1, <2>2
<1>5. Steady /\ StoreInv'
  <2>1. Viewed(p, Now(p))
    BY <1>3, <1>4 DEF GetPage
  <2> QED
    BY <1>1, <1>2, <2>1, ViewedSteady DEF Replaying
<1>6. [Next]_vars /\ pc \notin Recovering /\ pc' \notin Recovering
  BY <1>1 DEF Next, Serve, Recovering
<1> QED
  BY <1>5, <1>6, Steady_Step

LEMMA AllocatePage_Replay ==
    ASSUME Known, Known', ReplayInv, NEW p \in Pages, AllocatePage(p)
    PROVE  ReplayInv' /\ Steady
<1> DEFINE counts == [filePages EXCEPT ![p[1]] = p[2] + 1]
<1>1. /\ pc = "idle" /\ pc' = pc /\ pending' = pending /\ openTx' = openTx
      /\ pc # "down" /\ p[2] = filePages[p[1]]
      /\ MakeRoomFor(p, ZeroImage, TRUE, counts)
  BY DEF AllocatePage, Ready
<1>2. /\ pending.page = NoPage /\ disk \in [Pages -> Image]
      /\ NoPage \notin Pages /\ filePages \in PageCounts /\ SizesCounted
      /\ BlankBeyond /\ fileSize \in PageCounts
      /\ \A f \in Files : filePages[f] <= filePages[f]
  BY <1>1, ServingTypes
<1>3. p[1] \in Files /\ p[2] \in 0 .. (MaxPages - 1)
  BY PageParts
<1>4. counts \in PageCounts /\ \A f \in Files : filePages[f] <= counts[f]
  <2>1. p[2] + 1 \in 0 .. MaxPages /\ filePages[p[1]] <= p[2] + 1
    BY <1>1, <1>3, LogBounds
  <2> QED
    BY <1>2, <1>3, <2>1 DEF PageCounts
<1>5. ~Cached(p)
  <2>1. ~Allocated(p)
    BY <1>1, <1>3, LogBounds DEF Allocated
  <2> QED
    BY <2>1 DEF Known, WalInv, PoolInv
<1>6. ZeroImage \in Image
  BY DEF ZeroImage, Image
<1>7. Viewed(p, ZeroImage)
  BY <1>1, <1>2, <1>4, <1>5, <1>6, RoomShows
<1>8. Now(p) = ZeroImage
  <2>1. p[2] >= fileSize[p[1]]
    BY <1>1, <1>2, <1>3, LogBounds DEF SizesCounted, PageCounts
  <2> QED
    BY <1>2, <1>5, <2>1 DEF Now, CurrentBytes, BlankBeyond
<1>9. Steady /\ StoreInv'
  BY <1>1, <1>2, <1>7, <1>8, ViewedSteady DEF Replaying
<1>10. [Next]_vars /\ pc \notin Recovering /\ pc' \notin Recovering
  BY <1>1 DEF Next, Serve, Recovering
<1> QED
  BY <1>9, <1>10, Steady_Step

LEMMA Install_Replay ==
    ASSUME Known, Known', ReplayInv, Install
    PROVE  ReplayInv' /\ Steady
<1> DEFINE p == pending.page
           img == pending.data
<1>1. /\ pc = "install" /\ pc' = "idle" /\ pending' = Nothing
      /\ openTx' = openTx /\ pc # "down"
  BY DEF Install
<1>2. p \in Pages /\ img \in Image
  BY <1>1 DEF Known, WalInv, TypeInv, ScanInv, TypeOK
<1>3. /\ filePages \in PageCounts /\ SizesCounted
      /\ \A f \in Files : filePages[f] <= filePages[f]
  BY <1>1, ServingTypes
<1>4. Viewed(p, img)
  <2>1. CASE /\ Cached(p) /\ pool' = Touch(pool, p, img, TRUE)
             /\ UNCHANGED <<disk, fileSize, filePages, log, dpt>>
    <3>1. \A f \in Files : fileSize[f] <= filePages'[f]
      BY <1>3, <2>1 DEF SizesCounted
    <3> QED
      BY <1>1, <1>2, <2>1, <3>1, TouchShows
  <2>2. CASE ~Cached(p) /\ MakeRoomFor(p, img, TRUE, filePages)
    BY <1>1, <1>2, <1>3, <2>2, RoomShows
  <2> QED
    BY <2>1, <2>2 DEF Install
<1>5. Now(p) = img
  BY DEF Now
<1>6. Steady /\ StoreInv'
  BY <1>1, <1>2, <1>4, <1>5, ViewedSteady DEF Replaying, Nothing
<1>7. [Next]_vars /\ pc \notin Recovering /\ pc' \notin Recovering
  BY <1>1 DEF Next, Continue, Recovering
<1> QED
  BY <1>6, <1>7, Steady_Step

LEMMA FlushPage_Replay ==
    ASSUME Known, Known', ReplayInv, NEW p \in Pages, FlushPage(p)
    PROVE  ReplayInv' /\ Steady
<1>1. /\ pc \in {"flush", "exit"} /\ pc' = pc /\ pending' = pending
      /\ openTx' = openTx /\ pc # "down" /\ pool.frame[p].dirty
      /\ WriteBack(p, filePages) /\ pool' = MarkClean(pool, p)
  BY DEF FlushPage, DirtyFrames
<1>2. /\ WalInv /\ pending.page = NoPage /\ NoPage \notin Pages
      /\ filePages \in PageCounts /\ SizesCounted /\ BlankBeyond
      /\ CleanCopies /\ pool \in Pool
  BY <1>1, ServingTypes
<1>3. /\ Written(p) /\ disk'[p] = pool.frame[p].data
      /\ \A q \in Pages : q # p => Held(q)
      /\ Keeps /\ BlankBeyond' /\ SizesCounted'
  BY <1>1, <1>2, WriteBackShows DEF SizesCounted
<1>4. /\ pool'.order = pool.order
      /\ \A q \in Pages : q # p => pool'.frame[q] = pool.frame[q]
  BY <1>1, <1>2, CleanFrames
<1>5. pool'.frame[p].data = pool.frame[p].data
  BY <1>1, <1>2 DEF MarkClean, Pool
<1>6. Cached(p)
  BY <1>1, <1>2 DEF WalInv, PoolInv
<1>7. \A q \in Pages : CurrentBytes(q)' = CurrentBytes(q)
  BY <1>3, <1>4, <1>5, <1>6 DEF CurrentBytes, Cached, Held
<1>8. \A q \in Pages : Cached(q)' /\ ~pool'.frame[q].dirty
                           => pool'.frame[q].data = disk'[q]
  BY <1>2, <1>3, <1>4, <1>5 DEF CleanCopies, Cached, Held
<1>9. Viewed(p, CurrentBytes(p))
  BY <1>3, <1>7, <1>8 DEF Viewed
<1>10. Now(p) = CurrentBytes(p)
  BY <1>2 DEF Now
<1>11. Steady /\ StoreInv'
  BY <1>1, <1>2, <1>9, <1>10, ViewedSteady DEF Replaying
<1>12. [Next]_vars /\ pc \notin Recovering /\ pc' \notin Recovering
  BY <1>1 DEF Next, Continue, Recovering
<1> QED
  BY <1>11, <1>12, Steady_Step

-----------------------------------------------------------------------------
(* The end of recovery *)

LEMMA Boot_Replay ==
    ASSUME Known, Known', ReplayInv, Boot
    PROVE  ReplayInv' /\ Steady
<1> DEFINE first == <<CatalogFile, 0>>
<1>1. /\ pc = "boot" /\ pc' = "idle" /\ pending' = pending /\ log' = log
      /\ openTx' = openTx /\ pc # "down"
      /\ UNCHANGED <<disk, fileSize, dpt>>
  BY DEF Boot, durable, tables
<1>2. /\ pending.page = NoPage /\ disk \in [Pages -> Image]
      /\ NoPage \notin Pages /\ filePages \in PageCounts /\ SizesCounted
      /\ BlankBeyond /\ fileSize \in PageCounts /\ CleanCopies
  BY <1>1, ServingTypes
<1>3. first \in Pages /\ first[1] = CatalogFile /\ first[2] = 0
      /\ CatalogFile \in Files
  BY RuntimeConfig, LogBounds DEF Pages
<1>4. pool = EmptyPool
  BY <1>1 DEF Known, WalInv, PoolInv, Recovering
<1>5. Steady /\ StoreInv'
  <2>1. CASE UNCHANGED <<filePages, pool>>
    <3>1. Unmoved
      BY <1>1, <2>1, OpenSame DEF Unmoved, Replaying, Keeps
    <3> QED
      BY <3>1, UnmovedSteady DEF ReplayInv
  <2>2. CASE /\ ~Allocated(first)
             /\ filePages' = [filePages EXCEPT ![CatalogFile] = 1]
             /\ pool' = Touch(pool, first, BlankCatalog, TRUE)
    <3>1. /\ filePages[CatalogFile] \in Nat /\ fileSize[CatalogFile] \in Nat
          /\ fileSize[CatalogFile] <= filePages[CatalogFile]
      BY <1>2, <1>3, LogBounds DEF PageCounts, SizesCounted
    <3>2. filePages[CatalogFile] = 0 /\ fileSize[CatalogFile] = 0
      BY <1>3, <2>2, <3>1 DEF Allocated
    <3>3. \A f \in Files : fileSize[f] <= filePages'[f]
      BY <1>2, <1>3, <2>2, <3>2 DEF PageCounts, SizesCounted
    <3>4. BlankCatalog \in Image
      BY RuntimeConfig DEF BlankCatalog, ZeroImage, Image, DataCells
    <3>5. Viewed(first, BlankCatalog)
      BY <1>1, <1>3, <2>2, <3>3, <3>4, TouchShows
    <3>6. disk[first] = ZeroImage
      BY <1>2, <1>3, <3>2 DEF BlankBeyond
    <3>7. ~Cached(first)
      BY <1>4, EmptyPoolHoldsNothing DEF Cached
    <3>8. Now(first) = ZeroImage
      BY <1>2, <1>3, <3>6, <3>7 DEF Now, CurrentBytes
    <3>9. \A o \in Track : Now(first)[o] = BlankCatalog[o]
      BY <3>8, TrackedCells DEF BlankCatalog, ZeroImage
    <3> QED
      BY <1>1, <1>2, <1>3, <3>5, <3>9, ViewedSteady DEF Replaying
  <2> QED
    BY <2>1, <2>2 DEF Boot
<1>6. [Next]_vars
  BY DEF Next, Recover
<1>7. UndoListInv'
  <2>1. History' = History /\ Committed' = Committed
    BY <1>1 DEF History, Committed, Logged
  <2> QED
    BY <1>1, <2>1 DEF ReplayInv, UndoListInv, Recovering
<1> QED
  BY <1>5, <1>6, <1>7, Steady_Step

LEMMA UndoDone_Replay ==
    ASSUME Known, Known', ReplayInv, UndoDone
    PROVE  ReplayInv' /\ Steady
<1>1. /\ UNCHANGED <<disk, fileSize, filePages, pool, pending, dpt, log>>
      /\ openTx' = openTx /\ pc = "undo" /\ pc' = "finish"
  BY DEF UndoDone, durable, tables
<1>2. Unmoved
  BY <1>1, OpenSame DEF Unmoved, Replaying, Keeps
<1>3. Steady /\ StoreInv'
  BY <1>2, UnmovedSteady DEF ReplayInv
<1>4. [Next]_vars
  BY DEF Next, Recover
<1>5. UndoListInv'
  BY <1>1 DEF UndoListInv, Recovering
<1> QED
  BY <1>3, <1>4, <1>5, Steady_Step

LEMMA RecoveryDone_Replay ==
    ASSUME Known, Known', ReplayInv, RecoveryDone
    PROVE  ReplayInv' /\ Steady
<1>1. /\ UNCHANGED <<disk, fileSize, filePages, pool, pending, dpt>>
      /\ openTx' = openTx /\ pc = "finish" /\ pc' = "boot"
      /\ log' = FlushLog(log)
  BY DEF RecoveryDone, durable, tables
<1>2. Unmoved
  BY <1>1, OpenSame DEF Unmoved, Replaying, Keeps
<1>3. Steady /\ StoreInv'
  BY <1>2, UnmovedSteady DEF ReplayInv
<1>4. [Next]_vars
  BY DEF Next, Recover
<1>5. History' = log'.stable
  <2>1. log \in LogState /\ FlushLog(log) \in LogState
        /\ FlushLog(log).buf = << >>
    BY FlushHistory, FlushType, StepTypes
  <2> QED
    BY <1>1, <2>1, LogParts, StepTypes
<1>6. \A i \in DOMAIN History' : i <= Len(log'.stable)
  BY <1>5, StepTypes, LogParts
<1>7. UndoListInv'
  BY <1>1, <1>6 DEF UndoListInv
<1> QED
  BY <1>3, <1>4, <1>7, Steady_Step

\* The end record of a loser or of a committed transaction.
LEMMA LateEnd ==
    ASSUME Known, Known', ReplayInv, NEW x \in Xids, EmitEnd(x),
           pc \in {"endloser", "finish"}, pc' \in {"undo", "finish"},
           UNCHANGED <<disk, fileSize, filePages, pool, pending, dpt, openTx>>
    PROVE  /\ Steady /\ StoreInv'
           /\ History' = Append(History, TxRec("end", x))
           /\ TxRec("end", x) \in LogRecord
<1> DEFINE e == TxRec("end", x)
<1>1. e \in LogRecord /\ e.type = "end"
  BY TxRecType DEF TxRec, Known, Base
<1>2. Logs(e)
  BY <1>1 DEF Logs, Adds, Emits, EmitEnd, Recovering
<1>3. Unmoved
  BY <1>1, <1>2, OpenSame DEF Unmoved, Replaying
<1>4. Steady /\ StoreInv'
  BY <1>3, UnmovedSteady DEF ReplayInv
<1>5. History' = Append(History, e)
  BY <1>2, CalmAdds DEF Logs
<1> QED
  BY <1>1, <1>4, <1>5

LEMMA FinishCommitted_Replay ==
    ASSUME Known, Known', ReplayInv, NEW x \in Xids, FinishCommitted(x)
    PROVE  ReplayInv' /\ Steady
<1>1. /\ UNCHANGED <<disk, fileSize, filePages, pool, pending, dpt, openTx>>
      /\ pc = "finish" /\ pc' = "finish" /\ EmitEnd(x)
  BY DEF FinishCommitted, durable
<1>2. Steady /\ StoreInv'
  BY <1>1, LateEnd
<1>3. [Next]_vars
  BY DEF Next, Recover
<1>4. UndoListInv'
  BY <1>1 DEF UndoListInv, Recovering
<1> QED
  BY <1>2, <1>3, <1>4, Steady_Step

LEMMA EndLoser_Replay ==
    ASSUME Known, Known', ReplayInv, EndLoser
    PROVE  ReplayInv' /\ Steady
<1>1. /\ UNCHANGED <<disk, fileSize, filePages, pool, pending, dpt, openTx>>
      /\ pc = "endloser" /\ pc' = "undo" /\ EmitEnd(scan) /\ toUndo' = toUndo
  BY DEF EndLoser, durable
<1>2. scan \in Xids /\ toUndo[scan] = NoLsn
  BY <1>1 DEF Known, WalInv, TypeInv, ScanInv, LoserInv, UndoInv
<1> DEFINE e == TxRec("end", scan)
           h == History
<1>3. Steady /\ StoreInv' /\ History' = Append(h, e) /\ e \in LogRecord
  BY <1>1, <1>2, LateEnd
<1>4. [Next]_vars
  BY DEF Next, Recover
<1>5. e.type = "end" /\ e.xid = scan
  BY DEF TxRec
<1>6. h \in Seq(LogRecord) /\ UndoListInv
  BY StepTypes, LogParts DEF ReplayInv
<1>7. \A x \in Xids : toUndo[x] # NoLsn =>
         /\ \A i \in DOMAIN h :
               h[i].type \in {"commit", "end"} => h[i].xid # x
         /\ \E i \in DOMAIN h : /\ h[i].type = "update"
                                /\ h[i].xid = x
                                /\ h[i].lsn = toUndo[x]
  BY <1>1, <1>6 DEF UndoListInv
<1> HIDE DEF h, e
<1>8. /\ DOMAIN Append(h, e) = 1 .. Len(h) + 1 /\ DOMAIN h = 1 .. Len(h)
      /\ Len(h) \in Nat
      /\ \A i \in 1 .. Len(h) : Append(h, e)[i] = h[i]
      /\ Append(h, e)[Len(h) + 1] = e
      /\ \A i \in 1 .. Len(h) + 1 : i \in 1 .. Len(h) \/ i = Len(h) + 1
      /\ \A i \in 1 .. Len(h) : i \in 1 .. Len(h) + 1
  BY <1>3, <1>6, AppendParts
<1>9. UndoListInv'
  <2>1. ASSUME NEW x \in Xids, toUndo[x] # NoLsn
        PROVE  /\ \A i \in DOMAIN Append(h, e) :
                     Append(h, e)[i].type \in {"commit", "end"}
                         => Append(h, e)[i].xid # x
               /\ \E i \in DOMAIN Append(h, e) :
                     /\ Append(h, e)[i].type = "update"
                     /\ Append(h, e)[i].xid = x
                     /\ Append(h, e)[i].lsn = toUndo[x]
    <3>1. x # scan
      BY <1>2, <2>1
    <3>2. PICK i \in DOMAIN h : /\ h[i].type = "update" /\ h[i].xid = x
                                /\ h[i].lsn = toUndo[x]
      BY <1>7, <2>1
    <3> QED
      BY <1>5, <1>7, <1>8, <2>1, <3>1, <3>2
  <2> QED
    BY <1>1, <1>3, <2>1 DEF UndoListInv, Recovering
<1> QED
  BY <1>3, <1>4, <1>9, Steady_Step

-----------------------------------------------------------------------------
(* A logged write *)

LEMMA ClipDiff ==
    ASSUME NEW b \in Image, NEW a \in Image
    PROVE  LET w == DiffRange(b, a)
           IN  /\ Differing(Clip(b, w), Clip(a, w)) = Differing(b, a)
               /\ Differing(b, a) \subseteq w
<1> DEFINE w == DiffRange(b, a)
<1>1. \A o \in Offsets : o <= o
  BY PageLayout DEF Offsets
<1>2. Differing(b, a) \subseteq w
  BY <1>1 DEF DiffRange, Differing
<1> HIDE DEF w
<1>3. \A o \in Offsets : /\ Clip(b, w)[o] = IF o \in w THEN b[o] ELSE 0
                         /\ Clip(a, w)[o] = IF o \in w THEN a[o] ELSE 0
  BY DEF Clip
<1>4. Differing(Clip(b, w), Clip(a, w)) = Differing(b, a)
  BY <1>2, <1>3 DEF Differing
<1> QED
  BY <1>2, <1>4 DEF w

\* Record e was written for a change of page p by the transaction of name k.
Wrote(k, p, cells, e) ==
    /\ e \in LogRecord /\ IsUpdateOn(e, p) /\ Emits(e)
    /\ e.lsn = log.next /\ e.xid = openTx[k] /\ e.xid \in OpenXids
    /\ Changed(e) \subseteq e.window /\ Changed(e) \subseteq cells \cup LsnCells
    /\ \A o \in Offsets : /\ o \in e.window => e.before[o] = CurrentBytes(p)[o]
                          /\ o \in Changed(e) => e.after[o] = pending'.data[o]
                          /\ o \notin Changed(e) =>
                                pending'.data[o] = CurrentBytes(p)[o]
    /\ pending'.data[LsnOffset] = log.next % ByteBase
    /\ pending'.data[LsnOffset + 1] = log.next \div ByteBase
    /\ pending'.data \in Image
    /\ dpt' = FirstDirtied(dpt, p, log.next)

LEMMA WriteFacts ==
    ASSUME Known, ReplayInv, NEW k \in Names, NEW p \in Pages,
           NEW cells \in WriteSets, NEW v \in Values, WritePage(k, p, cells, v)
    PROVE  /\ pc = "idle" /\ pc' \in {"install", "ckptbegin"}
           /\ pending'.page = p /\ pending.page = NoPage /\ NoPage \notin Pages
           /\ UNCHANGED <<disk, fileSize, filePages, pool, openTx, toUndo>>
           /\ DirtyWrites \/ Uncontended(openTx[k], p, cells)
           /\ \/ /\ Keeps /\ dpt' = dpt /\ pending'.data = CurrentBytes(p)
              \/ \E e \in LogRecord : Wrote(k, p, cells, e)
<1> DEFINE x       == openTx[k]
           before  == CurrentBytes(p)
           changed == [o \in Offsets |-> IF o \in cells THEN v ELSE before[o]]
           stamped == WritePageLsn(changed, log.next)
           w       == DiffRange(before, stamped)
           e       == UpdateOf(x, p, before, stamped)
<1>1. /\ pc = "idle" /\ pc' \in {"install", "ckptbegin"} /\ x # NoXid
      /\ pending' = [page |-> p, data |-> stamped]
      /\ UNCHANGED <<disk, fileSize, filePages, pool, openTx, toUndo>>
      /\ DirtyWrites \/ Uncontended(x, p, cells)
      /\ \/ /\ log' = Emit(log, e)
            /\ dpt' = FirstDirtied(dpt, p, log.next)
         \/ log' = TakeLsn(log) /\ dpt' = dpt /\ stamped = before
  BY DEF WritePage, Ready, MaybeCheckpoint, durable, recovery
<1>2. /\ TypeInv /\ x \in Xids /\ x \in OpenXids /\ log.next \in Nat
      /\ before \in Image
  BY <1>1, BaseTypes
     DEF Known, Base, TypeInv, TypeOK, CurrentBytes, Pool, Frame, OpenXids
<1>3. pending.page = NoPage /\ NoPage \notin Pages
  BY <1>1, ServingTypes
<1>4. changed \in Image
  BY <1>2, RuntimeConfig DEF Image
<1>5. stamped \in Image
  BY <1>2, <1>4, StampRead
<1>6. e \in LogRecord
  BY <1>2, <1>5, UpdateOfType
<1>7. /\ LsnOffset \in Offsets /\ LsnOffset + 1 \in Offsets
      /\ LsnOffset # LsnOffset + 1
  BY PageLayout DEF Offsets
<1> HIDE DEF before
<1>8. /\ stamped[LsnOffset] = log.next % ByteBase
      /\ stamped[LsnOffset + 1] = log.next \div ByteBase
      /\ \A o \in Offsets : o \notin cells \cup LsnCells =>
                               stamped[o] = before[o]
  BY <1>7 DEF WritePageLsn, LsnCells
<1> HIDE DEF stamped, x
<1>9. /\ e.type = "update" /\ e.page = p /\ e.lsn = log.next /\ e.xid = x
      /\ e.window = w /\ e.before = Clip(before, w)
      /\ e.after = Clip(stamped, w)
  BY DEF UpdateOf
<1> HIDE DEF e
<1>10. Changed(e) = Differing(before, stamped) /\ Changed(e) \subseteq w
  BY <1>2, <1>5, <1>9, ClipDiff DEF Changed
<1> HIDE DEF w
<1>11. \A o \in Offsets :
          /\ o \in w => e.before[o] = before[o] /\ e.after[o] = stamped[o]
          /\ o \notin Changed(e) => stamped[o] = before[o]
  BY <1>9, <1>10 DEF Clip, Differing
<1>12. Changed(e) \subseteq cells \cup LsnCells /\ Changed(e) \subseteq Offsets
  BY <1>8, <1>10 DEF Differing
<1>13. CASE log' = Emit(log, e) /\ dpt' = FirstDirtied(dpt, p, log.next)
  <2>1. Emits(e)
    BY <1>13 DEF Emits
  <2>2. IsUpdateOn(e, p)
    BY <1>9 DEF IsUpdateOn
  <2>3. pending'.data = stamped
    BY <1>1
  <2>4. Wrote(k, p, cells, e)
    BY <1>2, <1>5, <1>6, <1>8, <1>9, <1>10, <1>11, <1>12, <1>13, <2>1, <2>2,
       <2>3 DEF Wrote, x, before
  <2> QED
    BY <1>1, <1>3, <1>6, <2>4 DEF x
<1>14. CASE log' = TakeLsn(log) /\ dpt' = dpt /\ stamped = before
  BY <1>1, <1>3, <1>14 DEF Keeps, x, before
<1> QED
  BY <1>1, <1>13, <1>14

\* The log with the new record.
LEMMA WroteLog ==
    ASSUME Known, Known', NEW k, NEW p \in Pages, NEW cells, NEW e,
           Wrote(k, p, cells, e)
    PROVE  LET n == Len(History)
           IN  /\ n \in Nat /\ Len(History') = n + 1
               /\ DOMAIN History = 1 .. n /\ DOMAIN History' = 1 .. n + 1
               /\ History \in Seq(LogRecord) /\ History' \in Seq(LogRecord)
               /\ Agree(History', History, n) /\ History'[n + 1] = e
               /\ \A i \in 1 .. n : History'[i] = History[i]
               /\ \A i \in 1 .. n + 1 : i \in 1 .. n \/ i = n + 1
               /\ \A q \in Pages \ {p} : CalmOn(q, n)
               /\ n + 1 \in UpdatesOn(History', p)
               /\ n + 1 - 1 = n /\ Len(log.stable) <= n
<1> DEFINE h == History
           g == Append(h, e)
<1>1. h \in Seq(LogRecord) /\ History' = g /\ e \in LogRecord
      /\ Len(log.stable) <= Len(h) /\ History' \in Seq(LogRecord)
  BY HistoryMoves, StepTypes, LogParts DEF Wrote, Known, WalInv
<1> HIDE DEF h
<1>2. /\ Len(h) \in Nat /\ DOMAIN h = 1 .. Len(h) /\ Len(g) = Len(h) + 1
      /\ DOMAIN g = 1 .. Len(h) + 1 /\ \A i \in 1 .. Len(h) : g[i] = h[i]
      /\ g[Len(h) + 1] = e
  BY <1>1, AppendParts
<1>3. Agree(g, h, Len(h))
  BY <1>2 DEF Agree
<1> HIDE DEF g
<1>4. /\ \A i \in 1 .. Len(h) + 1 : i \in 1 .. Len(h) \/ i = Len(h) + 1
      /\ Len(h) + 1 - 1 = Len(h) /\ Len(h) + 1 \in 1 .. Len(h) + 1
  BY <1>2
<1>5. Len(h) + 1 \in UpdatesOn(g, p)
  BY <1>2, <1>4 DEF UpdatesOn, Wrote
<1>6. ASSUME NEW q \in Pages, q # p, NEW i \in UpdatesOn(g, q)
      PROVE  i <= Len(h)
  <2>1. i \in 1 .. Len(h) + 1 /\ g[i].page = q
    BY <1>2 DEF UpdatesOn, IsUpdateOn
  <2>2. i # Len(h) + 1
    BY <1>2, <1>6, <2>1 DEF Wrote, IsUpdateOn
  <2> QED
    BY <1>2, <1>4, <2>1, <2>2
<1> QED
  BY <1>1, <1>2, <1>3, <1>4, <1>5, <1>6 DEF CalmOn, h

LEMMA WroteTrusts ==
    ASSUME Known, Known', NEW k, NEW p \in Pages, NEW cells, NEW e,
           Wrote(k, p, cells, e), openTx' = openTx, pc \notin Replaying,
           pc' \notin Replaying
    PROVE  Trusts /\ Trusted' = Trusted
<1>1. Trusted = Committed \cup OpenXids /\ Trusted' = Committed' \cup OpenXids
  BY OpenSame DEF Trusted
<1>2. \A x : Has(History', "commit", x) <=> Has(History, "commit", x)
  <2> DEFINE n == Len(History)
             h == History
             g == History'
  <2>1. /\ n \in Nat /\ DOMAIN h = 1 .. n /\ DOMAIN g = 1 .. n + 1
        /\ \A i \in 1 .. n : g[i] = h[i] /\ i \in 1 .. n + 1
        /\ \A i \in 1 .. n + 1 : i \in 1 .. n \/ g[i].type = "update"
    <3>1. /\ n \in Nat /\ DOMAIN h = 1 .. n /\ DOMAIN g = 1 .. n + 1
          /\ g[n + 1] = e /\ \A i \in 1 .. n : g[i] = h[i]
          /\ \A i \in 1 .. n + 1 : i \in 1 .. n \/ i = n + 1
      BY WroteLog
    <3>2. e.type = "update"
      BY DEF Wrote, IsUpdateOn
    <3> HIDE DEF h, g, n
    <3> QED
      BY <3>1, <3>2
  <2> HIDE DEF n, h, g
  <2>2. \A x : Has(g, "commit", x) <=> Has(h, "commit", x)
    BY <2>1 DEF Has
  <2> QED
    BY <2>2 DEF g, h
<1>3. Trusted' = Trusted
  BY <1>1, <1>2, LoggedIs
<1> QED
  BY <1>3 DEF Trusts

\* The page that waits shows the log, and the record fits it.
LEMMA WroteShows ==
    ASSUME Known, Known', MemoryInv, NEW k, NEW p \in Pages, NEW cells,
           NEW e, Wrote(k, p, cells, e), Trusts, pc \notin Replaying,
           pending.page # p, NEW n \in Nat, n = Len(History),
           Sound(History', Trusted', p, n + 1)
    PROVE  /\ Shown(pending'.data, History', p, n + 1)
           /\ Link(History', p, n + 1)
<1> DEFINE h == History
           g == History'
           img == CurrentBytes(p)
           new == pending'.data
<1>1. /\ g \in Seq(LogRecord) /\ h \in Seq(LogRecord)
      /\ Agree(g, h, n) /\ g[n + 1] = e /\ n + 1 \in UpdatesOn(g, p)
      /\ n + 1 - 1 = n
  BY WroteLog
<1>2. SoundTo(p, n)
  BY <1>1, SoundBack
<1>3. Shown(img, h, p, n)
  BY <1>2 DEF MemoryInv, MemoryShows, Now
<1>4. Shown(img, g, p, n)
  BY <1>1, <1>3, SameShown
<1> HIDE DEF h, g, img
<1>5. /\ Changed(e) \subseteq e.window
      /\ \A o \in Offsets : /\ o \in e.window => e.before[o] = img[o]
                            /\ o \in Changed(e) => e.after[o] = new[o]
                            /\ o \notin Changed(e) => new[o] = img[o]
      /\ new[LsnOffset] = log.next % ByteBase
      /\ new[LsnOffset + 1] = log.next \div ByteBase
      /\ e.lsn = log.next
  BY DEF Wrote, img
<1> HIDE DEF new
<1>6. ASSUME NEW o \in Track
      PROVE  new[o] = At(g, p, o, n + 1)
  <2>1. o \in Offsets /\ img[o] = At(g, p, o, n)
    BY <1>4, TrackedCells DEF Shown
  <2> QED
    BY <1>1, <1>5, <2>1, WriterAt
<1>7. \A o \in Track \cap e.window : e.before[o] = At(g, p, o, n)
  BY <1>4, <1>5, TrackedCells DEF Shown
<1>8. Shown(new, g, p, n + 1)
  BY <1>6 DEF Shown
<1>9. Link(g, p, n + 1)
  BY <1>1, <1>5, <1>6, <1>7, TrackedCells DEF Link
<1> QED
  BY <1>8, <1>9 DEF g, new

LEMMA Wrote_Replay ==
    ASSUME Known, Known', ReplayInv, NEW k, NEW p \in Pages, NEW cells,
           NEW e, Wrote(k, p, cells, e), pc = "idle",
           pc' \in {"install", "ckptbegin"}, pending'.page = p,
           pending.page = NoPage, NoPage \notin Pages,
           UNCHANGED <<disk, fileSize, filePages, pool, openTx, toUndo>>,
           Len(log.stable) <= Len(log'.stable)
    PROVE  ReplayInv'
<1> DEFINE n == Len(History)
           l == log.next
<1>1. /\ n \in Nat /\ Len(History') = n + 1
      /\ DOMAIN History = 1 .. n /\ DOMAIN History' = 1 .. n + 1
      /\ History \in Seq(LogRecord) /\ History' \in Seq(LogRecord)
      /\ Agree(History', History, n) /\ History'[n + 1] = e
      /\ \A i \in 1 .. n : History'[i] = History[i] /\ i <= n
      /\ \A i \in 1 .. n + 1 : i \in 1 .. n \/ i = n + 1
      /\ \A q \in Pages \ {p} : CalmOn(q, n)
      /\ n + 1 \in UpdatesOn(History', p)
      /\ Len(log.stable) <= n
  BY WroteLog
<1>2. pc \notin Replaying /\ pc' \notin Replaying /\ pc # "down"
      /\ pc' \notin Recovering /\ pc' # "down" /\ pc \notin Recovering
  BY DEF Replaying, Recovering
<1>3. Trusts /\ Trusted' = Trusted
  BY <1>2, WroteTrusts
<1>4. /\ LinkInv /\ FileInv /\ MemoryInv /\ ReachInv /\ LoggedReachInv
      /\ PastInv /\ StoreInv /\ UndoListInv
  BY DEF ReplayInv
<1>5. /\ l \in Nat /\ dpt \in [Pages -> Lsns] /\ dpt' \in [Pages -> Lsns]
      /\ dpt' = FirstDirtied(dpt, p, l) /\ e.lsn = l /\ Emits(e)
      /\ e \in LogRecord /\ e.type = "update"
      /\ \A q \in Pages : dpt[q] < l
  BY <1>4, StepTypes, BaseTypes
     DEF Wrote, IsUpdateOn, Known, Base, PastInv
<1>6. /\ \A q \in Pages \ {p} : dpt'[q] = dpt[q]
      /\ dpt'[p] = IF dpt[p] = NoLsn THEN l ELSE dpt[p]
  BY <1>5 DEF FirstDirtied
<1>7. Sound(History', Trusted', p, n + 1) =>
         Shown(pending'.data, History', p, n + 1) /\ Link(History', p, n + 1)
  BY <1>1, <1>2, <1>3, <1>4, WroteShows
<1>8. LinkInv'
  <2> SUFFICES ASSUME NEW q \in Pages, NEW i \in UpdatesOn(History', q),
                      Sound(History', Trusted', q, i)
               PROVE  Link(History', q, i)
    BY DEF LinkInv, SoundTo
  <2>1. i \in 1 .. n + 1
    BY <1>1 DEF UpdatesOn
  <2>2. CASE i \in 1 .. n
    <3>1. i <= n
      BY <1>1, <2>2
    <3> QED
      BY <1>1, <1>3, <1>4, <3>1, LinkAt
  <2>3. CASE i = n + 1
    <3>1. q = p
      BY <1>1, <2>3 DEF UpdatesOn, IsUpdateOn, Wrote
    <3> QED
      BY <1>7, <2>3, <3>1
  <2> QED
    BY <1>1, <2>1, <2>2, <2>3
<1>9. FileInv'
  BY <1>1, <1>2, <1>3, <1>4, KeptFile DEF FileInv, Replaying
<1>10. MemoryInv'
  <2> SUFFICES ASSUME NEW q \in Pages
               PROVE  MemoryShows(q)'
    BY DEF MemoryInv
  <2>1. CASE q # p
    <3>1. Now(q)' = Now(q)
      BY <2>1 DEF Now, CurrentBytes, Cached
    <3>2. MemoryShows(q)
      BY <1>2, <1>4 DEF MemoryInv
    <3> QED
      BY <1>1, <1>3, <2>1, <3>1, <3>2, KeptMemory
  <2>2. CASE q = p
    <3>1. Now(p)' = pending'.data
      BY DEF Now
    <3> QED
      BY <1>1, <1>7, <2>2, <3>1 DEF MemoryShows, SoundTo
  <2> QED
    BY <2>1, <2>2
<1>11. ReachInv'
  <2> SUFFICES ASSUME NEW q \in Pages
               PROVE  Reached(q)'
    BY DEF ReachInv
  <2>0. Reached(q)
    BY <1>2, <1>4 DEF ReachInv
  <2>1. CASE q # p
    BY <1>1, <1>2, <1>3, <1>6, <2>0, <2>1, KeptReach DEF Replaying
  <2>2. CASE q = p
    <3> SUFFICES ASSUME Sound(History', Trusted', p, n + 1),
                        NEW i \in UpdatesOn(History', p),
                        ReadPageLsn(disk[p]) < History'[i].lsn
                 PROVE  dpt'[p] # NoLsn /\ dpt'[p] <= History'[i].lsn
      BY <1>1, <2>2 DEF Reached, SoundTo, Reaches
    <3>1. i \in 1 .. n + 1
      BY <1>1 DEF UpdatesOn
    <3>2. CASE i \in 1 .. n
      <4>1. SoundTo(p, n) /\ i \in UpdatesOn(History, p)
        BY <1>1, <1>3, <3>2, SoundBack, SameUpdates
      <4>2. Reaches(dpt, p, i)
        BY <1>2, <2>0, <2>2, <4>1 DEF Reached, AnalyzedSoFar, Replaying
      <4>3. dpt[p] # NoLsn /\ dpt[p] <= History[i].lsn
        BY <1>1, <3>2, <4>2 DEF Reaches
      <4> QED
        BY <1>1, <1>6, <3>2, <4>3
    <3>3. CASE i = n + 1
      <4>1. History'[i].lsn = l /\ dpt[p] < l /\ dpt[p] \in Lsns
        BY <1>1, <1>5, <3>3
      <4>2. CASE dpt[p] = NoLsn
        BY <1>5, <1>6, <4>1, <4>2 DEF NoLsn
      <4>3. CASE dpt[p] # NoLsn
        <5>1. dpt[p] <= l
          BY <1>5, <4>1 DEF Lsns, NoLsn
        <5> QED
          BY <1>6, <4>1, <4>3, <5>1
      <4> QED
        BY <4>2, <4>3
    <3> QED
      BY <1>1, <3>1, <3>2, <3>3
  <2> QED
    BY <2>1, <2>2
<1>12. \A t \in Tables' : t \in Tables /\ t \in 1 .. n
                          /\ History'[t] = History[t]
  BY <1>1, <1>5 DEF Tables
<1>13. LoggedReachInv'
  BY <1>1, <1>3, <1>4, <1>12, KeptTable DEF LoggedReachInv
<1>14. PastInv'
  <2>1. log'.next = l + 1
    BY <1>5, EmitNext DEF Known, WalInv
  <2>2. \A q \in Pages : dpt'[q] < l + 1
    <3> SUFFICES ASSUME NEW q \in Pages
                 PROVE  dpt'[q] < l + 1
      OBVIOUS
    <3>1. dpt'[q] \in {dpt[q], l}
      BY <1>6
    <3>2. PICK m \in {dpt[q], l} : dpt'[q] = m
      BY <3>1
    <3>3. m < l + 1
      BY <1>5, <3>2 DEF Lsns, NoLsn
    <3> QED
      BY <3>2, <3>3
  <2>3. pc' # "analysis"
    BY <1>2 DEF Replaying
  <2> QED
    BY <1>4, <1>12, <2>1, <2>2, <2>3 DEF PastInv
<1>15. StoreInv'
  BY <1>2, <1>4 DEF StoreInv, BlankBeyond, SizesCounted, CleanCopies, Cached,
                    Replaying
<1>16. Committed' = Committed
  <2>1. Trusted = Committed \cup OpenXids
        /\ DOMAIN History = 1 .. n /\ DOMAIN History' = 1 .. n + 1
    BY <1>1, <1>2 DEF Trusted
  <2>2. \A x : Has(History', "commit", x) <=> Has(History, "commit", x)
    <3> DEFINE h == History
               g == History'
    <3>1. /\ DOMAIN h = 1 .. n /\ DOMAIN g = 1 .. n + 1
          /\ \A i \in 1 .. n : g[i] = h[i] /\ i \in 1 .. n + 1
          /\ \A i \in 1 .. n + 1 : i \in 1 .. n \/ g[i].type = "update"
      BY <1>1, <1>5
    <3> HIDE DEF n, h, g
    <3>2. \A x : Has(g, "commit", x) <=> Has(h, "commit", x)
      BY <3>1 DEF Has
    <3> QED
      BY <3>2 DEF g, h
  <2> QED
    BY <2>2, LoggedIs
<1>17. UndoListInv'
  <2>1. ASSUME NEW i \in DOMAIN History', History'[i].type = "end"
        PROVE  i <= Len(log'.stable) \/ History'[i].xid \in Committed'
    <3>1. i \in 1 .. n /\ History'[i] = History[i]
      BY <1>1, <1>5, <2>1
    <3>2. i <= Len(log.stable) \/ History[i].xid \in Committed
      BY <1>1, <1>2, <1>4, <2>1, <3>1 DEF UndoListInv
    <3>3. Len(log.stable) \in Nat /\ Len(log'.stable) \in Nat
      BY StepTypes, LogParts
    <3> QED
      BY <1>16, <3>1, <3>2, <3>3
  <2> QED
    BY <1>2, <2>1 DEF UndoListInv, Recovering
<1> QED
  BY <1>8, <1>9, <1>10, <1>11, <1>13, <1>14, <1>15, <1>17 DEF ReplayInv

LEMMA WritePage_Replay ==
    ASSUME Known, Known', ReplayInv, NEW k \in Names, NEW p \in Pages,
           NEW cells \in WriteSets, NEW v \in Values, WritePage(k, p, cells, v)
    PROVE  /\ ReplayInv'
           /\ Steady \/ \E e \in LogRecord : Wrote(k, p, cells, e)
<1>1. /\ pc = "idle" /\ pc' \in {"install", "ckptbegin"}
      /\ pending'.page = p /\ pending.page = NoPage /\ NoPage \notin Pages
      /\ UNCHANGED <<disk, fileSize, filePages, pool, openTx, toUndo>>
      /\ \/ /\ Keeps /\ dpt' = dpt /\ pending'.data = CurrentBytes(p)
         \/ \E e \in LogRecord : Wrote(k, p, cells, e)
  BY WriteFacts
<1>2. [Next]_vars
  BY DEF Next, Serve
<1>3. CASE Keeps /\ dpt' = dpt /\ pending'.data = CurrentBytes(p)
  <2>1. \A q \in Pages : CurrentBytes(q)' = CurrentBytes(q)
    BY <1>1 DEF CurrentBytes, Cached
  <2>2. \A q \in Pages : Now(q)' = Now(q) /\ Held(q)
    BY <1>1, <1>3, <2>1 DEF Now, Held
  <2>3. Steady
    BY <1>1, <1>3, <2>2, OpenSame DEF Steady, Replaying
  <2>4. StoreInv'
    BY <1>1 DEF ReplayInv, StoreInv, BlankBeyond, SizesCounted, CleanCopies,
                Cached
  <2>5. pc \notin Recovering /\ pc' \notin Recovering
    BY <1>1 DEF Recovering
  <2> QED
    BY <1>2, <2>3, <2>4, <2>5, Steady_Step
<1>4. CASE \E e \in LogRecord : Wrote(k, p, cells, e)
  <2>1. Begins(log.stable, log'.stable)
    BY <1>2, NextMoves, MoveExtends DEF Known, WalInv
  <2>2. Len(log.stable) <= Len(log'.stable)
    BY <2>1 DEF Begins
  <2> QED
    BY <1>1, <1>4, <2>2, Wrote_Replay
<1> QED
  BY <1>1, <1>3, <1>4

-----------------------------------------------------------------------------
(* The crash and the restart *)

LEMMA NoOpen ==
    ASSUME TypeInv, TxInv, pc \in Away
    PROVE  OpenXids = {}
  BY DEF TxInv, OpenXids

LEMMA PrefixHas ==
    ASSUME NEW u \in Seq(LogRecord), NEW h \in Seq(LogRecord), Begins(u, h)
    PROVE  \A t, x : Has(u, t, x) => Has(h, t, x)
<1>1. /\ Len(u) \in Nat /\ Len(h) \in Nat /\ Len(u) <= Len(h)
      /\ DOMAIN u = 1 .. Len(u) /\ DOMAIN h = 1 .. Len(h)
      /\ \A i \in DOMAIN u : u[i] = h[i]
  BY DEF Begins
<1> QED
  BY <1>1 DEF Has

LEMMA DownTrusts ==
    ASSUME Known, Known', UndoListInv, Kill \/ ExitDone
    PROVE  Trusts
<1>1. pc' = "down" /\ pc # "down"
      /\ (~CrashInRecovery => pc \notin Recovering)
  BY DEF Kill, ExitDone, Forget, Recovering
<1>2. OpenXids' = {}
  <2>1. openTx' = [n \in Names |-> NoXid]
    BY DEF Kill, ExitDone, Forget
  <2> QED
    BY <2>1 DEF OpenXids
<1>3. /\ History \in Seq(LogRecord) /\ History' \in Seq(LogRecord)
      /\ log.stable \in Seq(LogRecord) /\ log'.stable \in Seq(LogRecord)
      /\ DOMAIN History = 1 .. Len(History) /\ Len(History) \in Nat
      /\ Len(log.stable) \in Nat /\ DOMAIN log.stable = 1 .. Len(log.stable)
      /\ Agree(log.stable, History, Len(log.stable))
      /\ Begins(log.stable, History) /\ Begins(log'.stable, History')
  BY StepTypes, LogParts DEF Agree, Begins
<1>4. Loses /\ Begins(History', History)
  BY DownLoses, CalmLoses DEF Known, Base
<1>5. Begins(log.stable, log'.stable)
  BY <1>4, MoveExtends DEF LogMove, Known, Base
<1>6. Committed' \subseteq Committed
  BY <1>3, <1>4, LoggedIs, PrefixHas
<1>7. CASE CrashInRecovery
  <2>1. Trusted' = Committed' \cup OpenXids'
        /\ Trusted = Committed \cup OpenXids
    BY <1>7 DEF Trusted
  <2> QED
    BY <1>2, <1>6, <2>1 DEF Trusts
<1>8. CASE ~CrashInRecovery
  <2>1. pc \notin Replaying /\ pc' \in Replaying /\ pc \notin Away
        /\ pc \notin (Recovering \ {"boot"}) \cup {"down"}
    BY <1>1, <1>8 DEF Replaying, Recovering, Away
  <2>2. Trusted' = Xids \ RolledBack(Len(History))'
        /\ Trusted = Committed \cup OpenXids
    BY <1>8, <2>1 DEF Trusted
  <2> SUFFICES ASSUME NEW i \in DOMAIN History, History[i].type = "update",
                      NEW x, x = History[i].xid, x \in Xids,
                      x \notin Committed, x \notin OpenXids
               PROVE  x \in RolledBack(Len(History))'
    BY <2>2 DEF Trusts
  <2>3. Losers(History) \subseteq OpenXids
    BY <2>1 DEF Known, LoserInv
  <2>4. UpdatesOf(History, x) # {}
    BY DEF UpdatesOf, UpdatesIn
  <2>5. Ended(History, Len(History), x)
    BY <2>3, <2>4 DEF Losers
  <2>6. ~Has(History, "commit", x)
    BY LoggedIs
  <2>7. PICK k \in DOMAIN History :
            History[k].type = "end" /\ History[k].xid = x
    BY <2>5, <2>6 DEF Ended, Ends, Has
  <2>8. k <= Len(log.stable)
    BY <2>1, <2>7 DEF UndoListInv
  <2>9. Has(log.stable, "end", x)
    BY <1>3, <2>7, <2>8 DEF Has, Agree
  <2>10. Has(History', "end", x)
    BY <1>3, <1>5, <2>9, PrefixHas
  <2>11. ~Has(History', "commit", x)
    BY <1>3, <1>4, <2>6, PrefixHas
  <2> QED
    BY <2>10, <2>11, LoggedIs
<1> QED
  BY <1>7, <1>8

LEMMA Down_Replay ==
    ASSUME Known, Known', ReplayInv, Kill \/ ExitDone
    PROVE  ReplayInv'
<1>1. /\ pc' = "down" /\ UNCHANGED <<disk, fileSize>>
      /\ pool' = EmptyPool /\ dpt' = NoDirty
  BY DEF Kill, ExitDone, Forget, durable
<1>2. /\ LinkInv /\ FileInv /\ LoggedReachInv /\ PastInv /\ StoreInv
      /\ UndoListInv
  BY DEF ReplayInv
<1>3. Trusts
  BY <1>2, DownTrusts
<1>4. Loses
  BY DownLoses DEF Known, Base
<1>5. PICK n \in Nat : Calm(n) /\ Len(History') = n
  BY <1>4, CalmLoses
<1>6. Begins(log.stable, log'.stable)
  BY <1>4, MoveExtends DEF LogMove, Known, Base
<1>7. /\ Len(log.stable) <= Len(log'.stable) /\ Len(log.stable) <= n
      /\ Agree(History', History, n) /\ DOMAIN History' = 1 .. n
      /\ DOMAIN History = 1 .. Len(History) /\ Len(History) \in Nat
      /\ log'.next \in Nat
  BY <1>5, <1>6, StepTypes, LogParts DEF Calm, Begins
<1>8. LinkInv'
  BY <1>2, <1>3, <1>5, KeptLink
<1>9. FileInv'
  BY <1>1, <1>2, <1>3, <1>7, KeptFile DEF FileInv
<1>10. \A e \in Tables' : e \in Tables /\ e \in 1 .. n
                          /\ History'[e] = History[e]
  BY <1>7 DEF Tables, Agree
<1>11. LoggedReachInv'
  BY <1>1, <1>2, <1>3, <1>7, <1>10, KeptTable DEF LoggedReachInv
<1>12. PastInv'
  <2>1. \A p \in Pages : NoDirty[p] < log'.next
    BY <1>7 DEF NoDirty, NoLsn
  <2> QED
    BY <1>1, <1>2, <1>10, <2>1 DEF PastInv
<1>13. StoreInv'
  <2>1. \A p : p \notin Range(EmptyPool.order)
    BY EmptyPoolHoldsNothing
  <2>2. CleanCopies'
    BY <1>1, <2>1 DEF CleanCopies, Cached
  <2> QED
    BY <1>1, <1>2, <2>2 DEF StoreInv, BlankBeyond
<1>14. log'.buf = << >>
  BY <1>4, ReopenType DEF Loses
<1> QED
  BY <1>1, <1>8, <1>9, <1>11, <1>12, <1>13, <1>14
     DEF ReplayInv, MemoryInv, ReachInv, UndoListInv, Replaying, Recovering

LEMMA Restart_Replay ==
    ASSUME Known, Known', ReplayInv, Restart
    PROVE  ReplayInv'
<1> DEFINE s == log.stable
           n == Len(s)
           ends == CheckpointEnds(s, master)
<1>1. /\ pc = "down" /\ pc' = IF s = << >> THEN "boot" ELSE "analysis"
      /\ scan' = 1 /\ bootLen' = Len(s) /\ log' = ReopenLog(s)
      /\ master' = master /\ filePages' = fileSize
      /\ UNCHANGED <<disk, fileSize, pool, openTx, pending>>
      /\ \/ \E e \in ends : dpt' = s[e].dirty
         \/ ends = {} /\ dpt' = NoDirty
  BY DEF Restart, LoadTables, durable
<1>2. /\ LinkInv /\ FileInv /\ LoggedReachInv /\ PastInv /\ StoreInv
      /\ UndoListInv
  BY DEF ReplayInv
<1>3. log.buf = << >>
  BY <1>1, <1>2 DEF UndoListInv
<1>4. /\ s \in Seq(LogRecord) /\ Len(s) \in Nat /\ DOMAIN s = 1 .. Len(s)
      /\ History = s
  BY <1>3, StepTypes, LogParts
<1>5. log'.stable = s /\ log'.buf = << >>
  BY <1>1, <1>4, ReopenType
<1>6. History' = s
  BY <1>5, StepTypes, LogParts
<1>7. Calm(n) /\ Agree(History', History, n) /\ Len(log.stable) <= n
      /\ n \in Nat
  BY <1>4, <1>6 DEF Calm, Agree, UpdatesOn
<1>8. OpenXids = {} /\ OpenXids' = {}
  BY <1>1, NoOpen, OpenSame DEF Known, Base, Away
<1>9. Committed' = Committed
      /\ RolledBack(Len(History))' = RolledBack(Len(History))
  BY <1>4, <1>6 DEF Committed, RolledBack, Logged
<1>10. Trusts
  <2>1. CASE s = << >>
    BY <1>4, <2>1 DEF Trusts
  <2>2. CASE s # << >>
    <3>1. pc \in Replaying /\ pc' \in Replaying
      BY <1>1, <2>2 DEF Replaying
    <3>2. Trusted' = Trusted
      BY <1>8, <1>9, <3>1 DEF Trusted
    <3> QED
      BY <3>2 DEF Trusts
  <2> QED
    BY <2>1, <2>2
<1>11. LinkInv'
  BY <1>2, <1>7, <1>10, KeptLink
<1>12. pc' \notin {"redo", "redofresh", "down", "undo", "endloser"}
  BY <1>1
<1>13. FileInv'
  BY <1>1, <1>2, <1>5, <1>7, <1>10, <1>12, KeptFile DEF FileInv
<1>14. Tables' = Tables /\ \A e \in Tables' : e \in 1 .. n
  BY <1>4, <1>6 DEF Tables
<1>15. LoggedReachInv'
  BY <1>1, <1>2, <1>5, <1>7, <1>10, <1>14, KeptTable DEF LoggedReachInv
<1>16. StoreInv'
  <2>1. fileSize \in PageCounts
    BY DEF Known, Base, TypeInv, TypeOK, PageCounts
  <2>2. SizesCounted'
    BY <1>1, <2>1, LogBounds DEF SizesCounted, PageCounts
  <2>3. BlankBeyond' /\ CleanCopies'
    BY <1>1, <1>2 DEF StoreInv, BlankBeyond, CleanCopies, Cached
  <2> QED
    BY <1>12, <2>2, <2>3 DEF StoreInv
<1>17. Ordered(s, log.next) /\ Ordered(s, log'.next) /\ log'.next \in Nat
  BY <1>4, <1>6, StepTypes, LogParts
<1>18. ASSUME NEW e \in ends
       PROVE  /\ e \in Tables /\ e \in DOMAIN s /\ s[e] = History[e]
              /\ s[e].lsn \in Nat /\ \A f \in ends : f = e
              /\ \A p \in Pages : s[e].dirty[p] < s[e].lsn
                                  /\ s[e].dirty[p] \in Lsns
  <2>1. e \in DOMAIN s /\ s[e].type = "end_chkpt"
    BY DEF CheckpointEnds
  <2>2. e \in Tables
    BY <1>4, <2>1 DEF Tables
  <2>3. \A f \in ends : f = e
    BY <1>4, <1>17, OneEnd
  <2>4. s[e] \in EndRecord /\ s[e].lsn \in Nat
    BY <1>4, <2>1, RecordFields
  <2>5. \A p \in Pages : s[e].dirty[p] < s[e].lsn
    BY <1>2, <1>4, <2>2 DEF PastInv
  <2> QED
    BY <1>4, <2>1, <2>2, <2>3, <2>4, <2>5 DEF EndRecord, DirtyPageTable
<1>19. PastInv'
  <2>1. ASSUME NEW p \in Pages
        PROVE  dpt'[p] < log'.next
    <3>1. CASE ends = {} /\ dpt' = NoDirty
      BY <1>17, <3>1 DEF NoDirty, NoLsn
    <3>2. ASSUME NEW e \in ends, dpt' = s[e].dirty
          PROVE  dpt'[p] < log'.next
      <4>1. /\ s[e].dirty[p] < s[e].lsn /\ s[e].dirty[p] \in Int
            /\ s[e].lsn \in Nat /\ e \in DOMAIN s
        BY <1>18 DEF Lsns, NoLsn
      <4>2. PICK m \in Nat : m = log'.next
        BY <1>17
      <4>3. s[e].lsn < m
        BY <1>17, <4>1, <4>2 DEF Ordered
      <4>4. s[e].dirty[p] < m
        BY <4>1, <4>2, <4>3
      <4> QED
        BY <3>2, <4>2, <4>4
    <3> QED
      BY <1>1, <3>1, <3>2
  <2>2. ASSUME NEW k \in DOMAIN s, k >= 1, \A e \in ends : e < k,
               NEW p \in Pages
        PROVE  dpt'[p] < s[k].lsn
    <3>0. s[k].lsn \in Nat
      BY <1>4, HistoryLsns
    <3>1. CASE ends = {} /\ dpt' = NoDirty
      BY <3>0, <3>1 DEF NoDirty, NoLsn
    <3>2. ASSUME NEW e \in ends, dpt' = s[e].dirty
          PROVE  dpt'[p] < s[k].lsn
      <4>1. /\ s[e].dirty[p] < s[e].lsn /\ s[e].dirty[p] \in Int
            /\ s[e].lsn \in Nat /\ e \in DOMAIN s
        BY <1>18 DEF Lsns, NoLsn
      <4>2. s[e].lsn < s[k].lsn
        BY <1>17, <2>2, <4>1 DEF Ordered
      <4>3. s[e].dirty[p] < s[k].lsn
        BY <3>0, <4>1, <4>2
      <4> QED
        BY <3>2, <4>3
    <3> QED
      BY <1>1, <3>1, <3>2
  <2>3. \A e \in Tables' : \A p \in Pages :
           History'[e].dirty[p] < History'[e].lsn
    BY <1>2, <1>4, <1>6, <1>14 DEF PastInv
  <2>4. CheckpointEnds(log'.stable, master') = ends
    BY <1>1, <1>5
  <2> QED
    BY <1>1, <1>6, <2>1, <2>2, <2>3, <2>4 DEF PastInv
<1>20. ReachInv'
  <2> SUFFICES ASSUME NEW p \in Pages,
                      Sound(History', Trusted', p, Len(History')),
                      NEW i \in UpdatesOn(s, p), AnalyzedSoFar(i)'
               PROVE  ReadPageLsn(disk'[p]) < s[i].lsn =>
                         dpt'[p] # NoLsn /\ dpt'[p] <= s[i].lsn
    BY <1>6 DEF ReachInv, Reached, SoundTo, Reaches
  <2>1. i \in 1 .. n
    BY <1>4 DEF UpdatesOn
  <2>2. pc' = "analysis"
    BY <1>1, <1>4, <2>1
  <2>3. PICK e \in ends : i < e
    BY <1>1, <1>5, <2>1, <2>2 DEF AnalyzedSoFar
  <2>4. e \in Tables /\ e \in DOMAIN s /\ \A f \in ends : f = e
    BY <1>18
  <2>5. dpt' = s[e].dirty
    BY <1>1, <2>4
  <2>6. SoundTo(p, n)
    BY <1>4, <1>6, <1>7, <1>10, SoundBack
  <2>7. SoundTo(p, e) /\ SoundTo(p, Len(log.stable))
    BY <1>4, <2>4, <2>6, SoundLess DEF SoundTo
  <2>8. Reaches(History[e].dirty, p, i)
    BY <1>2, <1>4, <2>3, <2>4, <2>7 DEF LoggedReachInv, TableReached
  <2> QED
    BY <1>1, <1>4, <2>5, <2>8 DEF Reaches
<1>21. MemoryInv'
  <2>1. CASE s # << >>
    BY <1>1, <2>1 DEF MemoryInv, Replaying
  <2>2. CASE s = << >>
    <3> SUFFICES ASSUME NEW p \in Pages
                 PROVE  Shown(Now(p)', s, p, 0)
      BY <1>4, <1>6, <2>2 DEF MemoryInv, MemoryShows
    <3>1. pending.page = NoPage /\ NoPage \notin Pages
      BY <1>1, EngineConfig DEF Known, WalInv, TypeInv, ScanInv
    <3>2. pool = EmptyPool
      BY <1>1 DEF Known, WalInv, PoolInv
    <3>3. Now(p)' = disk'[p]
      BY <1>1, <3>1, <3>2, EmptyPoolHoldsNothing
         DEF Now, CurrentBytes, Cached
    <3>4. Sound(History', Trusted', p, Len(log'.stable))
      BY <1>4, <1>6, <2>2 DEF Sound, UpdatesOn
    <3>5. \E m \in 0 .. Len(s) : Shown(disk'[p], s, p, m)
      BY <1>5, <1>6, <1>13, <3>4 DEF FileInv, FileShows, SoundTo
    <3> QED
      BY <1>4, <2>2, <3>3, <3>5
  <2> QED
    BY <2>1, <2>2
<1>22. UndoListInv'
  <2>1. s = << >> => DOMAIN History' = {}
    BY <1>4, <1>6
  <2> QED
    BY <1>1, <1>12, <2>1 DEF UndoListInv, Recovering
<1> QED
  BY <1>11, <1>13, <1>15, <1>16, <1>19, <1>20, <1>21, <1>22 DEF ReplayInv

-----------------------------------------------------------------------------
(* Analysis and Redo *)

\* Recovery reads the log and adds nothing to it.
LEMMA Rereads ==
    ASSUME Known, Known', log' = log, openTx' = openTx, pc \in Recovering,
           \/ pc \in Replaying /\ pc' \in Replaying \cup {"undo"}
           \/ pc \notin Replaying /\ pc' \notin Replaying
    PROVE  /\ History' = History /\ Calm(Len(History)) /\ Trusts
           /\ OpenXids = {} /\ OpenXids' = {}
           /\ Committed' = Committed
           /\ Trusted' = Committed' \/ Trusted' = Trusted
           /\ Len(log.stable) <= Len(log'.stable)
<1>1. History' = History /\ Calm(Len(History))
  BY CalmKeeps DEF Keeps
<1>2. OpenXids = {} /\ OpenXids' = {}
  BY NoOpen, OpenSame DEF Known, Base, Away
<1>3. /\ Committed' = Committed /\ Committed \subseteq Xids
      /\ RolledBack(Len(History))' = RolledBack(Len(History))
      /\ Committed \cap RolledBack(Len(History)) = {}
  <2>1. Committed' = Committed
        /\ RolledBack(Len(History))' = RolledBack(Len(History))
    BY <1>1 DEF Committed, RolledBack, Logged
  <2>2. \A i \in DOMAIN History : History[i].type = "commit" =>
                                     History[i].xid \in Xids
    BY StepTypes, LogParts, RecordIds
  <2>3. Committed \subseteq Xids
    BY <2>2, StepTypes, LogParts DEF Committed, Logged
  <2> QED
    BY <2>1, <2>3 DEF RolledBack, Committed
<1>4. Trusted' \subseteq Trusted /\ (Trusted' = Committed' \/ Trusted' = Trusted)
  <2>1. CASE pc \in Replaying /\ pc' \in Replaying
    BY <1>2, <1>3, <2>1 DEF Trusted
  <2>2. CASE pc \in Replaying /\ pc' = "undo"
    <3>1. Trusted' = Committed \cup {}
      BY <1>2, <1>3, <2>2 DEF Trusted, Replaying
    <3>2. Trusted = Committed \cup {} \/ Trusted = Xids \ RolledBack(Len(History))
      BY <1>2 DEF Trusted
    <3> QED
      BY <1>3, <3>1, <3>2
  <2>3. CASE pc \notin Replaying /\ pc' \notin Replaying
    BY <1>2, <1>3, <2>3 DEF Trusted
  <2> QED
    BY <2>1, <2>2, <2>3
<1>5. Len(log.stable) <= Len(log'.stable)
  BY StepTypes, LogParts
<1> QED
  BY <1>1, <1>2, <1>3, <1>4, <1>5 DEF Trusts

\* Nothing is cached and nothing waits while recovery runs.
LEMMA NothingCached ==
    ASSUME Known, pc \in Recovering
    PROVE  /\ pool = EmptyPool /\ pending.page = NoPage /\ NoPage \notin Pages
           /\ \A p : ~Cached(p)
           /\ \A p \in Pages : Now(p) = disk[p]
<1>1. pool = EmptyPool /\ pending.page = NoPage /\ NoPage \notin Pages
  BY EngineConfig
     DEF Known, WalInv, TypeInv, ScanInv, PoolInv, Recovering
<1>2. \A p : ~Cached(p)
  BY <1>1, EmptyPoolHoldsNothing DEF Cached
<1> QED
  BY <1>1, <1>2 DEF Now, CurrentBytes

\* What recovery keeps of the pages it does not touch.
LEMMA KeptPages ==
    ASSUME Known, Known', ReplayInv, log' = log, Trusts, Calm(Len(History)),
           History' = History, Len(log.stable) <= Len(log'.stable),
           NEW p \in Pages, disk'[p] = disk[p],
           pc' \in {"redo", "redofresh"} =>
               \/ scan' <= 1
               \/ pc \in {"redo", "redofresh"} /\ scan' = scan
    PROVE  /\ FileShows(p)'
           /\ \A e \in Tables' : TableReached(p, e)'
           /\ pc \notin {"analysis", "down"} /\ dpt'[p] = dpt[p]
                => Reached(p)'
<1> DEFINE n == Len(History)
<1>1. /\ n \in Nat /\ Agree(History', History, n) /\ Len(log.stable) <= n
      /\ DOMAIN History = 1 .. n
  BY StepTypes, LogParts DEF Calm
<1>2. FileInv /\ ReachInv /\ LoggedReachInv
  BY DEF ReplayInv
<1>3. FileShows(p)'
  BY <1>1, <1>2, KeptFile DEF FileInv
<1>4. \A e \in Tables' : e \in Tables /\ e \in 1 .. n
  BY <1>1 DEF Tables
<1>5. \A e \in Tables' : TableReached(p, e)'
  BY <1>1, <1>2, <1>4, KeptTable DEF LoggedReachInv
<1>6. pc \notin {"analysis", "down"} /\ dpt'[p] = dpt[p] => Reached(p)'
  BY <1>1, <1>2, KeptReach, CalmPage DEF ReachInv
<1> QED
  BY <1>3, <1>5, <1>6

LEMMA AnalyzedLog ==
    ASSUME Known, pc \in {"analysis", "redo", "redofresh"}
    PROVE  /\ log.buf = << >> /\ bootLen = Len(log.stable)
           /\ History = log.stable /\ scan \in Nat /\ scan >= 1
           /\ log.stable \in Seq(LogRecord) /\ Len(log.stable) \in Nat
           /\ DOMAIN log.stable = 1 .. Len(log.stable)
           /\ Ordered(log.stable, log.next)
           /\ scan <= bootLen => scan \in DOMAIN log.stable
           /\ pc # "down" /\ pc \in Recovering /\ pc \in Replaying
<1>1. log.buf = << >> /\ bootLen = Len(log.stable)
  BY DEF Known, LoserInv, AnalysisInv, Analyzing
<1>2. History = HistoryOf(log) /\ log \in LogState /\ InOrder(log)
      /\ scan \in Nat /\ scan >= 1
  BY BaseTypes DEF History, HistoryOf, Known, Base, TypeInv, ScanInv
<1>3. History = log.stable /\ log.stable \in Seq(LogRecord)
      /\ Len(log.stable) \in Nat /\ DOMAIN log.stable = 1 .. Len(log.stable)
  BY <1>1, <1>2, LogParts
<1> QED
  BY <1>1, <1>2, <1>3 DEF InOrder, Recovering, Replaying

LEMMA AnalyzeRecord_Replay ==
    ASSUME Known, Known', ReplayInv, AnalyzeRecord
    PROVE  ReplayInv'
<1> DEFINE s == log.stable
           ends == CheckpointEnds(s, master)
           rec == s[scan]
           skip == \E e \in ends : rec.lsn <= s[e].lsn
<1>1. /\ pc = "analysis" /\ pc' = "analysis" /\ scan <= bootLen
      /\ scan' = scan + 1 /\ log' = log
      /\ UNCHANGED <<disk, fileSize, master, filePages, pool, pending, openTx>>
      /\ IF skip THEN dpt' = dpt ELSE Analyzed(rec)
  BY DEF AnalyzeRecord, durable
<1>2. /\ History = s /\ scan \in Nat /\ scan >= 1 /\ s \in Seq(LogRecord)
      /\ Len(s) \in Nat /\ DOMAIN s = 1 .. Len(s) /\ Ordered(s, log.next)
      /\ scan \in DOMAIN s
  BY <1>1, AnalyzedLog
<1>3. /\ LinkInv /\ FileInv /\ ReachInv /\ LoggedReachInv /\ PastInv
      /\ StoreInv
  BY DEF ReplayInv
<1>4. /\ History' = History /\ Calm(Len(History)) /\ Trusts
      /\ Len(log.stable) <= Len(log'.stable)
  BY <1>1, Rereads DEF Recovering, Replaying
<1>5. LinkInv'
  BY <1>3, <1>4, KeptLink
<1>6. \A p \in Pages : /\ FileShows(p)'
                       /\ \A e \in Tables' : TableReached(p, e)'
  BY <1>1, <1>4, KeptPages
<1>7. \A k \in DOMAIN s : s[k] \in LogRecord /\ s[k].lsn \in Nat
  BY <1>2, HistoryLsns
<1>8. /\ dpt \in [Pages -> Lsns] /\ dpt' \in [Pages -> Lsns]
      /\ log.next \in Nat /\ \A l \in Lsns : l \in Int
      /\ \A p \in Pages : dpt[p] \in Int
  BY StepTypes, LogParts DEF Lsns, NoLsn
<1>9. \/ dpt' = dpt /\ (skip \/ rec.type # "update")
      \/ /\ ~skip /\ rec.type = "update"
         /\ dpt' = FirstDirtied(dpt, rec.page, rec.lsn)
  BY <1>1 DEF Analyzed
<1>10. \A e \in ends : e \in DOMAIN s /\ s[e].type = "end_chkpt"
  BY DEF CheckpointEnds
<1>11. ~skip => \A e \in ends : e < scan
  <2> SUFFICES ASSUME ~skip, NEW e \in ends
               PROVE  e < scan
    OBVIOUS
  <2>1. e \in DOMAIN s /\ e \in Nat
    BY <1>2, <1>10
  <2>2. s[e].lsn < rec.lsn
    BY <1>2, <1>7, <2>1
  <2>3. ~(e = scan) /\ ~(scan < e)
    BY <1>2, <1>7, <2>1, <2>2 DEF Ordered
  <2> QED
    BY <1>2, <2>1, <2>3
<1>12. skip /\ rec.type = "update" => \E e \in ends : scan < e
  <2> SUFFICES ASSUME rec.type = "update", NEW e \in ends,
                      rec.lsn <= s[e].lsn
               PROVE  scan < e
    OBVIOUS
  <2>1. e \in DOMAIN s /\ e \in Nat /\ e # scan
    BY <1>2, <1>10
  <2>2. ~(e < scan)
    BY <1>2, <1>7, <2>1 DEF Ordered
  <2> QED
    BY <1>2, <2>1, <2>2
\* recLSNs of before stay.
<1>13. \A p \in Pages : /\ dpt[p] # NoLsn => dpt'[p] = dpt[p]
                        /\ dpt'[p] # dpt[p] => dpt'[p] = rec.lsn
  BY <1>8, <1>9 DEF FirstDirtied
<1>14. PastInv'
  <2>1. \A p \in Pages : dpt'[p] < log.next
    <3>1. rec.lsn < log.next
      BY <1>2 DEF Ordered
    <3> QED
      BY <1>3, <1>13, <3>1 DEF PastInv
  <2>2. ASSUME NEW k \in DOMAIN s, k >= scan + 1, \A e \in ends : e < k,
               NEW p \in Pages
        PROVE  dpt'[p] < s[k].lsn
    <3>1. k \in Nat /\ k >= scan /\ scan < k
      BY <1>2, <2>2
    <3>2. dpt[p] < s[k].lsn
      BY <1>1, <1>2, <1>3, <2>2, <3>1 DEF PastInv
    <3>3. rec.lsn < s[k].lsn
      BY <1>2, <3>1 DEF Ordered
    <3> QED
      BY <1>13, <3>2, <3>3
  <2>3. Tables' = Tables
    BY <1>4 DEF Tables
  <2> QED
    BY <1>1, <1>2, <1>3, <1>4, <2>1, <2>2, <2>3 DEF PastInv
<1>15. ReachInv'
  <2> SUFFICES ASSUME NEW p \in Pages,
                      Sound(History', Trusted', p, Len(History')),
                      NEW i \in UpdatesOn(s, p), AnalyzedSoFar(i)',
                      ReadPageLsn(disk[p]) < s[i].lsn
               PROVE  dpt'[p] # NoLsn /\ dpt'[p] <= s[i].lsn
    BY <1>1, <1>2, <1>4 DEF ReachInv, Reached, SoundTo, Reaches
  <2>1. SoundTo(p, Len(History))
    BY <1>2, <1>4, SoundBack DEF Calm
  <2>2. i \in DOMAIN s /\ i \in Nat /\ s[i].type = "update" /\ s[i].page = p
    BY <1>2 DEF UpdatesOn, IsUpdateOn
  <2>3. i < scan + 1 \/ \E e \in ends : i < e
    BY <1>1 DEF AnalyzedSoFar
  <2>4. CASE i < scan \/ \E e \in ends : i < e
    <3>1. Reaches(dpt, p, i)
      BY <1>1, <1>2, <1>3, <2>1, <2>4 DEF ReachInv, Reached, AnalyzedSoFar
    <3>2. dpt[p] # NoLsn /\ dpt[p] <= s[i].lsn
      BY <1>2, <3>1 DEF Reaches
    <3> QED
      BY <1>13, <3>2
  <2>5. CASE i = scan /\ ~(\E e \in ends : i < e)
    <3>1. ~skip
      BY <1>12, <2>2, <2>5
    <3>2. dpt' = FirstDirtied(dpt, p, s[i].lsn)
      BY <1>9, <2>2, <2>5, <3>1
    <3>3. dpt[p] < s[i].lsn
      BY <1>1, <1>2, <1>3, <1>11, <2>5, <3>1 DEF PastInv
    <3>4. CASE dpt[p] = NoLsn
      <4>1. dpt'[p] = s[i].lsn /\ s[i].lsn \in Nat
        BY <1>7, <1>8, <2>2, <3>2, <3>4 DEF FirstDirtied
      <4> QED
        BY <4>1 DEF NoLsn
    <3>5. CASE dpt[p] # NoLsn
      <4>1. dpt[p] <= s[i].lsn
        BY <1>7, <1>8, <2>2, <3>3
      <4> QED
        BY <1>13, <3>5, <4>1
    <3> QED
      BY <3>4, <3>5
  <2> QED
    BY <1>2, <2>2, <2>3, <2>4, <2>5
<1>16. StoreInv'
  BY <1>1, <1>3 DEF StoreInv, BlankBeyond, SizesCounted, CleanCopies, Cached
<1> QED
  BY <1>1, <1>5, <1>6, <1>14, <1>15, <1>16
     DEF ReplayInv, FileInv, MemoryInv, LoggedReachInv, UndoListInv,
         Replaying, Recovering

LEMMA AnalysisDone_Replay ==
    ASSUME Known, Known', ReplayInv, AnalysisDone
    PROVE  ReplayInv'
<1>1. /\ pc = "analysis" /\ pc' = "redo" /\ scan > bootLen
      /\ scan' = 1 /\ log' = log
      /\ UNCHANGED <<disk, fileSize, filePages, pool, pending, openTx, dpt>>
  BY DEF AnalysisDone, durable, tables
<1>2. /\ History = log.stable /\ scan \in Nat /\ bootLen = Len(log.stable)
      /\ Len(log.stable) \in Nat
      /\ DOMAIN log.stable = 1 .. Len(log.stable)
  BY <1>1, AnalyzedLog
<1>3. /\ LinkInv /\ ReachInv /\ PastInv /\ StoreInv
  BY DEF ReplayInv
<1>4. /\ History' = History /\ Calm(Len(History)) /\ Trusts
      /\ Len(log.stable) <= Len(log'.stable)
  BY <1>1, Rereads DEF Recovering, Replaying
<1>5. LinkInv'
  BY <1>3, <1>4, KeptLink
<1>6. \A p \in Pages : /\ FileShows(p)'
                       /\ \A e \in Tables' : TableReached(p, e)'
  BY <1>1, <1>4, KeptPages
<1>7. PastInv'
  <2>1. Tables' = Tables
    BY <1>4 DEF Tables
  <2> QED
    BY <1>1, <1>3, <1>4, <2>1 DEF PastInv
<1>8. ReachInv'
  <2> SUFFICES ASSUME NEW p \in Pages,
                      Sound(History', Trusted', p, Len(History')),
                      NEW i \in UpdatesOn(History, p)
               PROVE  Reaches(dpt, p, i)
    BY <1>1, <1>4 DEF ReachInv, Reached, SoundTo, Reaches
  <2>1. SoundTo(p, Len(History))
    BY <1>2, <1>4, SoundBack DEF Calm
  <2>2. i < scan
    BY <1>1, <1>2 DEF UpdatesOn
  <2> QED
    BY <1>1, <1>3, <2>1, <2>2 DEF ReachInv, Reached, AnalyzedSoFar
<1>9. StoreInv'
  BY <1>1, <1>3 DEF StoreInv, BlankBeyond, SizesCounted, CleanCopies, Cached
<1> QED
  BY <1>1, <1>5, <1>6, <1>7, <1>8, <1>9
     DEF ReplayInv, FileInv, MemoryInv, LoggedReachInv, UndoListInv,
         Replaying, Recovering

\* Where the file stands when Redo comes to a record.
LEMMA RedoPoint ==
    ASSUME Known, ReplayInv, pc \in {"redo", "redofresh"}, scan <= bootLen,
           NEW p \in Pages, SoundTo(p, Len(log.stable))
    PROVE  LET s == log.stable
           IN  /\ \A i \in UpdatesOn(s, p) : Link(s, p, i)
               /\ \E n \in 0 .. Len(s) :
                     /\ Shown(disk[p], s, p, n) /\ n >= scan - 1
                     /\ \A i \in UpdatesOn(s, p) :
                           /\ i <= n => s[i].lsn <= ReadPageLsn(disk[p])
                           /\ i > n => ReadPageLsn(disk[p]) < s[i].lsn
<1> DEFINE s == log.stable
<1>1. /\ History = s /\ scan \in Nat /\ s \in Seq(LogRecord)
      /\ Len(s) \in Nat /\ DOMAIN s = 1 .. Len(s) /\ Ordered(s, log.next)
  BY AnalyzedLog
<1>2. Sound(s, Trusted, p, Len(s))
  BY <1>1 DEF SoundTo
<1>3. \A i \in UpdatesOn(s, p) : /\ i \in Nat /\ i <= Len(s)
                                 /\ s[i].lsn # 0
  BY <1>1, <1>2 DEF UpdatesOn, Sound
<1>4. \A i \in UpdatesOn(s, p) : Link(s, p, i)
  <2>1. \A i \in UpdatesOn(s, p) : Sound(s, Trusted, p, i)
    BY <1>1, <1>2, <1>3, SoundLess
  <2> QED
    BY <1>1, <2>1 DEF ReplayInv, LinkInv, SoundTo
<1>5. PICK n \in 0 .. Len(s) : Shown(disk[p], s, p, n) /\ n >= scan - 1
  BY <1>1 DEF ReplayInv, FileInv, FileShows
<1>6. disk[p] \in Image
  BY DEF Known, Base, TypeInv, TypeOK
<1>7. n \in Nat /\ n <= Len(s) /\ Sound(s, Trusted, p, n)
  BY <1>1, <1>2, <1>5, SoundLess
<1>8. \A i \in UpdatesOn(s, p) :
         /\ i <= n => s[i].lsn <= ReadPageLsn(disk[p])
         /\ i > n => ReadPageLsn(disk[p]) < s[i].lsn
  BY <1>1, <1>3, <1>4, <1>5, <1>6, <1>7, LsnShown
<1> QED
  BY <1>4, <1>5, <1>8

LEMMA RedoSkip_Replay ==
    ASSUME Known, Known', ReplayInv, RedoSkip
    PROVE  ReplayInv'
<1> DEFINE s == log.stable
           rec == s[scan]
<1>1. /\ pc = "redo" /\ pc' = "redo" /\ scan <= bootLen
      /\ scan' = scan + 1 /\ log' = log /\ (ToRedo(rec) => OnDisk(rec))
      /\ UNCHANGED <<disk, fileSize, filePages, pool, pending, openTx, dpt>>
  BY DEF RedoSkip, durable, tables
<1>2. /\ History = s /\ scan \in Nat /\ bootLen = Len(s) /\ scan >= 1
      /\ Len(s) \in Nat /\ DOMAIN s = 1 .. Len(s) /\ s \in Seq(LogRecord)
      /\ scan \in DOMAIN s
  BY <1>1, AnalyzedLog
<1>3. /\ LinkInv /\ ReachInv /\ PastInv /\ StoreInv
  BY DEF ReplayInv
<1>4. /\ History' = History /\ Calm(Len(History)) /\ Trusts
      /\ Len(log.stable) <= Len(log'.stable)
  BY <1>1, Rereads DEF Recovering, Replaying
<1>5. LinkInv'
  BY <1>3, <1>4, KeptLink
<1>6. \A p \in Pages : \A e \in Tables' : TableReached(p, e)'
  <2>1. Tables' = Tables /\ \A e \in Tables' : e \in 1 .. Len(History)
    BY <1>2, <1>4 DEF Tables
  <2>2. LoggedReachInv
    BY DEF ReplayInv
  <2> QED
    BY <1>1, <1>2, <1>4, <2>1, <2>2, KeptTable DEF Calm, LoggedReachInv
<1>7. PastInv'
  <2>1. Tables' = Tables
    BY <1>4 DEF Tables
  <2> QED
    BY <1>1, <1>3, <1>4, <2>1 DEF PastInv
<1>8. ReachInv'
  BY <1>1, <1>2, <1>3, <1>4, KeptReach, CalmPage DEF ReachInv
<1>9. StoreInv'
  BY <1>1, <1>3 DEF StoreInv, BlankBeyond, SizesCounted, CleanCopies, Cached
<1>10. FileInv'
  <2> SUFFICES ASSUME NEW p \in Pages,
                      Sound(History', Trusted', p, Len(s))
               PROVE  \E n \in 0 .. Len(s) :
                         Shown(disk[p], s, p, n) /\ n >= scan + 1 - 1
    BY <1>1, <1>2, <1>4 DEF FileInv, FileShows, SoundTo
  <2>1. SoundTo(p, Len(s))
    BY <1>2, <1>4, SoundBack DEF Calm
  <2>2. PICK n \in 0 .. Len(s) :
            /\ Shown(disk[p], s, p, n) /\ n >= scan - 1
            /\ \A i \in UpdatesOn(s, p) :
                  /\ i <= n => s[i].lsn <= ReadPageLsn(disk[p])
                  /\ i > n => ReadPageLsn(disk[p]) < s[i].lsn
    BY <1>1, <2>1, RedoPoint
  <2>3. CASE n >= scan
    BY <1>2, <2>2, <2>3
  <2>4. CASE n = scan - 1
    <3>1. scan \notin UpdatesOn(s, p)
      <4> SUFFICES ASSUME scan \in UpdatesOn(s, p)
                   PROVE  FALSE
        OBVIOUS
      <4>1. ReadPageLsn(disk[p]) < rec.lsn
        BY <1>2, <2>2, <2>4
      <4>2. rec.type = "update" /\ rec.page = p /\ rec.lsn \in Nat
        BY <1>2, HistoryLsns DEF UpdatesOn, IsUpdateOn
      <4>3. Reaches(dpt, p, scan)
        BY <1>1, <1>2, <1>3, <2>1 DEF ReachInv, Reached, AnalyzedSoFar
      <4>4. dpt[p] # NoLsn /\ dpt[p] <= rec.lsn
        BY <1>2, <4>1, <4>3 DEF Reaches
      <4>5. dpt[p] \in Int /\ ReadPageLsn(disk[p]) \in Nat
        BY PageLsnType
           DEF Known, Base, TypeInv, TypeOK, DirtyPageTable, Lsns, NoLsn
      <4>6. ToRedo(rec)
        BY <4>2, <4>4, <4>5 DEF ToRedo
      <4>7. ReadPageLsn(disk[p]) >= rec.lsn
        BY <1>1, <4>2, <4>6 DEF OnDisk
      <4> QED
        BY <4>1, <4>2, <4>5, <4>7
    <3>2. \A i \in UpdatesOn(s, p) : i <= n \/ i > scan
      BY <1>2, <2>4, <3>1 DEF UpdatesOn
    <3>3. n \in Nat /\ n <= scan
      BY <1>2, <2>4
    <3>4. Shown(disk[p], s, p, scan)
      BY <1>2, <2>2, <3>2, <3>3, GapShown
    <3>5. scan \in 0 .. Len(s) /\ scan >= scan + 1 - 1
      BY <1>2
    <3> QED
      BY <3>4, <3>5
  <2> QED
    BY <1>2, <2>2, <2>3, <2>4
<1> QED
  BY <1>1, <1>5, <1>6, <1>7, <1>8, <1>9, <1>10
     DEF ReplayInv, MemoryInv, LoggedReachInv, UndoListInv, Replaying,
         Recovering

LEMMA Reapply_Replay ==
    ASSUME Known, Known', ReplayInv, pc \in {"redo", "redofresh"},
           scan <= bootLen, log.stable[scan].type = "update",
           Reapply(log.stable[scan]), log' = log,
           UNCHANGED <<pool, pending, openTx, dpt>>,
           SoundTo(log.stable[scan].page, Len(log.stable)) =>
               ReadPageLsn(disk[log.stable[scan].page]) < log.stable[scan].lsn
    PROVE  ReplayInv'
<1> DEFINE s == log.stable
           rec == s[scan]
           q == rec.page
           img == ApplyAfter(disk[q], rec)
<1>1. /\ pc' = "redo" /\ scan' = scan + 1 /\ DiskWrite(q, img, filePages)
  BY DEF Reapply
<1>2. /\ History = s /\ scan \in Nat /\ bootLen = Len(s) /\ scan >= 1
      /\ Len(s) \in Nat /\ DOMAIN s = 1 .. Len(s) /\ s \in Seq(LogRecord)
      /\ scan \in DOMAIN s /\ pc # "down" /\ pc \in Recovering
      /\ pc \in Replaying
  BY AnalyzedLog
<1>3. /\ LinkInv /\ ReachInv /\ PastInv /\ StoreInv /\ LoggedReachInv
  BY DEF ReplayInv
<1>4. /\ History' = History /\ Calm(Len(History)) /\ Trusts
      /\ Len(log.stable) <= Len(log'.stable) /\ log'.stable = s
  BY <1>1, <1>2, Rereads DEF Recovering, Replaying
<1>5. LinkInv'
  BY <1>3, <1>4, KeptLink
<1>6. /\ scan \in UpdatesOn(s, q) /\ rec \in UpdateRecord /\ q \in Pages
      /\ rec.lsn \in Nat
  <2>1. rec \in UpdateRecord /\ rec.lsn \in Nat
    BY <1>2, RecordFields
  <2> QED
    BY <1>2, <2>1 DEF UpdatesOn, IsUpdateOn, UpdateRecord
<1>7. disk \in [Pages -> Image] /\ disk[q] \in Image /\ img \in Image
  BY <1>6, ImageTypes DEF Known, Base, TypeInv, TypeOK
<1> HIDE DEF img
<1>8. /\ BlankBeyond' /\ SizesCounted' /\ disk'[q] = img
      /\ \A p \in Pages : p # q => disk'[p] = disk[p]
  <2>1. /\ fileSize \in PageCounts /\ filePages \in PageCounts
        /\ BlankBeyond /\ SizesCounted
    BY <1>2, <1>3 DEF Known, Base, TypeInv, TypeOK, PageCounts, StoreInv
  <2> QED
    BY <1>1, <1>6, <1>7, <2>1, DiskWriteStore DEF SizesCounted
<1>9. StoreInv'
  <2>1. \A p : ~Cached(p)'
    BY <1>2, NothingCached DEF Cached
  <2> QED
    BY <1>1, <1>8, <2>1 DEF StoreInv, CleanCopies
\* The page that is written: brought to this record, if it can be trusted.
<1>10. ASSUME SoundTo(q, Len(s))
       PROVE  /\ Shown(img, s, q, scan)
              /\ ReadPageLsn(disk[q]) < ReadPageLsn(img)
  <2>1. PICK n \in 0 .. Len(s) :
            /\ Shown(disk[q], s, q, n) /\ n >= scan - 1
            /\ \A i \in UpdatesOn(s, q) :
                  /\ i <= n => s[i].lsn <= ReadPageLsn(disk[q])
                  /\ i > n => ReadPageLsn(disk[q]) < s[i].lsn
    BY <1>6, <1>10, RedoPoint
  <2>2. Link(s, q, scan)
    BY <1>6, <1>10, RedoPoint
  <2>3. ReadPageLsn(disk[q]) < rec.lsn /\ ReadPageLsn(disk[q]) \in Nat
    BY <1>7, <1>10, PageLsnType
  <2>4. ~(scan <= n)
    BY <1>6, <2>1, <2>3
  <2>5. n = scan - 1
    BY <1>2, <2>1, <2>4
  <2>6. Shown(img, s, q, scan) /\ ReadPageLsn(img) = rec.lsn
    BY <1>2, <1>6, <1>7, <2>1, <2>2, <2>5, Applied DEF img
  <2> QED
    BY <2>3, <2>6
<1>11. \A p \in Pages : Sound(s, Trusted', p, Len(s)) => SoundTo(p, Len(s))
  BY <1>2, <1>4, SoundBack DEF Calm
<1>12. FileInv'
  <2> SUFFICES ASSUME NEW p \in Pages, Sound(s, Trusted', p, Len(s))
               PROVE  \E n \in 0 .. Len(s) :
                         Shown(disk'[p], s, p, n) /\ n >= scan + 1 - 1
    BY <1>1, <1>2, <1>4 DEF FileInv, FileShows, SoundTo
  <2>0. scan \in 0 .. Len(s) /\ scan >= scan + 1 - 1
    BY <1>2
  <2>1. CASE p = q
    <3>1. Shown(disk'[q], s, q, scan)
      BY <1>8, <1>10, <1>11, <2>1
    <3> QED
      BY <2>0, <2>1, <3>1
  <2>2. CASE p # q
    <3>1. PICK n \in 0 .. Len(s) :
              Shown(disk[p], s, p, n) /\ n >= scan - 1
      BY <1>11, RedoPoint
    <3>2. CASE n >= scan
      <4>1. n >= scan + 1 - 1
        BY <1>2, <3>2
      <4> QED
        BY <1>8, <2>2, <3>1, <4>1
    <3>3. CASE n = scan - 1
      <4>1. scan \notin UpdatesOn(s, p)
        BY <2>2 DEF UpdatesOn, IsUpdateOn
      <4>2. \A i \in UpdatesOn(s, p) : i <= n \/ i > scan
        BY <1>2, <3>3, <4>1 DEF UpdatesOn
      <4>3. n \in Nat /\ n <= scan
        BY <1>2, <3>3
      <4>4. Shown(disk[p], s, p, scan)
        BY <1>2, <3>1, <4>2, <4>3, GapShown
      <4> QED
        BY <1>8, <2>0, <2>2, <4>4
    <3> QED
      BY <1>2, <3>1, <3>2, <3>3
  <2> QED
    BY <2>1, <2>2
\* A page's LSN only grows, so what the tables reach is still reached.
<1>13. ASSUME NEW p \in Pages, SoundTo(p, Len(s)), NEW d, NEW i,
              i \in UpdatesOn(s, p), Reaches(d, p, i),
              ReadPageLsn(disk'[p]) < s[i].lsn
       PROVE  d[p] # NoLsn /\ d[p] <= s[i].lsn
  <2>1. CASE p # q
    BY <1>2, <1>8, <1>13, <2>1 DEF Reaches
  <2>2. CASE p = q
    <3>1. ReadPageLsn(disk[q]) < ReadPageLsn(img) /\ ReadPageLsn(img) < s[i].lsn
      BY <1>8, <1>10, <1>13, <2>2
    <3>2. /\ ReadPageLsn(disk[q]) \in Nat /\ ReadPageLsn(img) \in Nat
          /\ s[i].lsn \in Nat
      BY <1>2, <1>7, <1>13, HistoryLsns, PageLsnType DEF UpdatesOn
    <3>3. ReadPageLsn(disk[q]) < s[i].lsn
      BY <3>1, <3>2
    <3> QED
      BY <1>2, <1>13, <2>2, <3>3 DEF Reaches
  <2> QED
    BY <2>1, <2>2
<1>14. ReachInv'
  <2> SUFFICES ASSUME NEW p \in Pages, Sound(s, Trusted', p, Len(s)),
                      NEW i \in UpdatesOn(s, p),
                      ReadPageLsn(disk'[p]) < s[i].lsn
               PROVE  dpt[p] # NoLsn /\ dpt[p] <= s[i].lsn
    BY <1>2, <1>4 DEF ReachInv, Reached, SoundTo, Reaches
  <2>1. SoundTo(p, Len(s))
    BY <1>11
  <2>2. Reaches(dpt, p, i)
    BY <1>2, <1>3, <2>1 DEF ReachInv, Reached, AnalyzedSoFar
  <2> QED
    BY <1>13, <2>1, <2>2
<1>15. Tables' = Tables
  BY <1>4 DEF Tables
<1>16. LoggedReachInv'
  <2> SUFFICES ASSUME NEW p \in Pages, NEW e \in Tables,
                      Sound(s, Trusted', p, e), Sound(s, Trusted', p, Len(s)),
                      NEW i \in UpdatesOn(s, p), i < e,
                      ReadPageLsn(disk'[p]) < s[i].lsn
               PROVE  s[e].dirty[p] # NoLsn /\ s[e].dirty[p] <= s[i].lsn
    BY <1>2, <1>4, <1>15 DEF LoggedReachInv, TableReached, SoundTo, Reaches
  <2>1. SoundTo(p, Len(s)) /\ e \in Nat /\ e <= Len(s)
    BY <1>2, <1>11 DEF Tables
  <2>2. SoundTo(p, e)
    BY <1>2, <2>1, SoundLess DEF SoundTo
  <2>3. Reaches(s[e].dirty, p, i)
    BY <1>2, <1>3, <2>1, <2>2 DEF LoggedReachInv, TableReached
  <2> QED
    BY <1>13, <2>1, <2>3
<1>17. PastInv'
  BY <1>1, <1>3, <1>4, <1>15 DEF PastInv
<1> QED
  BY <1>1, <1>5, <1>9, <1>12, <1>14, <1>16, <1>17
     DEF ReplayInv, MemoryInv, UndoListInv, Replaying, Recovering

LEMMA ZeroLsn == ReadPageLsn(ZeroImage) = 0
<1>1. LsnOffset \in Offsets /\ LsnOffset + 1 \in Offsets
  BY PageLayout DEF Offsets
<1>2. ReadPageLsn(ZeroImage) = 0 + ByteBase * 0
  BY <1>1 DEF ReadPageLsn, ZeroImage
<1> QED
  BY <1>2, PageLayout

LEMMA RedoApply_Replay ==
    ASSUME Known, Known', ReplayInv, RedoApply \/ RedoFresh
    PROVE  ReplayInv'
<1> DEFINE rec == log.stable[scan]
<1>1. /\ pc \in {"redo", "redofresh"} /\ scan <= bootLen
      /\ rec.type = "update" /\ Reapply(rec) /\ log' = log
      /\ UNCHANGED <<pool, pending, openTx, dpt>>
      /\ pc = "redofresh" \/ (~OnDisk(rec) /\ Allocated(rec.page))
  BY DEF RedoApply, RedoFresh, Redoing, ToRedo, tables, Known, WalInv,
         TypeInv, ScanInv
<1>2. /\ bootLen = Len(log.stable) /\ log.stable \in Seq(LogRecord)
      /\ scan \in DOMAIN log.stable /\ History = log.stable
      /\ DOMAIN log.stable = 1 .. Len(log.stable)
  BY <1>1, AnalyzedLog
<1>3. rec \in UpdateRecord /\ rec.lsn \in Nat
  BY <1>1, <1>2, RecordFields
<1>4. rec.page \in Pages
  BY <1>3 DEF UpdateRecord
<1>5. ASSUME SoundTo(rec.page, Len(log.stable))
      PROVE  ReadPageLsn(disk[rec.page]) < rec.lsn
  <2>1. CASE ~OnDisk(rec) /\ Allocated(rec.page)
    <3>1. ReadPageLsn(disk[rec.page]) \in Nat
      BY <1>4, PageLsnType DEF Known, Base, TypeInv, TypeOK
    <3> QED
      BY <1>3, <2>1, <3>1 DEF OnDisk
  <2>2. CASE pc = "redofresh"
    <3>1. disk[rec.page] = ZeroImage
      BY <2>2 DEF ReplayInv, StoreInv, FreshIsBlank
    <3>2. rec.lsn # 0
      BY <1>1, <1>2, <1>5 DEF SoundTo, Sound, UpdatesOn, IsUpdateOn
    <3> QED
      BY <1>3, <3>1, <3>2, ZeroLsn
  <2> QED
    BY <1>1, <2>1, <2>2
<1> QED
  BY <1>1, <1>5, Reapply_Replay

LEMMA EnsurePageExists_Replay ==
    ASSUME Known, Known', ReplayInv, EnsurePageExists
    PROVE  ReplayInv'
<1> DEFINE s == log.stable
           p == s[scan].page
           q == <<p[1], filePages[p[1]]>>
<1>1. /\ pc = "redo" /\ pc' = IF q = p THEN "redofresh" ELSE "redo"
      /\ scan <= bootLen /\ s[scan].type = "update" /\ ~Allocated(p)
      /\ DiskWrite(q, ZeroImage, filePages) /\ scan' = scan /\ log' = log
      /\ UNCHANGED <<pool, pending, openTx, dpt>>
  BY DEF EnsurePageExists, Redoing, ToRedo, tables, recovery
<1>2. /\ History = s /\ scan \in DOMAIN s /\ s \in Seq(LogRecord)
      /\ DOMAIN s = 1 .. Len(s) /\ pc # "down" /\ pc \in Recovering
      /\ pc \in Replaying /\ pc' \in {"redo", "redofresh"}
      /\ pc' \in Replaying
  BY <1>1, AnalyzedLog DEF Replaying
<1>3. p \in Pages
  BY <1>1, <1>2, RecordFields DEF UpdateRecord
<1>4. /\ LinkInv /\ ReachInv /\ PastInv /\ StoreInv /\ LoggedReachInv
      /\ SizesCounted /\ BlankBeyond
      /\ fileSize \in PageCounts /\ filePages \in PageCounts
      /\ disk \in [Pages -> Image]
  BY <1>2 DEF ReplayInv, StoreInv, Known, Base, TypeInv, TypeOK, PageCounts
<1>5. q \in Pages /\ q[1] = p[1] /\ q[2] = filePages[p[1]]
  <2>1. p[1] \in Files /\ p[2] \in 0 .. (MaxPages - 1)
    BY <1>3, PageParts
  <2>2. filePages[p[1]] \in Nat /\ filePages[p[1]] <= p[2]
    BY <1>1, <1>4, <2>1, LogBounds DEF PageCounts, Allocated
  <2>3. filePages[p[1]] \in 0 .. (MaxPages - 1)
    BY <2>1, <2>2, LogBounds
  <2> QED
    BY <2>1, <2>3 DEF Pages
<1>6. disk[q] = ZeroImage
  <2>1. q[2] >= fileSize[q[1]]
    BY <1>3, <1>4, <1>5, PageParts, LogBounds DEF SizesCounted, PageCounts
  <2> QED
    BY <1>4, <1>5, <2>1 DEF BlankBeyond
<1> HIDE DEF q
<1>7. ZeroImage \in Image
  BY DEF ZeroImage, Image
<1>8. PICK r \in Pages : r = q
  BY <1>5
<1>9. /\ BlankBeyond' /\ SizesCounted' /\ disk'[r] = ZeroImage
      /\ \A o \in Pages : disk'[o] = disk[o]
      /\ r[2] < filePages'[r[1]]
  <2>1. DiskWrite(r, ZeroImage, filePages)
    BY <1>1, <1>8
  <2>2. /\ BlankBeyond' /\ SizesCounted' /\ disk'[r] = ZeroImage
        /\ \A o \in Pages : o # r => disk'[o] = disk[o]
        /\ r[2] < filePages'[r[1]]
    BY <1>4, <1>7, <1>8, <2>1, DiskWriteStore DEF SizesCounted
  <2> QED
    BY <1>6, <1>8, <2>2
<1>10. /\ History' = History /\ Calm(Len(History)) /\ Trusts
       /\ Len(log.stable) <= Len(log'.stable)
  BY <1>1, <1>2, Rereads
<1>11. LinkInv'
  BY <1>4, <1>10, KeptLink
<1>12. \A o \in Pages : /\ FileShows(o)' /\ Reached(o)'
                        /\ \A e \in Tables' : TableReached(o, e)'
  BY <1>1, <1>9, <1>10, KeptPages
<1>13. PastInv'
  <2>1. Tables' = Tables /\ pc' # "analysis"
    BY <1>2, <1>10 DEF Tables
  <2> QED
    BY <1>1, <1>4, <1>10, <2>1 DEF PastInv
<1>14. StoreInv'
  <2>1. \A o : ~Cached(o)'
    BY <1>1, <1>2, NothingCached DEF Cached
  <2>2. pc' = "redofresh" => FreshIsBlank'
    <3> SUFFICES ASSUME pc' = "redofresh" PROVE FreshIsBlank'
      OBVIOUS
    <3>1. log'.stable[scan'].page = r
      BY <1>1, <1>8
    <3> QED
      BY <1>9, <3>1 DEF FreshIsBlank, Allocated
  <2> QED
    BY <1>9, <2>1, <2>2 DEF StoreInv, CleanCopies
<1> QED
  BY <1>2, <1>11, <1>12, <1>13, <1>14
     DEF ReplayInv, FileInv, MemoryInv, ReachInv, LoggedReachInv,
         UndoListInv, Replaying, Recovering
-----------------------------------------------------------------------------
(* Undo *)

\* A loser Analysis found has updates in the log, and no commit or end.
LEMMA LoserLogged ==
    ASSUME Known, pc = "redo", NEW x \in Xids, txTable[x].status = "active",
           txTable[x].lastLSN # NoLsn
    PROVE  /\ \A i \in DOMAIN History :
                 History[i].type \in {"commit", "end"} => History[i].xid # x
           /\ \E i \in DOMAIN History : /\ History[i].type = "update"
                                        /\ History[i].xid = x
                                        /\ History[i].lsn = txTable[x].lastLSN
<1> DEFINE h == History
           is == UpTo(h, Len(h), x)
<1>1. /\ h = log.stable /\ bootLen = Len(h) /\ Len(h) \in Nat
      /\ DOMAIN h = 1 .. Len(h) /\ h \in Seq(LogRecord)
  BY AnalyzedLog
<1>2. Found(txTable[x], h, Len(h), x)
  BY <1>1 DEF Known, LoserInv, AnalysisInv, Analyzing, Follows
<1> HIDE DEF h
<1>3. /\ is # {} /\ ~Ended(h, Len(h), x)
      /\ txTable[x] = Active(LsnOfLast(h, is))
  BY <1>2 DEF Found
<1>4. is \in SUBSET (1 .. Len(h))
  BY <1>1 DEF UpTo, UpdatesOf, UpdatesIn
<1> DEFINE m == Max(is)
<1>5. m \in is
  BY <1>1, <1>3, <1>4, MaxIndex
<1>6. txTable[x].lastLSN = h[m].lsn
  BY <1>3 DEF Active, LsnOfLast
<1> HIDE DEF m
<1>7. m \in DOMAIN h /\ h[m].type = "update" /\ h[m].xid = x
  BY <1>5 DEF UpTo, UpdatesOf, UpdatesIn
<1>8. \A i \in DOMAIN h : h[i].type \in {"commit", "end"} => h[i].xid # x
  BY <1>1, <1>3 DEF Ended, Ends
<1> QED
  BY <1>6, <1>7, <1>8 DEF h

LEMMA RedoDone_Replay ==
    ASSUME Known, Known', ReplayInv, RedoDone
    PROVE  ReplayInv'
<1>1. /\ pc = "redo" /\ pc' = "undo" /\ scan > bootLen
      /\ log' = log /\ openTx' = openTx
      /\ toUndo' = [x \in Xids |-> IF txTable[x].status = "active"
                                   THEN txTable[x].lastLSN ELSE NoLsn]
      /\ UNCHANGED <<disk, fileSize, filePages, pool, pending, dpt>>
  BY DEF RedoDone, durable, tables
<1>2. /\ History = log.stable /\ scan \in Nat /\ bootLen = Len(log.stable)
      /\ Len(log.stable) \in Nat /\ log.stable \in Seq(LogRecord)
      /\ pc \in Recovering /\ pc \in Replaying /\ pc' \in Recovering
      /\ pc' \notin Replaying
  BY <1>1, AnalyzedLog DEF Replaying, Recovering
<1>3. /\ LinkInv /\ PastInv /\ StoreInv /\ FileInv
  BY DEF ReplayInv
<1>4. /\ History' = History /\ Calm(Len(History)) /\ Trusts
      /\ Len(log.stable) <= Len(log'.stable)
  BY <1>1, <1>2, Rereads
<1>5. LinkInv'
  BY <1>3, <1>4, KeptLink
<1>6. \A p \in Pages : /\ FileShows(p)' /\ Reached(p)'
                       /\ \A e \in Tables' : TableReached(p, e)'
  BY <1>1, <1>4, KeptPages
<1>7. MemoryInv'
  <2> DEFINE s == log.stable
             n == Len(s)
  <2> SUFFICES ASSUME NEW p \in Pages, Sound(History', Trusted', p, n)
               PROVE  Shown(Now(p)', s, p, n)
    BY <1>2, <1>4 DEF MemoryInv, MemoryShows, SoundTo
  <2>1. SoundTo(p, n)
    BY <1>2, <1>4, SoundBack DEF Calm
  <2>2. PICK k \in 0 .. n : Shown(disk[p], s, p, k) /\ k >= scan - 1
    BY <1>1, <1>2, <1>3, <2>1 DEF FileInv, FileShows
  <2>3. k = n
    BY <1>1, <1>2, <2>2
  <2>4. Now(p)' = disk'[p]
    BY <1>1, <1>2, NothingCached DEF Now, CurrentBytes, Cached
  <2> QED
    BY <1>1, <2>2, <2>3, <2>4
<1>8. PastInv'
  <2>1. Tables' = Tables
    BY <1>4 DEF Tables
  <2> QED
    BY <1>1, <1>3, <1>4, <2>1 DEF PastInv
<1>9. StoreInv'
  BY <1>1, <1>3 DEF StoreInv, BlankBeyond, SizesCounted, CleanCopies, Cached
<1>10. UndoListInv'
  <2>1. ASSUME NEW x \in Xids, toUndo'[x] # NoLsn
        PROVE  /\ \A i \in DOMAIN History :
                     History[i].type \in {"commit", "end"}
                         => History[i].xid # x
               /\ \E i \in DOMAIN History : /\ History[i].type = "update"
                                            /\ History[i].xid = x
                                            /\ History[i].lsn = toUndo'[x]
    <3>1. txTable[x].status = "active" /\ toUndo'[x] = txTable[x].lastLSN
      BY <1>1, <2>1
    <3> QED
      BY <1>1, <2>1, <3>1, LoserLogged
  <2> QED
    BY <1>1, <1>4, <2>1 DEF UndoListInv, Recovering
<1> QED
  BY <1>5, <1>6, <1>7, <1>8, <1>9, <1>10
     DEF ReplayInv, FileInv, ReachInv, LoggedReachInv

\* What Undo takes back, and where it goes on.
LEMMA Undoes ==
    ASSUME Known, UndoListInv, NEW x \in Xids, UndoRecord(x)
    PROVE  \E i \in DOMAIN History :
              LET rec == History[i]
              IN  /\ i <= Len(log.stable) /\ i <= bootLen
                  /\ rec \in UpdateRecord /\ rec.xid = x
                  /\ rec.lsn = toUndo[x] /\ x \notin Committed
                  /\ \A y \in Xids : toUndo[y] <= toUndo[x]
                  /\ Restore(rec) /\ toUndo' = [toUndo EXCEPT ![x] = rec.prev]
                  /\ rec.prev # NoLsn =>
                        \E j \in DOMAIN History :
                            /\ j < i /\ History[j].type = "update"
                            /\ History[j].xid = x
                            /\ History[j].lsn = rec.prev
                            /\ \A k \in DOMAIN History :
                                  History[k].type = "update"
                                  /\ History[k].xid = x /\ k < i => k <= j
                  /\ rec.prev = NoLsn =>
                        \A k \in DOMAIN History :
                            History[k].type = "update"
                            /\ History[k].xid = x => k >= i
<1> DEFINE h == History
<1>1. /\ pc = "undo" /\ toUndo[x] # NoLsn
      /\ \A y \in Xids : toUndo[y] <= toUndo[x]
  BY DEF UndoRecord, NextLoser
<1>2. PICK i \in 1 .. bootLen :
         /\ log.stable[i].lsn = toUndo[x] /\ Restore(log.stable[i])
         /\ toUndo' = [toUndo EXCEPT ![x] = log.stable[i].prev]
  BY DEF UndoRecord
<1>3. /\ h \in Seq(LogRecord) /\ Len(h) \in Nat /\ DOMAIN h = 1 .. Len(h)
      /\ Len(log.stable) \in Nat /\ Len(log.stable) <= Len(h)
      /\ Agree(log.stable, h, Len(log.stable)) /\ Ordered(h, log.next)
      /\ bootLen \in Nat /\ bootLen <= Len(log.stable)
  <2>1. /\ log \in LogState /\ bootLen \in Nat /\ bootLen <= Len(log.stable)
        /\ Ordered(h, log.next) /\ h = HistoryOf(log)
    BY DEF Known, Base, TypeInv, TypeOK, ScanInv, InOrder, HistoryOf, History
  <2> QED
    BY <2>1, LogParts
<1>4. i \in 1 .. Len(log.stable) /\ i \in DOMAIN h /\ log.stable[i] = h[i]
      /\ i \in Nat /\ i <= Len(log.stable) /\ i <= bootLen
  <2>1. i \in Nat /\ i \in 1 .. Len(log.stable)
    BY <1>3
  <2> QED
    BY <1>3, <2>1 DEF Agree
<1>5. /\ \A k \in DOMAIN h : h[k].type \in {"commit", "end"} => h[k].xid # x
      /\ \E k \in DOMAIN h : /\ h[k].type = "update" /\ h[k].xid = x
                             /\ h[k].lsn = toUndo[x]
  BY <1>1 DEF UndoListInv
<1>6. x \notin Committed
  <2>1. \A k \in 1 .. Len(h) : h[k].type = "commit" => h[k].xid # x
    BY <1>3, <1>5
  <2> QED
    BY <2>1 DEF Committed, Logged
<1>7. Chained(h)
  BY DEF Known, Base, TxInv
<1> HIDE DEF h
<1>8. h[i].type = "update" /\ h[i].xid = x /\ h[i] \in UpdateRecord
  <2>1. PICK k \in DOMAIN h : /\ h[k].type = "update" /\ h[k].xid = x
                              /\ h[k].lsn = toUndo[x]
    BY <1>5
  <2>2. h[i].lsn = h[k].lsn /\ h[i].lsn \in Nat /\ h[k].lsn \in Nat
    BY <1>2, <1>3, <1>4, <2>1, HistoryLsns
  <2>3. ~(i < k) /\ ~(k < i)
    BY <1>3, <1>4, <2>2 DEF Ordered
  <2>4. i = k
    BY <1>3, <1>4, <2>3
  <2> QED
    BY <1>3, <1>4, <2>1, <2>4, HistoryLsns, RecordFields
<1> DEFINE is == {j \in UpdatesOf(h, x) : j < i}
<1>9. h[i].prev = LsnOfLast(h, is)
  BY <1>4, <1>7, <1>8 DEF Chained, UpdatesIn
<1>10. is \in SUBSET (1 .. Len(h)) /\ is \subseteq DOMAIN h
  BY <1>3 DEF UpdatesOf, UpdatesIn
<1>11. \A k \in DOMAIN h : h[k].type = "update" /\ h[k].xid = x /\ k < i
                              <=> k \in is
  BY DEF UpdatesOf, UpdatesIn
<1>12. \A k \in is : h[k].type = "update" /\ h[k].xid = x /\ k < i
  BY DEF UpdatesOf, UpdatesIn
<1> HIDE DEF is
<1>13. CASE is = {}
  <2>1. h[i].prev = NoLsn
    BY <1>9, <1>13 DEF LsnOfLast
  <2>2. \A k \in DOMAIN h : h[k].type = "update" /\ h[k].xid = x => k >= i
    BY <1>3, <1>4, <1>11, <1>13
  <2> QED
    BY <1>1, <1>2, <1>4, <1>6, <1>8, <2>1, <2>2 DEF h
<1>14. CASE is # {}
  <2> DEFINE m == Max(is)
  <2>1. m \in is /\ \A k \in is : k <= m
    BY <1>3, <1>10, <1>14, MaxIndex
  <2>2. h[i].prev = h[m].lsn
    BY <1>9, <1>14 DEF LsnOfLast
  <2> HIDE DEF m
  <2>3. m \in DOMAIN h
    BY <1>10, <2>1
  <2>4. /\ m < i /\ h[m].type = "update" /\ h[m].xid = x
        /\ \A k \in DOMAIN h :
              h[k].type = "update" /\ h[k].xid = x /\ k < i => k <= m
    BY <1>11, <1>12, <2>1
  <2>5. h[m].lsn \in Nat /\ h[i].prev # NoLsn
    BY <1>3, <2>2, <2>3, HistoryLsns DEF NoLsn
  <2> QED
    BY <1>1, <1>2, <1>4, <1>6, <1>8, <2>2, <2>3, <2>4, <2>5 DEF h
<1> QED
  BY <1>13, <1>14

LEMMA UndoRecord_Replay ==
    ASSUME Known, Known', ReplayInv, NEW x \in Xids, UndoRecord(x)
    PROVE  ReplayInv'
<1> DEFINE h == History
<1>1. /\ pc = "undo" /\ pc' \in {"undo", "endloser"} /\ log' = log
      /\ UNCHANGED <<pool, pending, openTx, dpt>>
  BY DEF UndoRecord, tables
<1>2. /\ pc \in Recovering /\ pc \notin Replaying /\ pc' \in Recovering
      /\ pc' \notin Replaying /\ pc # "down"
  BY <1>1 DEF Replaying, Recovering
<1>3. /\ LinkInv /\ PastInv /\ StoreInv /\ UndoListInv /\ MemoryInv
      /\ SizesCounted /\ BlankBeyond
      /\ fileSize \in PageCounts /\ filePages \in PageCounts
      /\ disk \in [Pages -> Image] /\ toUndo \in [Xids -> Lsns]
  BY <1>2 DEF ReplayInv, StoreInv, Known, Base, TypeInv, TypeOK, PageCounts
<1>4. /\ History' = History /\ Calm(Len(History)) /\ Trusts
      /\ Len(log.stable) <= Len(log'.stable) /\ Trusted' = Committed
  <2>1. /\ History' = History /\ Calm(Len(History)) /\ Trusts
        /\ Len(log.stable) <= Len(log'.stable)
        /\ Committed' = Committed /\ OpenXids' = {}
    BY <1>1, <1>2, Rereads
  <2>2. Trusted' = Committed' \cup OpenXids'
    BY <1>2 DEF Trusted
  <2> QED
    BY <2>1, <2>2
<1>5. /\ h \in Seq(LogRecord) /\ Len(h) \in Nat /\ DOMAIN h = 1 .. Len(h)
      /\ Len(log.stable) \in Nat /\ Len(log.stable) <= Len(h)
  BY StepTypes, LogParts
<1>6. PICK i \in DOMAIN h :
         /\ i <= Len(log.stable) /\ h[i] \in UpdateRecord
         /\ h[i].xid = x /\ x \notin Committed /\ Restore(h[i])
         /\ toUndo' = [toUndo EXCEPT ![x] = h[i].prev]
         /\ h[i].prev # NoLsn =>
               \E j \in DOMAIN h : /\ h[j].type = "update" /\ h[j].xid = x
                                   /\ h[j].lsn = h[i].prev
  BY <1>3, Undoes
<1> DEFINE q == h[i].page
<1>7. q \in Pages /\ i \in UpdatesOn(h, q)
  BY <1>6 DEF UpdateRecord, UpdatesOn, IsUpdateOn
<1> HIDE DEF h
\* The page it writes is not one to be trusted any more.
<1>8. \A n \in Nat : i <= n => ~Sound(h, Committed, q, n)
  BY <1>6, <1>7 DEF Sound
<1>9. /\ BlankBeyond' /\ SizesCounted'
      /\ \A p \in Pages : p # q => disk'[p] = disk[p]
  <2>1. CASE Allocated(q)
    <3>1. DiskWrite(q, RestoreBefore(disk[q], h[i]), filePages)
      BY <1>6, <2>1 DEF Restore, UpdateRecord
    <3>2. RestoreBefore(disk[q], h[i]) \in Image
      BY <1>3, <1>6, <1>7, ImageTypes
    <3> HIDE DEF q
    <3> QED
      BY <1>3, <1>7, <3>1, <3>2, DiskWriteStore DEF SizesCounted
  <2>2. CASE ~Allocated(q)
    <3>1. UNCHANGED <<disk, fileSize, filePages>>
      BY <1>6, <2>2 DEF Restore
    <3> QED
      BY <1>3, <3>1 DEF BlankBeyond, SizesCounted
  <2> QED
    BY <2>1, <2>2
<1> HIDE DEF q
<1>10. LinkInv'
  BY <1>3, <1>4, KeptLink
<1>11. ASSUME NEW p \in Pages, p # q
       PROVE  /\ FileShows(p)' /\ Reached(p)' /\ MemoryShows(p)'
              /\ \A e \in Tables' : TableReached(p, e)'
  <2>1. disk'[p] = disk[p] /\ dpt'[p] = dpt[p]
    BY <1>1, <1>9, <1>11
  <2>2. /\ FileShows(p)' /\ Reached(p)'
        /\ \A e \in Tables' : TableReached(p, e)'
    BY <1>1, <1>2, <1>4, <2>1, KeptPages
  <2>3. Now(p)' = disk'[p] /\ Now(p) = disk[p]
    BY <1>1, <1>2, NothingCached DEF Now, CurrentBytes, Cached
  <2>4. MemoryShows(p)
    BY <1>2, <1>3 DEF MemoryInv
  <2>5. MemoryShows(p)'
    BY <1>4, <2>1, <2>3, <2>4, CalmPage, KeptMemory
  <2> QED
    BY <2>2, <2>5
<1>12. /\ ~Sound(History', Trusted', q, Len(log'.stable))
       /\ ~Sound(History', Trusted', q, Len(History'))
  <2>1. i \in Nat /\ i <= Len(h)
    BY <1>5, <1>6
  <2>2. ~Sound(h, Committed, q, Len(h)) /\ ~Sound(h, Committed, q, Len(log.stable))
    BY <1>5, <1>6, <1>8, <2>1
  <2> QED
    BY <1>1, <1>4, <2>2 DEF h
<1>13. ASSUME NEW p \in Pages, p = q
       PROVE  /\ FileShows(p)' /\ Reached(p)' /\ MemoryShows(p)'
              /\ \A e \in Tables' : TableReached(p, e)'
  <2>1. ~SoundTo(p, Len(log.stable))' /\ ~SoundTo(p, Len(History))'
    BY <1>12, <1>13 DEF SoundTo
  <2> QED
    BY <2>1 DEF FileShows, Reached, MemoryShows, TableReached
<1>14. PastInv'
  <2>1. Tables' = Tables
    BY <1>4 DEF Tables
  <2> QED
    BY <1>1, <1>3, <1>4, <2>1 DEF PastInv
<1>15. StoreInv'
  <2>1. \A p : ~Cached(p)'
    BY <1>1, <1>2, NothingCached DEF Cached
  <2> QED
    BY <1>1, <1>9, <2>1 DEF StoreInv, CleanCopies
<1>16. UndoListInv'
  <2>1. \A y \in Xids : toUndo'[y] = IF y = x THEN h[i].prev ELSE toUndo[y]
    BY <1>3, <1>6
  <2>2. toUndo[x] # NoLsn
    BY DEF UndoRecord, NextLoser
  <2>3. ASSUME NEW y \in Xids, toUndo'[y] # NoLsn
        PROVE  /\ \A k \in DOMAIN h :
                     h[k].type \in {"commit", "end"} => h[k].xid # y
               /\ \E k \in DOMAIN h : /\ h[k].type = "update"
                                      /\ h[k].xid = y
                                      /\ h[k].lsn = toUndo'[y]
    <3>1. /\ \A k \in DOMAIN h :
                h[k].type \in {"commit", "end"} => h[k].xid # y
          /\ \E k \in DOMAIN h : /\ h[k].type = "update" /\ h[k].xid = y
                                 /\ h[k].lsn = toUndo[y]
      BY <1>1, <1>3, <2>1, <2>2, <2>3 DEF UndoListInv, h
    <3> QED
      BY <1>6, <2>1, <2>3, <3>1
  <2> QED
    BY <1>1, <1>4, <2>3 DEF UndoListInv, Recovering, h
<1>17. \A p \in Pages : /\ FileShows(p)' /\ Reached(p)' /\ MemoryShows(p)'
                        /\ \A e \in Tables' : TableReached(p, e)'
  BY <1>11, <1>13
<1> QED
  BY <1>10, <1>14, <1>15, <1>16, <1>17
     DEF ReplayInv, FileInv, ReachInv, LoggedReachInv, MemoryInv

-----------------------------------------------------------------------------
(* The invariant of every run *)

LEMMA Init_Replay == Init => ReplayInv
<1> SUFFICES ASSUME Init PROVE ReplayInv
  OBVIOUS
<1>1. /\ log = ReopenLog(<< >>) /\ << >> \in Seq(LogRecord)
      /\ pc = "down" /\ dpt = NoDirty /\ pool = EmptyPool
      /\ disk = [p \in Pages |-> ZeroImage]
  BY DEF Init
<1>2. /\ log.stable = << >> /\ log.buf = << >> /\ log.next = 0
      /\ History = << >>
  <2>1. log.stable = << >> /\ log.buf = << >>
    BY <1>1, ReopenType
  <2>2. log.next = 0
    BY <1>1 DEF ReopenLog, NoLsn
  <2> QED
    BY <2>1, <2>2, ConcatEmptySeq DEF History
<1>3. DOMAIN History = {} /\ Len(log.stable) = 0
  BY <1>2
<1>4. \A p \in Pages : FileShows(p)
  <2> SUFFICES ASSUME NEW p \in Pages PROVE Shown(disk[p], History, p, 0)
    BY <1>1, <1>3 DEF FileShows
  <2>1. \A o : Writers(History, p, o, 0) = {}
    BY <1>3 DEF Writers, UpdatesOn
  <2>2. \A o \in Track : disk[p][o] = 0
    BY <1>1, TrackedCells DEF ZeroImage
  <2> QED
    BY <2>1, <2>2 DEF Shown, At, ValueOf
<1>5. LinkInv /\ Tables = {}
  BY <1>3 DEF LinkInv, UpdatesOn, Tables
<1>6. PastInv
  BY <1>1, <1>2, <1>5 DEF PastInv, NoDirty, NoLsn
<1>7. StoreInv
  <2>1. \A p \in Pages : ~Cached(p)
    BY <1>1, EmptyPoolHoldsNothing DEF Cached
  <2> QED
    BY <1>1, <2>1 DEF StoreInv, BlankBeyond, CleanCopies
<1>8. UndoListInv
  BY <1>1, <1>2 DEF UndoListInv, Recovering
<1> QED
  BY <1>1, <1>4, <1>5, <1>6, <1>7, <1>8
     DEF ReplayInv, FileInv, MemoryInv, ReachInv, LoggedReachInv, Replaying

LEMMA Stutter_Replay ==
    ASSUME ReplayInv, UNCHANGED vars
    PROVE  ReplayInv'
<1>1. /\ UNCHANGED <<disk, fileSize, master, log, filePages, pool, txTable>>
      /\ UNCHANGED <<dpt, openTx, pc, pending, scan, toUndo>>
  BY DEF vars
<1>2. History' = History /\ Trusted' = Trusted /\ Tables' = Tables
      /\ Committed' = Committed
  BY <1>1 DEF History, Trusted, RolledBack, Logged, Committed, OpenXids, Tables
<1>3. LinkInv' /\ FileInv'
  BY <1>1, <1>2 DEF ReplayInv, LinkInv, FileInv, FileShows, SoundTo
<1>4. MemoryInv'
  BY <1>1, <1>2 DEF ReplayInv, MemoryInv, MemoryShows, SoundTo, Now,
                    CurrentBytes, Cached
<1>5. ReachInv' /\ LoggedReachInv'
  BY <1>1, <1>2 DEF ReplayInv, ReachInv, Reached, SoundTo, AnalyzedSoFar,
                    Reaches, LoggedReachInv, TableReached
<1>6. PastInv'
  BY <1>1, <1>2 DEF ReplayInv, PastInv
<1>7. StoreInv'
  BY <1>1 DEF ReplayInv, StoreInv, BlankBeyond, SizesCounted, FreshIsBlank,
              CleanCopies, Allocated, Cached
<1>8. UndoListInv'
  BY <1>1, <1>2 DEF ReplayInv, UndoListInv
<1> QED
  BY <1>3, <1>4, <1>5, <1>6, <1>7, <1>8 DEF ReplayInv

LEMMA Next_Replay ==
    Known /\ Known' /\ ReplayInv /\ [Next]_vars => ReplayInv'
<1> SUFFICES ASSUME Known, Known', ReplayInv, [Next]_vars PROVE ReplayInv'
  OBVIOUS
<1>1. CASE UNCHANGED vars
  BY <1>1, Stutter_Replay
<1>2. CASE Serve
  BY <1>2, TxBegin_Replay, CommitRecord_Replay, GetPage_Replay,
     AllocatePage_Replay, WritePage_Replay, Control_Replay DEF Serve
<1>3. CASE Continue
  BY <1>3, Install_Replay, Checkpoint_Replay, Control_Replay, CommitEnd_Replay,
     FlushPage_Replay, Down_Replay DEF Continue
<1>4. CASE Recover
  BY <1>4, AnalyzeRecord_Replay, AnalysisDone_Replay, RedoSkip_Replay,
     RedoApply_Replay, EnsurePageExists_Replay, RedoDone_Replay,
     UndoRecord_Replay, FinishCommitted_Replay, EndLoser_Replay,
     UndoDone_Replay, RecoveryDone_Replay, Boot_Replay DEF Recover
<1>5. CASE Restart \/ Kill
  BY <1>5, Restart_Replay, Down_Replay
<1> QED
  BY <1>1, <1>2, <1>3, <1>4, <1>5 DEF Next

LEMMA AlwaysKnown == Spec => []Known
<1>1. WalInv /\ Base /\ LoserInv => Known
  BY DEF Known
<1> QED
  BY <1>1, WalInvariant, AlwaysBase, AlwaysLoserInv, PTL

\* In every state of every run, with crashes anywhere and any workload, each
\* image of a page that no loser changed, in its file, in the pool or in a
\* logged before-image, is what the log says of it at some point, and the
\* dirty page tables, in memory and in the checkpoints, reach back to it.
THEOREM ReplayInvariant == Spec => []ReplayInv
  BY AlwaysKnown, Init_Replay, Next_Replay, PTL DEF Spec
=============================================================================
