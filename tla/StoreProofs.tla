----------------------------- MODULE StoreProofs -----------------------------
(***************************************************************************)
(* What recovery makes of the pages: the dirty page table reaches back far *)
(* enough, Redo repeats history, and what is served after Undo is the      *)
(* history of the committed and the open transactions.                     *)
(*                                                                         *)
(* Hence WalEngine implements CommittedStore, step by step.  The engine's  *)
(* log and its open transactions decide what the store holds: what is kept *)
(* is what the log says of the committed transactions, what is seen is     *)
(* what it says of the committed and the open ones (ServedInv), so that a  *)
(* step which logs neither a change nor a commit is a stutter of the       *)
(* store, whatever it does to files, pool and tables.                      *)
(***************************************************************************)
EXTENDS ReplayProofs, EngineStore

-----------------------------------------------------------------------------
(* What follows *)

\* Between operations only open and committed transactions have updates in
\* the log that no recovery has rolled back.
LEMMA ServedXids ==
    ASSUME Known, pc \notin Away, NEW i \in DOMAIN History,
           History[i].type = "update",
           History[i].xid \notin RolledBack(Len(History))
    PROVE  History[i].xid \in Committed \cup OpenXids
<1> DEFINE h == History
           x == h[i].xid
<1>1. /\ h \in Seq(LogRecord) /\ Len(h) \in Nat /\ DOMAIN h = 1 .. Len(h)
  <2>1. log \in LogState /\ h = HistoryOf(log)
    BY DEF Known, Base, TypeInv, TypeOK, HistoryOf, History
  <2> QED
    BY <2>1, LogParts
<1>2. Losers(h) \subseteq OpenXids
  BY DEF Known, LoserInv
<1>3. x \in Xids
  BY <1>1, RecordIds, HistoryLsns
<1>4. i \in UpdatesOf(h, x)
  BY DEF UpdatesOf, UpdatesIn
<1>5. CASE Ended(h, Len(h), x)
  <2>1. PICK k \in 1 .. Len(h) : h[k].type \in {"commit", "end"} /\ h[k].xid = x
    BY <1>1, <1>5 DEF Ended, Ends
  <2>2. x \in Logged("commit", Len(h)) \/ x \in Logged("end", Len(h))
    BY <2>1 DEF Logged
  <2> QED
    BY <2>2 DEF RolledBack, Committed
<1>6. CASE ~Ended(h, Len(h), x)
  BY <1>2, <1>3, <1>4, <1>6 DEF Losers
<1> QED
  BY <1>5, <1>6

\* The dirty page table a checkpoint may snapshot at any moment reaches back
\* to the oldest change the files lack, however the page came to be dirty and
\* after any crash (setdefault in log_page_update, page_flushed, _checkpoint).
THEOREM TablesReachBack == Spec => []RecLsnReachesBack
<1>1. Known /\ ReplayInv => RecLsnReachesBack
  <2> SUFFICES ASSUME Known, ReplayInv, pc \in {"idle", "ckptend"},
                      NEW p \in Pages, NEW i \in Updates(p), Repeatable(p),
                      \A j \in Updates(p) :
                          History[j].xid \notin RolledBack(Len(History)),
                      ReadPageLsn(disk[p]) < History[i].lsn
               PROVE  dpt[p] # NoLsn /\ dpt[p] <= History[i].lsn
    BY DEF RecLsnReachesBack
  <2>1. /\ pc \notin Away /\ pc \notin Replaying /\ pc # "down"
        /\ pc # "analysis"
    BY DEF Away, Recovering, Replaying
  <2>2. UpdatesOn(History, p) = Updates(p)
    BY DEF UpdatesOn, Updates
  <2>3. \A j \in Updates(p) :
            j \in DOMAIN History /\ History[j].type = "update"
    BY DEF Updates, IsUpdateOn
  <2>4. SoundTo(p, Len(History))
    BY <2>1, <2>2, <2>3, ServedXids DEF SoundTo, Sound, Repeatable, Trusted
  <2> QED
    BY <2>1, <2>2, <2>4 DEF ReplayInv, ReachInv, Reached, AnalyzedSoFar, Reaches
<1> QED
  BY <1>1, AlwaysKnown, ReplayInvariant, PTL

\* What the log shows of a cell is the last change of it.
LEMMA AllReplayed ==
    ASSUME Known, NEW p \in Pages, NEW o, NEW xs,
           \A i \in Updates(p) : History[i].xid \in xs
    PROVE  At(History, p, o, Len(History)) = Replayed(p, o, xs)
<1>1. DOMAIN History = 1 .. Len(History) /\ Len(History) \in Nat
  <2>1. log \in LogState /\ History = HistoryOf(log)
    BY DEF Known, Base, TypeInv, TypeOK, HistoryOf, History
  <2> QED
    BY <2>1, LogParts
<1>2. \A i \in DOMAIN History : i <= Len(History)
  BY <1>1
<1>3. Writers(History, p, o, Len(History))
        = {i \in Updates(p) : o \in Changes(i) /\ History[i].xid \in xs}
  BY <1>2 DEF Writers, UpdatesOn, Updates, Changed, Changes
<1> QED
  BY <1>3 DEF At, ValueOf, Replayed

\* Pages that no loser has changed: whatever crashes fall inside recovery,
\* and even where transactions overwrite each other, they serve what the log
\* says of them. No condition on the instance is needed.
THEOREM CommittedPagesAreServed == Spec => []CommittedPagesServed
<1>1. Known /\ ReplayInv => CommittedPagesServed
  <2> SUFFICES ASSUME Known, ReplayInv, pc = "idle", NEW p \in Pages,
                      \A i \in Updates(p) :
                          /\ History[i].lsn # 0
                          /\ History[i].xid \in Committed \cup OpenXids,
                      NEW o \in UserCells
               PROVE  CurrentBytes(p)[o]
                        = Replayed(p, o, Committed \cup OpenXids)
    BY DEF CommittedPagesServed, Served
  <2>1. pc \notin Replaying
    BY DEF Replaying
  <2>2. SoundTo(p, Len(History))
    BY <2>1 DEF SoundTo, Sound, Trusted, UpdatesOn, Updates
  <2>3. Shown(Now(p), History, p, Len(History))
    BY <2>1, <2>2 DEF ReplayInv, MemoryInv, MemoryShows
  <2>4. Now(p) = CurrentBytes(p)
    <3>1. pending.page = NoPage /\ NoPage \notin Pages
      BY ServingTypes
    <3> QED
      BY <3>1 DEF Now
  <2>5. CurrentBytes(p)[o] = At(History, p, o, Len(History))
    BY <2>3, <2>4, TrackedCells DEF Shown
  <2> QED
    BY <2>5, AllReplayed
<1> QED
  BY <1>1, AlwaysKnown, ReplayInvariant, PTL

\* As long as no crash falls inside a recovery, Redo ends with every page it
\* can repeat as the whole log shows it.
LEMMA RedoneShows ==
    ASSUME ~CrashInRecovery, Known, ReplayInv, pc = "redo", scan > bootLen,
           NEW p \in Pages, Repeatable(p)
    PROVE  /\ SoundTo(p, Len(History))
           /\ Shown(disk[p], History, p, Len(History))
           /\ \A i \in UpdatesOn(History, p) : Link(History, p, i)
<1> DEFINE s == log.stable
<1>1. /\ History = s /\ bootLen = Len(s) /\ Len(s) \in Nat /\ scan \in Nat
      /\ s \in Seq(LogRecord)
  BY AnalyzedLog
<1>2. \A i \in UpdatesOn(s, p) : /\ i \in Updates(p) /\ i \in 1 .. Len(s)
                                 /\ s[i].xid \in Xids
  BY <1>1, UpdateParts DEF Updates, UpdatesOn
<1>3. Trusted = Xids \ RolledBack(Len(s))
  BY <1>1 DEF Trusted, Replaying
<1>4. SoundTo(p, Len(s))
  BY <1>1, <1>2, <1>3 DEF SoundTo, Sound, Repeatable
<1>5. PICK n \in 0 .. Len(s) : Shown(disk[p], s, p, n) /\ n >= scan - 1
  BY <1>1, <1>4 DEF ReplayInv, FileInv, FileShows
<1>6. n = Len(s)
  BY <1>1, <1>5
<1>7. \A i \in UpdatesOn(s, p) : SoundTo(p, i)
  BY <1>1, <1>2, <1>4, SoundLess DEF SoundTo
<1> QED
  BY <1>1, <1>4, <1>5, <1>6, <1>7 DEF ReplayInv, LinkInv

\* "Repeat History": as long as no crash falls inside a recovery, Redo ends
\* with every change of wal.log in the files, losers' included, wherever the
\* crash left the files, the log and the last checkpoint (_phase_redo's
\* skips: the page is not dirty, the record is older than its recLSN, the
\* page's LSN is not smaller).
THEOREM RedoRepeatsHistory ==
    ASSUME ~CrashInRecovery PROVE Spec => []RepeatsHistory
<1>1. Known /\ ReplayInv => RepeatsHistory
  <2> SUFFICES ASSUME Known, ReplayInv, pc = "redo", scan > bootLen,
                      NEW p \in Pages, NEW o \in UserCells, Repeatable(p)
               PROVE  disk[p][o] = Replayed(p, o, Xids)
    BY DEF RepeatsHistory
  <2>1. disk[p][o] = At(History, p, o, Len(History))
    BY RedoneShows, TrackedCells DEF Shown
  <2>2. History \in Seq(LogRecord) /\ Updates(p) = UpdatesOn(History, p)
    BY AnalyzedLog DEF Updates, UpdatesOn
  <2>3. \A i \in Updates(p) : History[i].xid \in Xids
    BY <2>2, UpdateParts
  <2> QED
    BY <2>1, <2>3, AllReplayed
<1> QED
  BY <1>1, AlwaysKnown, ReplayInvariant, PTL

-----------------------------------------------------------------------------
(* Transactions that keep off each other's uncommitted changes *)

LEMMA Calm_Apart ==
    ASSUME Known, Known', ApartInv, NEW n, Calm(n)
    PROVE  ApartInv'
<1>1. /\ History \in Seq(LogRecord) /\ History' \in Seq(LogRecord)
      /\ DOMAIN History = 1 .. Len(History) /\ Len(History) \in Nat
      /\ DOMAIN History' = 1 .. Len(History') /\ Len(History') \in Nat
      /\ n \in Nat /\ n <= Len(History) /\ n <= Len(History')
      /\ Agree(History', History, n)
      /\ \A i \in 1 .. n : History'[i] = History[i]
  BY StepTypes, LogParts DEF Calm, Agree
<1> SUFFICES ASSUME NEW p \in Pages, NEW i \in UpdatesOn(History', p),
                    NEW j \in UpdatesOn(History', p), i < j,
                    History'[i].xid # History'[j].xid,
                    Changed(History'[i]) \cap Changed(History'[j])
                        \cap UserCells # {}
             PROVE  \E k \in i .. j :
                        /\ History'[k].type \in {"commit", "end"}
                        /\ History'[k].xid = History'[i].xid
  BY DEF ApartInv
<1>2. i \in 1 .. n /\ j \in 1 .. n /\ i \in Nat /\ j \in Nat /\ j <= n /\ i >= 1
  <2>1. i \in 1 .. Len(History') /\ j \in 1 .. Len(History') /\ i <= n /\ j <= n
    BY <1>1 DEF UpdatesOn, Calm
  <2> QED
    BY <1>1, <2>1
<1>3. /\ i \in UpdatesOn(History, p) /\ j \in UpdatesOn(History, p)
      /\ History'[i] = History[i] /\ History'[j] = History[j]
  BY <1>1, <1>2, SameUpdates
<1>4. PICK k \in i .. j : /\ History[k].type \in {"commit", "end"}
                          /\ History[k].xid = History[i].xid
  BY <1>3 DEF ApartInv
<1>5. k \in 1 .. n
  BY <1>1, <1>2, <1>4
<1> QED
  BY <1>1, <1>3, <1>4, <1>5

\* A write that keeps off the others' open changes overwrites ended ones.
LEMMA Wrote_Apart ==
    ASSUME Known, Known', ApartInv, NEW k, NEW p \in Pages,
           NEW cells, NEW e, Wrote(k, p, cells, e), pc = "idle",
           Uncontended(openTx[k], p, cells)
    PROVE  ApartInv'
<1> DEFINE n == Len(History)
<1>1. /\ n \in Nat /\ DOMAIN History' = 1 .. n + 1 /\ DOMAIN History = 1 .. n
      /\ Agree(History', History, n) /\ History'[n + 1] = e
      /\ \A i \in 1 .. n : History'[i] = History[i]
      /\ \A i \in 1 .. n + 1 : i \in 1 .. n \/ i = n + 1
      /\ History \in Seq(LogRecord) /\ History' \in Seq(LogRecord)
  BY WroteLog
<1> HIDE DEF n
<1> SUFFICES ASSUME NEW q \in Pages, NEW i \in UpdatesOn(History', q),
                    NEW j \in UpdatesOn(History', q), i < j,
                    History'[i].xid # History'[j].xid,
                    NEW o \in UserCells, o \in Changed(History'[i]),
                    o \in Changed(History'[j])
             PROVE  \E m \in i .. j :
                        /\ History'[m].type \in {"commit", "end"}
                        /\ History'[m].xid = History'[i].xid
  BY DEF ApartInv
<1>2. i \in 1 .. n + 1 /\ j \in 1 .. n + 1
  BY <1>1 DEF UpdatesOn
<1>3. i \in 1 .. n /\ i \in Nat /\ i >= 1 /\ i <= n
  BY <1>1, <1>2
<1>4. i \in UpdatesOn(History, q) /\ History'[i] = History[i]
  BY <1>1, <1>3, SameUpdates
<1>5. CASE j \in 1 .. n
  <2>1. j \in UpdatesOn(History, q) /\ History'[j] = History[j]
    BY <1>1, <1>5, SameUpdates
  <2>2. PICK m \in i .. j : /\ History[m].type \in {"commit", "end"}
                            /\ History[m].xid = History[i].xid
    BY <1>4, <2>1 DEF ApartInv
  <2>3. m \in 1 .. n
    BY <1>1, <1>3, <1>5, <2>2
  <2> QED
    BY <1>1, <1>4, <2>2, <2>3
<1>6. CASE j = n + 1
  <2> DEFINE h == History
             y == h[i].xid
  <2>1. /\ History'[j] = e /\ q = p /\ e.xid = openTx[k] /\ y # openTx[k]
        /\ o \in cells
    <3>1. History'[j] = e /\ IsUpdateOn(e, p) /\ IsUpdateOn(e, q)
      BY <1>1, <1>6 DEF UpdatesOn, Wrote
    <3>2. o \notin LsnCells
      BY TrackedCells
    <3> QED
      BY <1>4, <3>1, <3>2 DEF Wrote, IsUpdateOn
  <2>2. /\ i \in DOMAIN h /\ IsUpdateOn(h[i], p)
        /\ o \in Differing(h[i].before, h[i].after)
    BY <1>4, <2>1 DEF UpdatesOn, Changed
  <2>3. y \notin OpenXids
    BY <2>1, <2>2 DEF Uncontended
  <2>4. y \in Xids /\ h[i].type = "update"
    BY <1>1, <1>4, UpdateParts
  <2>5. y \notin Losers(h)
    <3>1. Losers(h) \subseteq OpenXids
      BY DEF Known, LoserInv, Away, Recovering
    <3> QED
      BY <2>3, <3>1
  <2>6. i \in UpdatesOf(h, y)
    BY <2>2, <2>4 DEF UpdatesOf, UpdatesIn
  <2>7. PICK m \in DOMAIN h : Ends(h[m], y)
    BY <2>4, <2>5, <2>6 DEF Losers, Ended
  <2>8. m >= i
    <3>1. HistInv(h)
      BY DEF Known, LoserInv
    <3>2. ~(m < i)
      BY <2>2, <2>4, <2>7, <3>1 DEF HistInv
    <3> QED
      BY <1>1, <1>3, <2>7, <3>2
  <2>9. m \in 1 .. n /\ m \in i .. j
    BY <1>1, <1>3, <1>6, <2>7, <2>8
  <2> QED
    BY <1>1, <1>4, <2>7, <2>9 DEF Ends
<1> QED
  BY <1>1, <1>2, <1>5, <1>6

LEMMA RestartLoses ==
    ASSUME TypeInv, Restart
    PROVE  Loses
  BY ReopenMoves DEF Restart

LEMMA Next_Apart ==
    ASSUME ~DirtyWrites, Known, Known', ReplayInv, ApartInv, [Next]_vars
    PROVE  ApartInv'
<1>1. TypeInv
  BY DEF Known, WalInv
<1>2. CASE Keeps \/ Loses
  BY <1>2, Calm_Apart, CalmKeeps, CalmLoses
<1>3. CASE LogsNoUpdate
  BY <1>3, Calm_Apart, CalmKeeps, CalmAdds DEF LogsNoUpdate, Adds
<1>4. CASE Steady
  BY <1>4, Calm_Apart, SteadyLog
<1>5. CASE UNCHANGED vars
  BY <1>2, <1>5 DEF vars, Keeps
<1>6. ASSUME NEW k \in Names, NEW p \in Pages, NEW cells \in WriteSets,
             NEW v \in Values, WritePage(k, p, cells, v)
      PROVE  ApartInv'
  <2>1. /\ pc = "idle" /\ Uncontended(openTx[k], p, cells)
        /\ Keeps \/ \E e \in LogRecord : Wrote(k, p, cells, e)
    BY <1>6, WriteFacts
  <2> QED
    BY <1>2, <2>1, Wrote_Apart
<1>7. CASE Kill \/ ExitDone \/ Restart
  BY <1>1, <1>2, <1>7, DownLoses, RestartLoses
<1> QED
  BY <1>1, <1>3, <1>4, <1>5, <1>6, <1>7, StepsSilent, TxBegin_Replay,
     CommitRecord_Replay, CommitEnd_Replay DEF Silent

-----------------------------------------------------------------------------
(* Steps that change no page *)

\* Only a start of the process changes what it found in wal.log.
LEMMA BootKept ==
    ASSUME [Next]_vars, pc # "down", pc' # "down"
    PROVE  bootLen' = bootLen
<1>1. CASE UNCHANGED vars
  BY <1>1 DEF vars
<1>2. CASE Serve
  BY <1>2 DEF Serve, TxBegin, CommitRecord, GetPage, AllocatePage, WritePage,
              StartFlush, Shutdown, recovery
<1>3. CASE Continue
  BY <1>3 DEF Continue, Install, CheckpointBegin, CheckpointEnd, WriteMaster,
              CommitEnd, FlushPage, FlushDone, ExitDone, Forget, recovery
<1>4. CASE Recover
  BY <1>4 DEF Recover, AnalyzeRecord, AnalysisDone, RedoSkip, RedoApply,
              EnsurePageExists, RedoFresh, RedoDone, UndoRecord,
              FinishCommitted, EndLoser, UndoDone, RecoveryDone, Boot, recovery
<1>5. CASE Restart \/ Kill
  BY <1>5 DEF Restart, Kill, Forget
<1> QED
  BY <1>1, <1>2, <1>3, <1>4, <1>5 DEF Next

\* A transaction that is open no longer has committed.
LEMMA OpenKept ==
    ASSUME Known, Known', [Next]_vars, pc # "down", pc' # "down"
    PROVE  OpenXids \subseteq OpenXids' \cup Committed'
<1>1. CASE openTx' = openTx
  BY <1>1, OpenSame
<1>2. ASSUME NEW k \in Names, TxBegin(k)
      PROVE  OpenXids \subseteq OpenXids'
  <2>1. openTx' = [openTx EXCEPT ![k] = nextXid] /\ openTx[k] = NoXid
    BY <1>2 DEF TxBegin
  <2>2. openTx \in [Names -> Xids \cup {NoXid}]
    BY DEF Known, WalInv, TypeInv, TypeOK
  <2> QED
    BY <2>1, <2>2 DEF OpenXids
<1>3. ASSUME NEW k \in Names, CommitRecord(k)
      PROVE  OpenXids \subseteq OpenXids' \cup Committed'
  <2> DEFINE x == openTx[k]
             e == TxRec("commit", x)
  <2>1. /\ openTx' = [openTx EXCEPT ![k] = NoXid] /\ x # NoXid
        /\ log' = FlushLog(Emit(log, e))
    BY <1>3 DEF CommitRecord
  <2>2. openTx \in [Names -> Xids \cup {NoXid}] /\ TypeInv
    BY DEF Known, WalInv, TypeInv, TypeOK
  <2>3. e \in LogRecord /\ e.type = "commit" /\ e.xid = x
    BY <2>1, <2>2, TxRecType DEF TxRec
  <2>4. History' = Append(History, e)
    BY <2>1, <2>3, CalmAdds DEF Adds, Emits
  <2>5. Has(History', "commit", x)
    <3>1. History \in Seq(LogRecord)
      BY StepTypes, LogParts
    <3> HIDE DEF e, x
    <3>2. /\ Len(History) + 1 \in DOMAIN Append(History, e)
          /\ Append(History, e)[Len(History) + 1] = e
      BY <2>3, <3>1
    <3> QED
      BY <2>3, <2>4, <3>2 DEF Has
  <2>6. x \in Committed'
    BY <2>5, LoggedIs
  <2> QED
    BY <2>1, <2>2, <2>6 DEF OpenXids
<1>4. CASE UNCHANGED vars
  BY <1>1, <1>4 DEF vars
<1>5. CASE Serve
  <2>1. \/ openTx' = openTx
        \/ \E k \in Names : TxBegin(k) \/ CommitRecord(k)
    BY <1>5 DEF Serve, GetPage, AllocatePage, WritePage, StartFlush, Shutdown,
                tables
  <2> QED
    BY <1>1, <1>2, <1>3, <2>1
<1>6. CASE Continue
  <2>1. openTx' = openTx
    BY <1>6 DEF Continue, Install, CheckpointBegin, CheckpointEnd, WriteMaster,
                CommitEnd, FlushPage, FlushDone, ExitDone, Forget, tables
  <2> QED
    BY <1>1, <2>1
<1>7. CASE Recover
  <2>1. openTx' = openTx
    BY <1>7 DEF Recover, AnalyzeRecord, AnalysisDone, RedoSkip, RedoApply,
                EnsurePageExists, RedoFresh, RedoDone, UndoRecord,
                FinishCommitted, EndLoser, UndoDone, RecoveryDone, Boot, tables
  <2> QED
    BY <1>1, <2>1
<1> QED
  BY <1>4, <1>5, <1>6, <1>7 DEF Next, Restart, Kill, Forget

LEMMA SameValue ==
    ASSUME NEW g, NEW h \in Seq(LogRecord), NEW is \in SUBSET DOMAIN h,
           \A i \in is : g[i] = h[i], NEW o
    PROVE  ValueOf(g, is, o) = ValueOf(h, is, o)
<1>1. is \in SUBSET (1 .. Len(h)) /\ Len(h) \in Nat
  BY LenProperties
<1>2. is # {} => Max(is) \in is
  BY <1>1, MaxIndex
<1> QED
  BY <1>2 DEF ValueOf

\* A step that adds no update keeps the pages recovery can repeat, and what
\* the log says of them.
LEMMA SamePast ==
    ASSUME Known, Known', Calm(Len(History)), bootLen' = bootLen
    PROVE  /\ \A i \in DOMAIN History :
                 i \in DOMAIN History' /\ History'[i] = History[i]
           /\ \A p \in Pages :
                 /\ UpdatesOn(History', p) = UpdatesOn(History, p)
                 /\ Repeatable(p)' <=> Repeatable(p)
<1> DEFINE n == Len(History)
           b == bootLen
<1>1. /\ History \in Seq(LogRecord) /\ History' \in Seq(LogRecord)
      /\ DOMAIN History = 1 .. n /\ n \in Nat
      /\ DOMAIN History' = 1 .. Len(History') /\ Len(History') \in Nat
      /\ n <= Len(History') /\ Agree(History', History, n)
      /\ \A i \in 1 .. n : History'[i] = History[i]
  BY StepTypes, LogParts DEF Calm, Agree
<1>2. b \in Nat /\ b <= n
  <2>1. b \in Nat /\ b <= Len(log.stable)
    BY DEF Known, WalInv, TypeInv, TypeOK, ScanInv
  <2>2. Len(log.stable) \in Nat /\ Len(log.stable) <= n
    BY StepTypes, LogParts
  <2> QED
    BY <1>1, <2>1, <2>2
<1>3. \A i \in DOMAIN History :
         i \in DOMAIN History' /\ History'[i] = History[i]
  BY <1>1
<1>4. \A p \in Pages : UpdatesOn(History', p) = UpdatesOn(History, p)
  <2> SUFFICES ASSUME NEW p \in Pages
               PROVE  UpdatesOn(History', p) = UpdatesOn(History, p)
    OBVIOUS
  <2>1. \A i \in UpdatesOn(History', p) : i \in 1 .. n
    BY <1>1 DEF UpdatesOn, Calm
  <2>2. \A i \in UpdatesOn(History, p) : i \in 1 .. n
    BY <1>1 DEF UpdatesOn
  <2>3. \A i \in 1 .. n :
           i \in UpdatesOn(History', p) <=> i \in UpdatesOn(History, p)
    BY <1>1, SameUpdates
  <2> HIDE DEF n
  <2> QED
    BY <2>1, <2>2, <2>3
<1>5. RolledBack(bootLen)' = RolledBack(bootLen)
  <2>1. \A i \in 1 .. b : History'[i] = History[i]
    BY <1>1, <1>2
  <2>2. \A t : {History'[i].xid : i \in {j \in 1 .. b : History'[j].type = t}}
               = {History[i].xid : i \in {j \in 1 .. b : History[j].type = t}}
    BY <2>1
  <2>3. \A t : Logged(t, bootLen)' = Logged(t, bootLen)
    BY <2>2 DEF Logged
  <2> QED
    BY <2>3 DEF RolledBack
<1>6. \A p \in Pages : Repeatable(p)' <=> Repeatable(p)
  <2> SUFFICES ASSUME NEW p \in Pages
               PROVE  Repeatable(p)' <=> Repeatable(p)
    OBVIOUS
  <2>1. Updates(p) = UpdatesOn(History, p) /\ Updates(p)' = UpdatesOn(History', p)
    BY DEF Updates, UpdatesOn
  <2>2. \A i \in Updates(p) : History'[i] = History[i]
    BY <1>3, <2>1 DEF UpdatesOn
  <2> QED
    BY <1>4, <1>5, <2>1, <2>2 DEF Repeatable
<1> QED
  BY <1>3, <1>4, <1>6

LEMMA Steady_Served ==
    ASSUME Known, Known', ServedInv, Steady, bootLen' = bootLen,
           \A i \in DOMAIN History :
               History[i].type = "update" => (Remains(i)' <=> Remains(i))
    PROVE  ServedInv'
<1> SUFFICES ASSUME NEW p \in Pages, Repeatable(p)', NEW o \in UserCells
             PROVE  Now(p)'[o] = ValueOf(History', Remaining(p, o)', o)
  BY DEF ServedInv
<1>1. /\ Repeatable(p) /\ UpdatesOn(History', p) = UpdatesOn(History, p)
      /\ \A i \in DOMAIN History : History'[i] = History[i]
  BY SteadyLog, SamePast
<1>2. Now(p)'[o] = Now(p)[o] /\ pc \notin Replaying
  BY TrackedCells DEF Steady
<1>3. Now(p)[o] = ValueOf(History, Remaining(p, o), o)
  BY <1>1, <1>2 DEF ServedInv
<1>4. \A i \in UpdatesOn(History, p) :
         /\ i \in DOMAIN History /\ History[i].type = "update"
         /\ History'[i] = History[i] /\ (Remains(i)' <=> Remains(i))
  BY <1>1 DEF UpdatesOn, IsUpdateOn
<1>5. Remaining(p, o)' = Remaining(p, o)
  <2>1. Remaining(p, o)' = {i \in UpdatesOn(History', p) :
                               o \in Changed(History'[i]) /\ Remains(i)'}
    BY DEF Remaining
  <2>2. \A i \in UpdatesOn(History, p) :
            o \in Changed(History'[i]) /\ Remains(i)'
                <=> o \in Changed(History[i]) /\ Remains(i)
    BY <1>4
  <2> QED
    BY <1>1, <2>1, <2>2 DEF Remaining
<1>6. Remaining(p, o) \in SUBSET DOMAIN History
  BY DEF Remaining, UpdatesOn
<1>7. ValueOf(History', Remaining(p, o), o) = ValueOf(History, Remaining(p, o), o)
  <2>1. History \in Seq(LogRecord)
    BY StepTypes, LogParts
  <2> QED
    BY <1>1, <1>6, <2>1, SameValue
<1> QED
  BY <1>2, <1>3, <1>5, <1>7

\* Outside Undo, what remains are the committed and the open transactions,
\* and one may become the other.
LEMMA SteadyRemains ==
    ASSUME Known, Known', Steady, [Next]_vars, pc \notin Undoing,
           pc' \notin Undoing, bootLen' = bootLen
    PROVE  \A i \in DOMAIN History :
               History[i].type = "update" => (Remains(i)' <=> Remains(i))
<1> SUFFICES ASSUME NEW i \in DOMAIN History, History[i].type = "update"
             PROVE  Remains(i)' <=> Remains(i)
  OBVIOUS
<1> DEFINE x == History[i].xid
<1>1. /\ pc \notin Replaying /\ pc' \notin Replaying
      /\ pc # "down" /\ pc' # "down"
  BY DEF Steady, Replaying
<1>2. History'[i] = History[i]
  BY SteadyLog, SamePast
<1>3. Trusted = Committed \cup OpenXids /\ Trusted' = Committed' \cup OpenXids'
  BY <1>1 DEF Trusted
<1>4. x \in Trusted' => x \in Trusted
  BY SteadyTrusts DEF Trusts
<1>5. x \in Trusted => x \in Trusted'
  BY <1>1, <1>3, SteadyCommitted, OpenKept
<1>6. Remains(i) <=> x \in Committed \cup OpenXids
  BY DEF Remains
<1>7. Remains(i)' <=> x \in Committed' \cup OpenXids'
  BY <1>2 DEF Remains
<1> QED
  BY <1>3, <1>4, <1>5, <1>6, <1>7

LEMMA EndLoser_Served ==
    ASSUME Known, Known', ReplayInv, RepeatedInv, ServedInv, EndLoser
    PROVE  RepeatedInv' /\ ServedInv'
<1>1. /\ pc = "endloser" /\ pc' = "undo" /\ toUndo' = toUndo
      /\ UNCHANGED <<bootLen, filePages, openTx>> /\ pc \in Recovering
      /\ pc \in Undoing /\ pc' \in Undoing
  BY DEF EndLoser, Recovering, Undoing
<1>2. Steady
  BY EndLoser_Replay
<1>3. Calm(Len(History))
  BY <1>2, SteadyLog
<1>4. Committed' = Committed
  <2>1. OpenXids = {}
    BY <1>1, NoOpen DEF Known, Base, Away
  <2> QED
    BY <1>2, <2>1, SteadyCommitted
<1>5. \A i \in DOMAIN History :
         History[i].type = "update" => (Remains(i)' <=> Remains(i))
  <2>1. \A i \in DOMAIN History : History'[i] = History[i]
    BY <1>1, <1>3, SamePast
  <2> QED
    BY <1>1, <1>4, <2>1 DEF Remains
<1>6. ServedInv'
  BY <1>1, <1>2, <1>5, Steady_Served
<1>7. RepeatedInv'
  <2> SUFFICES ASSUME NEW p \in Pages, Repeatable(p)'
               PROVE  /\ UpdatesOn(History', p) # {} => Allocated(p)'
                      /\ \A i \in UpdatesOn(History', p) : Link(History', p, i)
    BY DEF RepeatedInv
  <2>1. Repeatable(p) /\ UpdatesOn(History', p) = UpdatesOn(History, p)
    BY <1>1, <1>3, SamePast
  <2>2. /\ UpdatesOn(History, p) # {} => Allocated(p)
        /\ \A i \in UpdatesOn(History, p) : Link(History, p, i)
    BY <1>1, <2>1 DEF RepeatedInv
  <2>3. Allocated(p)' <=> Allocated(p)
    BY <1>1 DEF Allocated
  <2>4. /\ History \in Seq(LogRecord) /\ History' \in Seq(LogRecord)
        /\ Len(History) \in Nat /\ DOMAIN History = 1 .. Len(History)
        /\ Agree(History', History, Len(History))
    BY <1>3, StepTypes, LogParts DEF Calm
  <2>5. \A i \in UpdatesOn(History, p) : i \in 1 .. Len(History)
    BY <2>4 DEF UpdatesOn
  <2>6. \A i \in UpdatesOn(History, p) : Link(History', p, i)
    BY <2>2, <2>4, <2>5, SameLink
  <2> QED
    BY <2>1, <2>2, <2>3, <2>6
<1> QED
  BY <1>6, <1>7

LEMMA UndoDone_Served ==
    ASSUME Known, Known', ReplayInv, ServedInv, UndoDone
    PROVE  ServedInv'
<1>1. /\ pc = "undo" /\ pc' = "finish" /\ UNCHANGED <<bootLen, log, openTx>>
      /\ \A x \in Xids : toUndo[x] = NoLsn
      /\ pc \in Undoing /\ pc' \notin Undoing /\ pc \in Recovering
  BY DEF UndoDone, recovery, tables, Undoing, Recovering
<1>2. Steady
  BY UndoDone_Replay
<1>3. History' = History /\ Committed' = Committed
  BY <1>1 DEF History, Committed, Logged
<1>4. OpenXids = {} /\ OpenXids' = {}
  BY <1>1, NoOpen, OpenSame DEF Known, Base, Away
<1>5. \A i \in DOMAIN History : History[i].type = "update" =>
         History[i].xid \in Xids /\ History[i].lsn \in Nat
  BY StepTypes, LogParts, RecordIds, HistoryLsns
<1>6. \A i \in DOMAIN History :
         History[i].type = "update" => (Remains(i)' <=> Remains(i))
  <2> SUFFICES ASSUME NEW i \in DOMAIN History, History[i].type = "update"
               PROVE  Remains(i)' <=> Remains(i)
    OBVIOUS
  <2>1. ~(History[i].lsn <= toUndo[History[i].xid])
    BY <1>1, <1>5 DEF NoLsn
  <2> QED
    BY <1>1, <1>3, <1>4, <2>1 DEF Remains
<1> QED
  BY <1>1, <1>2, <1>6, Steady_Served

\* After Redo the files show the whole log, and all of it remains: of the
\* losers Undo has taken back nothing yet.
LEMMA RedoDone_Served ==
    ASSUME ~CrashInRecovery, Known, Known', ReplayInv, RedoDone
    PROVE  RepeatedInv' /\ ServedInv'
<1> DEFINE h == History
           n == Len(h)
<1>1. /\ pc = "redo" /\ pc' = "undo" /\ scan > bootLen
      /\ log' = log /\ openTx' = openTx /\ bootLen' = bootLen
      /\ toUndo' = [x \in Xids |-> IF txTable[x].status = "active"
                                   THEN txTable[x].lastLSN ELSE NoLsn]
      /\ UNCHANGED <<disk, fileSize, filePages, pool, pending, dpt>>
      /\ pc' \in Undoing
  BY DEF RedoDone, durable, tables, Undoing
<1>2. /\ h = log.stable /\ bootLen = n /\ h \in Seq(LogRecord) /\ n \in Nat
      /\ DOMAIN h = 1 .. n /\ Ordered(h, log.next)
      /\ pc \in Recovering /\ pc \in Replaying /\ pc' \in Recovering
      /\ pc' \notin Replaying
  BY <1>1, AnalyzedLog DEF Recovering, Replaying
<1>3. /\ History' = h /\ Calm(n) /\ Committed' = Committed
  BY <1>1, <1>2, Rereads
<1>4. \A p \in Pages : Repeatable(p)' <=> Repeatable(p)
  BY <1>1, <1>3, SamePast
<1>5. ASSUME NEW p \in Pages, Repeatable(p), NEW i \in UpdatesOn(h, p)
      PROVE  Remains(i)'
  <2> DEFINE x  == h[i].xid
             is == UpTo(h, n, x)
  <2>1. /\ i \in 1 .. n /\ h[i].type = "update" /\ x \in Xids
        /\ h[i].lsn \in Nat
    BY <1>2, <1>5, UpdateParts
  <2>2. x \notin RolledBack(n)
    BY <1>2, <1>5 DEF Repeatable, Updates, UpdatesOn
  <2>3. Found(txTable[x], h, n, x)
    BY <1>1, <1>2, <2>1 DEF Known, LoserInv, AnalysisInv, Analyzing, Follows
  <2>4. i \in is
    BY <1>2, <2>1 DEF UpTo, UpdatesOf, UpdatesIn
  <2>5. CASE x \in Committed
    BY <1>1, <1>3, <2>5 DEF Remains
  <2>6. CASE x \notin Committed
    <3>1. ~Has(h, "commit", x) /\ ~Has(h, "end", x)
      BY <2>2, <2>6, LoggedIs
    <3>2. ~Ended(h, n, x)
      BY <3>1 DEF Has, Ended, Ends
    <3>3. txTable[x] = Active(LsnOfLast(h, is))
      BY <2>3, <2>4, <3>2 DEF Found
    <3>4. is \in SUBSET (1 .. n)
      BY <1>2 DEF UpTo, UpdatesOf, UpdatesIn
    <3> DEFINE m == Max(is)
    <3>5. m \in is /\ i <= m
      BY <1>2, <2>4, <3>4, MaxIndex
    <3>6. toUndo'[x] = h[m].lsn
      BY <1>1, <2>1, <2>4, <3>3 DEF Active, LsnOfLast
    <3> HIDE DEF m, is, x
    <3>7. m \in 1 .. n /\ h[m].lsn \in Nat
      BY <1>2, <3>4, <3>5, HistoryLsns
    <3> HIDE DEF h, n
    <3>8. h[i].lsn <= h[m].lsn
      <4>1. i = m \/ i < m
        BY <2>1, <3>5, <3>7
      <4> QED
        BY <1>2, <2>1, <3>7, <4>1 DEF Ordered
    <3> QED
      BY <1>1, <1>3, <3>6, <3>8 DEF Remains, x
  <2> QED
    BY <2>5, <2>6
<1>6. ASSUME NEW p \in Pages, Repeatable(p)
      PROVE  /\ UpdatesOn(h, p) # {} => Allocated(p)
             /\ \A i \in UpdatesOn(h, p) : Link(h, p, i)
             /\ Shown(disk[p], h, p, n)
  <2>1. /\ SoundTo(p, n) /\ Shown(disk[p], h, p, n)
        /\ \A i \in UpdatesOn(h, p) : Link(h, p, i)
    BY <1>1, <1>6, RedoneShows
  <2>2. ASSUME NEW i \in UpdatesOn(h, p) PROVE Allocated(p)
    <3>1. disk[p] \in Image
      BY DEF Known, Base, TypeInv, TypeOK
    <3>2. i \in 1 .. n /\ h[i].lsn \in Nat /\ h[i].lsn # 0
      BY <1>2, <1>6, <2>2, UpdateParts DEF Repeatable, Updates, UpdatesOn
    <3>3. h[i].lsn <= ReadPageLsn(disk[p])
      BY <1>2, <2>1, <3>1, <3>2, LsnShown DEF SoundTo
    <3>4. disk[p] # ZeroImage
      BY <3>2, <3>3, ZeroLsn
    <3>5. /\ ~(p[2] >= fileSize[p[1]]) /\ p[1] \in Files /\ p[2] \in Nat
      BY <3>4, LogBounds DEF ReplayInv, StoreInv, BlankBeyond, Pages
    <3>6. /\ fileSize[p[1]] \in Nat /\ filePages[p[1]] \in Nat
          /\ fileSize[p[1]] <= filePages[p[1]]
      <4>1. pc # "down"
        BY <1>1
      <4> QED
        BY <3>5, <4>1, LogBounds
           DEF Known, Base, TypeInv, TypeOK, ReplayInv, StoreInv, SizesCounted
    <3> QED
      BY <3>5, <3>6 DEF Allocated
  <2> QED
    BY <2>1, <2>2
<1>7. RepeatedInv'
  <2>1. \A p \in Pages : Allocated(p)' <=> Allocated(p)
    BY <1>1 DEF Allocated
  <2> QED
    BY <1>3, <1>4, <1>6, <2>1 DEF RepeatedInv
<1>8. ServedInv'
  <2> SUFFICES ASSUME NEW p \in Pages, Repeatable(p), NEW o \in UserCells
               PROVE  Now(p)'[o] = ValueOf(History', Remaining(p, o)', o)
    BY <1>4 DEF ServedInv
  <2>1. Now(p)' = disk[p]
    <3>1. Now(p)' = disk'[p]
      BY <1>1, <1>2, NothingCached DEF Now, CurrentBytes, Cached
    <3> QED
      BY <1>1, <3>1
  <2>2. Remaining(p, o)' = {i \in UpdatesOn(History', p) :
                               o \in Changed(History'[i]) /\ Remains(i)'}
    BY DEF Remaining
  <2>3. \A i \in UpdatesOn(h, p) : i <= n /\ Remains(i)'
    BY <1>2, <1>5 DEF UpdatesOn
  <2>4. Remaining(p, o)' = Writers(h, p, o, n)
    BY <1>3, <2>2, <2>3 DEF Writers
  <2>5. disk[p][o] = At(h, p, o, n)
    BY <1>6, TrackedCells DEF Shown
  <2> QED
    BY <1>3, <2>1, <2>4, <2>5 DEF At
<1> QED
  BY <1>7, <1>8

\* Undo takes the last change that remains of a loser off the list ...
LEMMA UndoneOne ==
    ASSUME Known, UndoListInv, NEW x \in Xids, UndoRecord(x), History' = History,
           Committed' = Committed, pc' \in Undoing
    PROVE  \E i \in DOMAIN History :
              LET rec == History[i]
              IN  /\ i <= Len(log.stable) /\ i <= bootLen
                  /\ rec \in UpdateRecord /\ rec.xid = x /\ rec.lsn = toUndo[x]
                  /\ x \notin Committed /\ Restore(rec)
                  /\ \A j \in DOMAIN History : History[j].type = "update" =>
                        (Remains(j)' <=> Remains(j) /\ j # i)
<1> DEFINE h == History
<1>1. pc \in Undoing
  BY DEF UndoRecord, Undoing
<1>2. PICK i \in DOMAIN h :
         /\ i <= Len(log.stable) /\ i <= bootLen
         /\ h[i] \in UpdateRecord /\ h[i].xid = x
         /\ h[i].lsn = toUndo[x] /\ x \notin Committed
         /\ Restore(h[i]) /\ toUndo' = [toUndo EXCEPT ![x] = h[i].prev]
         /\ h[i].prev # NoLsn =>
               \E j \in DOMAIN h :
                   /\ j < i /\ h[j].type = "update" /\ h[j].xid = x
                   /\ h[j].lsn = h[i].prev
                   /\ \A k \in DOMAIN h :
                         h[k].type = "update" /\ h[k].xid = x /\ k < i => k <= j
         /\ h[i].prev = NoLsn =>
               \A k \in DOMAIN h : h[k].type = "update" /\ h[k].xid = x => k >= i
  BY Undoes
<1>3. /\ h \in Seq(LogRecord) /\ Len(h) \in Nat /\ DOMAIN h = 1 .. Len(h)
      /\ Ordered(h, log.next) /\ toUndo \in [Xids -> Lsns]
  <2>1. /\ log \in LogState /\ h = HistoryOf(log) /\ Ordered(h, log.next)
        /\ toUndo \in [Xids -> Lsns]
    BY DEF Known, Base, TypeInv, TypeOK, InOrder, HistoryOf, History
  <2> QED
    BY <2>1, LogParts
<1>4. \A j \in DOMAIN h : /\ h[j].lsn \in Nat
                          /\ h[j].type = "update" => h[j].xid \in Xids
  BY <1>3, HistoryLsns, RecordIds
<1>5. \A y \in Xids : toUndo'[y] = IF y = x THEN h[i].prev ELSE toUndo[y]
  BY <1>2, <1>3
<1>6. ASSUME NEW j \in DOMAIN h, h[j].type = "update"
      PROVE  /\ Remains(j) <=> h[j].xid \in Committed
                               \/ h[j].lsn <= toUndo[h[j].xid]
             /\ Remains(j)' <=> h[j].xid \in Committed
                                \/ h[j].lsn <= toUndo'[h[j].xid]
  BY <1>1 DEF Remains
<1>7. ASSUME NEW j \in DOMAIN h, NEW m \in DOMAIN h
      PROVE  h[j].lsn <= h[m].lsn <=> j <= m
  <2> HIDE DEF h
  <2>1. j \in Nat /\ m \in Nat /\ h[j].lsn \in Nat /\ h[m].lsn \in Nat
    BY <1>3, <1>4
  <2>2. j < m => h[j].lsn < h[m].lsn
    BY <1>3 DEF Ordered
  <2>3. m < j => h[m].lsn < h[j].lsn
    BY <1>3 DEF Ordered
  <2> QED
    BY <2>1, <2>2, <2>3
<1>8. ASSUME NEW j \in DOMAIN h, h[j].type = "update"
      PROVE  Remains(j)' <=> Remains(j) /\ j # i
  <2> DEFINE b == h[i].prev
  <2>1. CASE h[j].xid # x
    <3>1. toUndo'[h[j].xid] = toUndo[h[j].xid]
      BY <1>4, <1>5, <1>8, <2>1
    <3> QED
      BY <1>2, <1>6, <1>8, <2>1, <3>1
  <2>2. CASE h[j].xid = x
    <3>1. toUndo'[x] = b
      BY <1>5
    <3>2. Remains(j) <=> j <= i
      BY <1>2, <1>6, <1>7, <1>8, <2>2
    <3>3. Remains(j)' <=> h[j].lsn <= b
      BY <1>2, <1>6, <1>8, <2>2, <3>1
    <3>4. i \in Nat /\ j \in Nat /\ h[j].lsn \in Nat
      BY <1>3, <1>4
    <3>5. CASE b = NoLsn
      <4>1. j >= i
        BY <1>2, <1>8, <2>2, <3>5
      <4>2. ~(h[j].lsn <= b)
        BY <3>4, <3>5 DEF NoLsn
      <4> QED
        BY <3>2, <3>3, <3>4, <4>1, <4>2
    <3>6. CASE b # NoLsn
      <4>1. PICK m \in DOMAIN h :
               /\ m < i /\ h[m].lsn = b
               /\ \A k \in DOMAIN h :
                     h[k].type = "update" /\ h[k].xid = x /\ k < i => k <= m
        BY <1>2, <3>6
      <4>2. h[j].lsn <= b <=> j <= m
        BY <1>7, <4>1
      <4>3. m \in Nat /\ (j < i => j <= m)
        BY <1>3, <1>8, <2>2, <4>1
      <4> QED
        BY <3>2, <3>3, <3>4, <4>1, <4>2, <4>3
    <3> QED
      BY <3>5, <3>6
  <2> QED
    BY <2>1, <2>2
<1> QED
  BY <1>2, <1>8

\* ... and gives its cells the values they had: what remains of each is what
\* came before it, since no other transaction has changed the cell after it.
LEMMA WhatRemains ==
    ASSUME Known, UndoListInv, ApartInv, pc = "undo", NEW x \in Xids,
           x \notin Committed, NEW p \in Pages, Repeatable(p),
           NEW i \in UpdatesOn(History, p), History[i].xid = x, i <= bootLen,
           History[i].lsn = toUndo[x],
           NEW o \in UserCells, o \in Changed(History[i])
    PROVE  /\ i \in Remaining(p, o)
           /\ Remaining(p, o) \ {i} = Writers(History, p, o, i - 1)
<1> DEFINE h == History
<1>1. /\ h \in Seq(LogRecord) /\ Len(h) \in Nat /\ DOMAIN h = 1 .. Len(h)
      /\ Ordered(h, log.next) /\ bootLen \in Nat
  <2>1. /\ log \in LogState /\ h = HistoryOf(log) /\ Ordered(h, log.next)
        /\ bootLen \in Nat
    BY DEF Known, Base, TypeInv, TypeOK, InOrder, HistoryOf, History
  <2> QED
    BY <2>1, LogParts
<1>2. ASSUME NEW j \in UpdatesOn(h, p)
      PROVE  /\ j \in 1 .. Len(h) /\ j \in Nat /\ h[j].lsn \in Nat
             /\ h[j].type = "update" /\ h[j].xid \in Xids
             /\ Remains(j) <=> h[j].xid \in Committed
                               \/ h[j].lsn <= toUndo[h[j].xid]
             /\ j < i => h[j].lsn < h[i].lsn
             /\ i < j => h[i].lsn < h[j].lsn
  <2>1. /\ j \in 1 .. Len(h) /\ h[j].lsn \in Nat
        /\ h[j].type = "update" /\ h[j].xid \in Xids
    BY <1>1, UpdateParts
  <2>2. Remains(j) <=> h[j].xid \in Committed \/ h[j].lsn <= toUndo[h[j].xid]
    BY DEF Remains, Undoing
  <2>3. i \in DOMAIN h /\ j \in DOMAIN h
    BY DEF UpdatesOn
  <2> HIDE DEF h
  <2> QED
    BY <1>1, <2>1, <2>2, <2>3 DEF Ordered
<1>3. i \in 1 .. Len(h) /\ i \in Nat /\ h[i].lsn \in Nat /\ Remains(i)
  <2>1. h[i].lsn <= toUndo[h[i].xid]
    BY <1>2
  <2> QED
    BY <1>2, <2>1
<1>4. \A k \in DOMAIN h : h[k].type \in {"commit", "end"} => h[k].xid # x
  <2>1. toUndo[x] # NoLsn
    BY <1>3 DEF NoLsn
  <2> QED
    BY <2>1 DEF UndoListInv
<1>5. ASSUME NEW j \in UpdatesOn(h, p), o \in Changed(h[j]), i < j
      PROVE  ~Remains(j)
  <2>1. CASE h[j].xid = x
    <3>1. ~(h[j].lsn <= toUndo[x])
      BY <1>2, <1>3, <1>5
    <3> QED
      BY <1>2, <2>1, <3>1
  <2>2. CASE h[j].xid # x
    <3>1. PICK k \in i .. j : h[k].type \in {"commit", "end"} /\ h[k].xid = x
      BY <1>5, <2>2 DEF ApartInv
    <3>2. k \in DOMAIN h
      BY <1>1, <1>2, <1>3, <3>1
    <3> QED
      BY <1>4, <3>1, <3>2
  <2> QED
    BY <2>1, <2>2
<1>6. ASSUME NEW j \in UpdatesOn(h, p), o \in Changed(h[j]), j < i
      PROVE  Remains(j)
  <2> DEFINE y == h[j].xid
  <2>1. CASE y = x
    <3>1. h[j].lsn <= toUndo[x]
      BY <1>2, <1>3, <1>6
    <3> QED
      BY <1>2, <2>1, <3>1
  <2>2. CASE y # x
    <3>1. PICK k \in j .. i : h[k].type \in {"commit", "end"} /\ h[k].xid = y
      BY <1>6, <2>2 DEF ApartInv
    <3>2. k \in 1 .. bootLen /\ k \in 1 .. Len(h)
      BY <1>1, <1>2, <1>3, <3>1
    <3>3. CASE y \in Committed
      BY <1>2, <3>3
    <3>4. CASE y \notin Committed
      <4>1. \A m \in DOMAIN h : h[m].type = "commit" => h[m].xid # y
        BY <1>1, <3>4 DEF Committed, Logged
      <4>2. h[k].type = "end"
        BY <1>1, <3>1, <3>2, <4>1
      <4>3. y \in Logged("end", bootLen)
        BY <3>1, <3>2, <4>2 DEF Logged
      <4>4. bootLen <= Len(h)
        <5>1. /\ bootLen <= Len(log.stable)
              /\ Len(log.stable) \in Nat /\ Len(log.stable) <= Len(h)
          <6>1. log \in LogState /\ h = HistoryOf(log)
            BY DEF Known, Base, TypeInv, TypeOK, HistoryOf, History
          <6> QED
            BY <6>1, LogParts DEF Known, Base, TypeInv, ScanInv
        <5> QED
          BY <1>1, <5>1
      <4>5. \A m \in 1 .. bootLen : m \in DOMAIN h
        BY <1>1, <4>4
      <4>6. y \notin Logged("commit", bootLen)
        BY <4>1, <4>5 DEF Logged
      <4>7. j \in Updates(p)
        BY DEF UpdatesOn, Updates
      <4> QED
        BY <4>3, <4>6, <4>7 DEF Repeatable, RolledBack
    <3> QED
      BY <3>3, <3>4
  <2> QED
    BY <2>1, <2>2
<1>7. ASSUME NEW j \in UpdatesOn(h, p), o \in Changed(h[j])
      PROVE  Remains(j) /\ j # i <=> j <= i - 1
  <2>1. j < i \/ j = i \/ i < j
    BY <1>2, <1>3
  <2> QED
    BY <1>2, <1>3, <1>5, <1>6, <1>7, <2>1
<1>8. i \in Remaining(p, o)
  BY <1>3 DEF Remaining
<1>9. Remaining(p, o) \ {i} = Writers(h, p, o, i - 1)
  BY <1>7 DEF Remaining, Writers
<1> QED
  BY <1>8, <1>9

LEMMA UndoRecord_Served ==
    ASSUME Known, Known', ReplayInv, ApartInv, RepeatedInv, ServedInv,
           NEW x \in Xids, UndoRecord(x)
    PROVE  RepeatedInv' /\ ServedInv'
<1> DEFINE h == History
<1>1. /\ pc = "undo" /\ pc' \in {"undo", "endloser"} /\ log' = log
      /\ UNCHANGED <<pool, pending, openTx, dpt, bootLen>>
  BY DEF UndoRecord, tables
<1>2. /\ pc \in Recovering /\ pc \notin Replaying /\ pc' \in Recovering
      /\ pc' \notin Replaying /\ pc # "down" /\ pc \in Undoing /\ pc' \in Undoing
  BY <1>1 DEF Replaying, Recovering, Undoing
<1>3. /\ UndoListInv /\ BlankBeyond /\ SizesCounted
      /\ fileSize \in PageCounts /\ filePages \in PageCounts
      /\ disk \in [Pages -> Image]
  BY <1>2 DEF ReplayInv, StoreInv, Known, Base, TypeInv, TypeOK, PageCounts
<1>4. History' = History /\ Calm(Len(History)) /\ Committed' = Committed
  BY <1>1, <1>2, Rereads
<1>5. \A p \in Pages : Repeatable(p)' <=> Repeatable(p)
  BY <1>1, <1>4, SamePast
<1>6. PICK i \in DOMAIN History :
         /\ i <= bootLen /\ History[i] \in UpdateRecord /\ History[i].xid = x
         /\ History[i].lsn = toUndo[x] /\ x \notin Committed
         /\ Restore(History[i])
         /\ \A j \in DOMAIN History : History[j].type = "update" =>
               (Remains(j)' <=> Remains(j) /\ j # i)
  <2> HIDE DEF h
  <2>1. UndoListInv /\ History' = History /\ Committed' = Committed
        /\ pc' \in Undoing
    BY <1>2, <1>3, <1>4
  <2> QED
    BY <2>1, UndoneOne, Zenon
<1> DEFINE q == h[i].page
           old == RestoreBefore(disk[q], h[i])
<1>7. q \in Pages /\ i \in UpdatesOn(h, q) /\ old \in Image
  BY <1>3, <1>6, ImageTypes DEF UpdateRecord, UpdatesOn, IsUpdateOn
<1>8. /\ \A p \in Pages : p # q => disk'[p] = disk[p]
      /\ Allocated(q) => disk'[q] = old
      /\ ~Allocated(q) => disk'[q] = disk[q]
      /\ \A p \in Pages : Allocated(p) => Allocated(p)'
  <2>1. CASE Allocated(q)
    <3>1. DiskWrite(q, old, filePages)
      BY <1>6, <2>1 DEF Restore, UpdateRecord
    <3> HIDE DEF q, old
    <3>2. /\ disk'[q] = old /\ \A p \in Pages : p # q => disk'[p] = disk[p]
          /\ \A f \in Files : filePages[f] <= filePages'[f]
      BY <1>3, <1>7, <3>1, DiskWriteStore DEF SizesCounted
    <3>3. filePages' \in PageCounts
      BY DEF Known, Base, TypeInv, TypeOK, PageCounts
    <3>4. ASSUME NEW p \in Pages, Allocated(p) PROVE Allocated(p)'
      <4> PICK now \in PageCounts : now = filePages'
        BY <3>3
      <4>1. /\ p[1] \in Files /\ p[2] \in Nat
            /\ filePages[p[1]] <= now[p[1]] /\ p[2] < filePages[p[1]]
        BY <3>2, <3>4, LogBounds DEF Pages, Allocated
      <4>2. filePages[p[1]] \in Nat /\ now[p[1]] \in Nat
        BY <1>3, <4>1, LogBounds DEF PageCounts
      <4>3. p[2] < now[p[1]]
        BY <4>1, <4>2
      <4> QED
        BY <4>3 DEF Allocated
    <3> QED
      BY <2>1, <3>2, <3>4
  <2>2. CASE ~Allocated(q)
    <3>1. UNCHANGED <<disk, fileSize, filePages>>
      BY <1>6, <2>2 DEF Restore
    <3> QED
      BY <2>2, <3>1 DEF Allocated
  <2> QED
    BY <2>1, <2>2
<1>9. RepeatedInv'
  BY <1>2, <1>4, <1>5, <1>8 DEF RepeatedInv
<1>10. ASSUME NEW p \in Pages, Repeatable(p), NEW o \in UserCells
       PROVE  Now(p)'[o] = ValueOf(h, Remaining(p, o) \ {i}, o)
  <2>1. Now(p)' = disk'[p] /\ Now(p) = disk[p]
    BY <1>1, <1>2, NothingCached DEF Now, CurrentBytes, Cached
  <2>2. disk[p][o] = ValueOf(h, Remaining(p, o), o)
    BY <1>2, <1>10, <2>1 DEF ServedInv
  <2>3. o \in Offsets /\ o \in Track
    BY TrackedCells
  <2>4. CASE p = q /\ o \in Changed(h[i])
    <3>1. /\ i \in UpdatesOn(h, p) /\ Allocated(p) /\ Link(h, p, i)
      BY <1>2, <1>7, <1>10, <2>4 DEF RepeatedInv
    <3>2. disk'[p][o] = h[i].before[o]
      BY <1>8, <2>3, <2>4, <3>1 DEF RestoreBefore, Changed
    <3>3. h[i].before[o] = At(h, p, o, i - 1)
      BY <2>3, <2>4, <3>1 DEF Link
    <3>4. Remaining(p, o) \ {i} = Writers(h, p, o, i - 1)
      BY <1>1, <1>3, <1>6, <1>10, <2>4, <3>1, WhatRemains
    <3> QED
      BY <2>1, <3>2, <3>3, <3>4 DEF At
  <2>5. CASE p # q
    <3>1. i \notin Remaining(p, o)
      BY <2>5 DEF Remaining, UpdatesOn, IsUpdateOn
    <3>2. Remaining(p, o) \ {i} = Remaining(p, o)
      BY <3>1
    <3> QED
      BY <1>8, <2>1, <2>2, <2>5, <3>2
  <2>6. CASE p = q /\ o \notin Changed(h[i])
    <3>1. i \notin Remaining(p, o)
      BY <2>6 DEF Remaining
    <3>2. Remaining(p, o) \ {i} = Remaining(p, o)
      BY <3>1
    <3>3. disk'[p][o] = disk[p][o]
      BY <1>8, <2>3, <2>6 DEF RestoreBefore, Changed
    <3> QED
      BY <2>1, <2>2, <3>2, <3>3
  <2> QED
    BY <2>4, <2>5, <2>6
<1>11. ServedInv'
  <2> SUFFICES ASSUME NEW p \in Pages, Repeatable(p), NEW o \in UserCells
               PROVE  Now(p)'[o] = ValueOf(History', Remaining(p, o)', o)
    BY <1>5 DEF ServedInv
  <2>1. Remaining(p, o)' = {j \in UpdatesOn(History', p) :
                               o \in Changed(History'[j]) /\ Remains(j)'}
    BY DEF Remaining
  <2>2. \A j \in UpdatesOn(h, p) : Remains(j)' <=> Remains(j) /\ j # i
    BY <1>6 DEF UpdatesOn, IsUpdateOn
  <2>3. Remaining(p, o)' = Remaining(p, o) \ {i}
    BY <1>4, <2>1, <2>2 DEF Remaining
  <2> QED
    BY <1>4, <1>10, <2>3
<1> QED
  BY <1>9, <1>11

\* A logged write is the last change of the cells it changes.
LEMMA Wrote_Served ==
    ASSUME Known, Known', ServedInv, NEW k, NEW p \in Pages, NEW cells,
           NEW e, Wrote(k, p, cells, e), pc = "idle",
           pc' \in {"install", "ckptbegin"}, pending'.page = p,
           pending.page = NoPage, NoPage \notin Pages,
           UNCHANGED <<disk, pool, openTx, bootLen>>
    PROVE  ServedInv'
<1>0. PICK n \in Nat : n = Len(History)
  BY WroteLog
<1>1. /\ n \in Nat /\ DOMAIN History' = 1 .. n + 1 /\ DOMAIN History = 1 .. n
      /\ Agree(History', History, n) /\ History'[n + 1] = e
      /\ \A i \in 1 .. n : History'[i] = History[i]
      /\ \A i \in 1 .. n + 1 : i \in 1 .. n \/ i = n + 1
      /\ \A i \in 1 .. n : i <= n + 1 /\ i # n + 1
      /\ n + 1 \in DOMAIN History'
      /\ History \in Seq(LogRecord) /\ History' \in Seq(LogRecord)
  BY <1>0, WroteLog
<1>2. pc \notin Replaying /\ pc' \notin Replaying
      /\ pc \notin Undoing /\ pc' \notin Undoing
  BY DEF Replaying, Undoing
<1>3. Committed' \cup OpenXids' = Committed \cup OpenXids
  <2>1. Trusted' = Trusted
    BY <1>2, WroteTrusts
  <2> QED
    BY <1>2, <2>1 DEF Trusted
<1>4. /\ e.xid \in OpenXids /\ IsUpdateOn(e, p)
      /\ \A o \in Offsets : /\ o \in Changed(e) => e.after[o] = pending'.data[o]
                            /\ o \notin Changed(e) =>
                                  pending'.data[o] = CurrentBytes(p)[o]
  BY DEF Wrote
<1>5. /\ Now(p)' = pending'.data /\ Now(p) = CurrentBytes(p)
      /\ \A q \in Pages : q # p => Now(q)' = Now(q)
  BY DEF Now, CurrentBytes, Cached
<1>6. ASSUME NEW q \in Pages
      PROVE  /\ \A i \in UpdatesOn(History', q) :
                   i \in UpdatesOn(History, q) \/ (i = n + 1 /\ q = p)
             /\ \A i \in UpdatesOn(History, q) :
                   /\ i \in 1 .. n /\ i \in UpdatesOn(History', q)
                   /\ History'[i] = History[i]
                   /\ Remains(i)' <=> Remains(i)
             /\ n + 1 \in UpdatesOn(History', p) /\ Remains(n + 1)'
  <2>1. \A i \in 1 .. n :
           i \in UpdatesOn(History', q) <=> i \in UpdatesOn(History, q)
    BY <1>1, SameUpdates
  <2>2. UpdatesOn(History, q) \subseteq 1 .. n
    BY <1>1 DEF UpdatesOn
  <2>3. \A i \in UpdatesOn(History', q) : i \in 1 .. n \/ (i = n + 1 /\ q = p)
    BY <1>1, <1>4 DEF UpdatesOn, IsUpdateOn
  <2>4. \A i \in 1 .. n : Remains(i)' <=> Remains(i)
    BY <1>1, <1>2, <1>3 DEF Remains
  <2>5. n + 1 \in UpdatesOn(History', p)
    BY <1>1, <1>4 DEF UpdatesOn
  <2>6. Remains(n + 1)'
    BY <1>1, <1>2, <1>3, <1>4 DEF Remains
  <2> QED
    BY <1>1, <2>1, <2>2, <2>3, <2>4, <2>5, <2>6
<1> SUFFICES ASSUME NEW q \in Pages, Repeatable(q)', NEW o \in UserCells
             PROVE  Now(q)'[o] = ValueOf(History', Remaining(q, o)', o)
  BY DEF ServedInv
<1> DEFINE is == Remaining(q, o)
           new == Remaining(q, o)'
<1>7. new = {i \in UpdatesOn(History', q) :
                o \in Changed(History'[i]) /\ Remains(i)'}
  BY DEF Remaining
<1>8. Repeatable(q)
  <2>1. \A i \in Updates(q) : /\ i \in Updates(q)' /\ History'[i] = History[i]
    BY <1>6 DEF Updates, UpdatesOn
  <2>2. RolledBack(bootLen)' = RolledBack(bootLen)
    <3>1. bootLen \in Nat /\ bootLen <= n
      <4>1. bootLen \in Nat /\ bootLen <= Len(log.stable)
        BY DEF Known, WalInv, TypeInv, TypeOK, ScanInv
      <4>2. Len(log.stable) \in Nat /\ Len(log.stable) <= n
        BY <1>0, StepTypes, LogParts
      <4> QED
        BY <1>1, <4>1, <4>2
    <3>2. \A i \in 1 .. bootLen : History'[i] = History[i]
      BY <1>1, <3>1
    <3>3. \A t : {History'[i].xid : i \in {j \in 1 .. bootLen : History'[j].type = t}}
               = {History[i].xid : i \in {j \in 1 .. bootLen : History[j].type = t}}
      BY <3>2
    <3>4. \A t : Logged(t, bootLen)' = Logged(t, bootLen)
      BY <3>3 DEF Logged
    <3> QED
      BY <3>4 DEF RolledBack
  <2> QED
    BY <2>1, <2>2 DEF Repeatable
<1>9. Now(q)[o] = ValueOf(History, is, o)
  BY <1>2, <1>8 DEF ServedInv
<1>10. is \subseteq 1 .. n /\ is \in SUBSET DOMAIN History
  BY <1>1 DEF Remaining, UpdatesOn
<1>11. o \in Offsets
  BY TrackedCells
<1>12. CASE q = p /\ o \in Changed(e)
  <2>1. n + 1 \in new /\ new \in SUBSET DOMAIN History'
    BY <1>1, <1>6, <1>7, <1>12 DEF UpdatesOn
  <2>2. \A i \in new : i <= n + 1
    BY <1>1, <2>1
  <2> HIDE DEF new
  <2>3. ValueOf(History', new, o) = History'[n + 1].after[o]
    BY <1>1, <2>1, <2>2, LastWriter
  <2> QED
    BY <1>1, <1>4, <1>5, <1>11, <1>12, <2>3 DEF new
<1>13. CASE ~(q = p /\ o \in Changed(e))
  <2>1. Now(q)'[o] = Now(q)[o]
    BY <1>4, <1>5, <1>11, <1>13
  <2>2. is = {i \in UpdatesOn(History, q) : o \in Changed(History[i]) /\ Remains(i)}
    BY DEF Remaining
  <2>3. new = is
    BY <1>1, <1>6, <1>7, <1>13, <2>2
  <2>4. \A i \in is : History'[i] = History[i]
    BY <1>1, <1>10
  <2> HIDE DEF is, new
  <2>5. ValueOf(History', is, o) = ValueOf(History, is, o)
    BY <1>1, <1>10, <2>4, SameValue
  <2> QED
    BY <1>9, <2>1, <2>3, <2>5 DEF is, new
<1> QED
  BY <1>12, <1>13

\* Nothing is logged and nothing written: an image of zeroes is served.
LEMMA Restart_Served ==
    ASSUME Known, Known', ReplayInv', Restart, pc' \notin Replaying
    PROVE  ServedInv'
<1>1. pc' = "boot" /\ log.stable = << >> /\ log' = ReopenLog(log.stable)
  BY DEF Restart, Replaying
<1>2. History' = << >>
  <2>1. << >> \in Seq(LogRecord) /\ log' = ReopenLog(<< >>)
    BY <1>1
  <2>2. log'.stable = << >> /\ log'.buf = << >>
    BY <2>1, ReopenType
  <2> QED
    BY <2>2, ConcatEmptySeq DEF History
<1>3. DOMAIN History' = {}
  BY <1>2
<1> SUFFICES ASSUME NEW p \in Pages, NEW o \in UserCells
             PROVE  Now(p)'[o] = ValueOf(History', Remaining(p, o)', o)
  BY DEF ServedInv
<1>4. Shown(Now(p)', History', p, Len(History'))
  <2>1. MemoryShows(p)'
    BY DEF ReplayInv, MemoryInv
  <2>2. Sound(History', Trusted', p, Len(History'))
    BY <1>3 DEF Sound, UpdatesOn
  <2> QED
    BY <2>1, <2>2 DEF MemoryShows, SoundTo
<1>5. Now(p)'[o] = At(History', p, o, Len(History'))
  BY <1>4, TrackedCells DEF Shown
<1>6. Writers(History', p, o, Len(History')) = {} /\ Remaining(p, o)' = {}
  BY <1>3 DEF Writers, UpdatesOn, Remaining
<1> QED
  BY <1>5, <1>6 DEF At

\* Only Undo has something to take back.
LEMMA UndoSteps ==
    ASSUME [Next]_vars
    PROVE  /\ pc \in Undoing => \/ UNCHANGED vars \/ Kill \/ EndLoser
                                \/ UndoDone \/ \E x \in Xids : UndoRecord(x)
           /\ pc' \in Undoing => \/ UNCHANGED vars \/ RedoDone \/ EndLoser
                                 \/ \E x \in Xids : UndoRecord(x)
<1>1. CASE UNCHANGED vars
  BY <1>1
<1>2. CASE Serve
  <2>1. pc = "idle"
    BY <1>2 DEF Serve, Ready, TxBegin, CommitRecord, GetPage, AllocatePage,
                WritePage, StartFlush, Shutdown
  <2>2. pc' \in {"idle", "ckptbegin", "end", "install", "flush", "exit"}
    <3>1. CASE \E k \in Names : TxBegin(k) \/ CommitRecord(k)
      BY <3>1 DEF TxBegin, CommitRecord, MaybeCheckpoint
    <3>2. CASE \E p \in Pages : GetPage(p) \/ AllocatePage(p)
      BY <2>1, <3>2 DEF GetPage, AllocatePage
    <3>3. CASE \E k \in Names, p \in Pages, cells \in WriteSets, v \in Values :
                  WritePage(k, p, cells, v)
      BY <3>3 DEF WritePage, MaybeCheckpoint
    <3>4. CASE StartFlush \/ Shutdown
      BY <3>4 DEF StartFlush, Shutdown
    <3> QED
      BY <1>2, <3>1, <3>2, <3>3, <3>4 DEF Serve
  <2> QED
    BY <2>1, <2>2 DEF Undoing
<1>3. CASE Continue
  <2>1. pc \notin Undoing /\ pc' \notin Undoing
    BY <1>3 DEF Continue, Install, CheckpointBegin, CheckpointEnd, WriteMaster,
                CommitEnd, FlushPage, FlushDone, ExitDone, Forget, Undoing
  <2> QED
    BY <2>1
<1>4. CASE Recover
  <2>1. \/ RedoDone \/ EndLoser \/ UndoDone \/ \E x \in Xids : UndoRecord(x)
        \/ pc \notin Undoing /\ pc' \notin Undoing
    BY <1>4 DEF Recover, AnalyzeRecord, AnalysisDone, RedoSkip, RedoApply,
                EnsurePageExists, RedoFresh, FinishCommitted, RecoveryDone,
                Boot, Reapply, Redoing, Undoing
  <2>2. RedoDone => pc \notin Undoing
    BY DEF RedoDone, Undoing
  <2>3. UndoDone => pc' \notin Undoing
    BY DEF UndoDone, Undoing
  <2> QED
    BY <2>1, <2>2, <2>3
<1>5. CASE Restart
  BY <1>5 DEF Restart, Undoing
<1>6. CASE Kill
  BY <1>6 DEF Kill, Forget, Undoing
<1> QED
  BY <1>1, <1>2, <1>3, <1>4, <1>5, <1>6 DEF Next

\* Steps that change neither what users see nor what remains of it.
LEMMA Calm_Served ==
    ASSUME Known, Known', ServedInv, Steady, [Next]_vars, pc \notin Undoing,
           pc' \notin Undoing
    PROVE  ServedInv'
<1>1. pc # "down" /\ pc' # "down"
  BY DEF Steady, Replaying
<1>2. bootLen' = bootLen
  BY <1>1, BootKept
<1> QED
  BY <1>2, SteadyRemains, Steady_Served

LEMMA WritePage_Served ==
    ASSUME Known, Known', ReplayInv, ServedInv, [Next]_vars, NEW k \in Names,
           NEW p \in Pages, NEW cells \in WriteSets, NEW v \in Values,
           WritePage(k, p, cells, v)
    PROVE  ServedInv'
<1>1. /\ pc = "idle" /\ pc' \in {"install", "ckptbegin"}
      /\ pending'.page = p /\ pending.page = NoPage /\ NoPage \notin Pages
      /\ UNCHANGED <<disk, pool, openTx>>
  BY WriteFacts
<1>2. /\ pc \notin Undoing /\ pc' \notin Undoing
      /\ pc # "down" /\ pc' # "down"
  BY <1>1 DEF Undoing
<1>3. bootLen' = bootLen
  BY <1>2, BootKept
<1> QED
  BY <1>1, <1>2, <1>3, WritePage_Replay, Calm_Served, Wrote_Served

LEMMA Next_Served ==
    ASSUME ~CrashInRecovery, Known, Known', ReplayInv, ReplayInv', ApartInv,
           RepeatedInv, ServedInv, [Next]_vars
    PROVE  RepeatedInv' /\ ServedInv'
<1>1. CASE UNCHANGED vars
  <2>1. ASSUME NEW p \in Pages
        PROVE  /\ Repeatable(p)' <=> Repeatable(p)
               /\ UpdatesOn(History', p) = UpdatesOn(History, p)
               /\ Allocated(p)' <=> Allocated(p)
               /\ Now(p)' = Now(p)
    BY <1>1 DEF vars, Repeatable, Updates, RolledBack, Logged, History,
                Allocated, Now, CurrentBytes, Cached
  <2>2. /\ History' = History /\ pc' = pc
        /\ \A p, o : Remaining(p, o)' = Remaining(p, o)
    BY <1>1 DEF vars, Remaining, Remains, History, Committed, Logged, OpenXids
  <2> QED
    BY <2>1, <2>2 DEF RepeatedInv, ServedInv
<1>2. CASE pc \in Undoing \/ pc' \in Undoing
  <2>1. CASE Kill
    <3>1. pc' = "down"
      BY <2>1 DEF Kill, Forget
    <3> QED
      BY <3>1 DEF RepeatedInv, ServedInv, Undoing, Replaying
  <2>2. CASE EndLoser
    BY <2>2, EndLoser_Served
  <2>3. CASE UndoDone
    <3>1. pc' \notin Undoing
      BY <2>3 DEF UndoDone, Undoing
    <3> QED
      BY <2>3, <3>1, UndoDone_Served DEF RepeatedInv
  <2>4. ASSUME NEW x \in Xids, UndoRecord(x)
        PROVE  RepeatedInv' /\ ServedInv'
    BY <2>4, UndoRecord_Served
  <2>5. CASE RedoDone
    BY <2>5, RedoDone_Served
  <2> QED
    BY <1>1, <1>2, <2>1, <2>2, <2>3, <2>4, <2>5, UndoSteps
<1>3. CASE pc \notin Undoing /\ pc' \notin Undoing /\ ~UNCHANGED vars
  <2>1. RepeatedInv'
    BY <1>3 DEF RepeatedInv
  <2>2. CASE pc' \in Replaying
    BY <2>1, <2>2 DEF ServedInv
  <2>3. CASE pc' \notin Replaying
    <3>1. CASE Steady
      BY <1>3, <2>1, <3>1, Calm_Served
    <3>2. ASSUME NEW k \in Names, NEW p \in Pages, NEW cells \in WriteSets,
                 NEW v \in Values, WritePage(k, p, cells, v)
          PROVE  ServedInv'
      BY <3>2, WritePage_Served
    <3>3. CASE Restart
      BY <2>1, <2>3, <3>3, Restart_Served
    <3>4. CASE Serve
      BY <2>1, <3>1, <3>2, <3>4, TxBegin_Replay, CommitRecord_Replay,
         GetPage_Replay, AllocatePage_Replay, Control_Replay DEF Serve
    <3>5. CASE Continue
      <4>1. ~ExitDone
        BY <2>3 DEF ExitDone, Forget, Replaying
      <4> QED
        BY <3>1, <3>5, <4>1, Install_Replay, Checkpoint_Replay,
           Control_Replay, CommitEnd_Replay, FlushPage_Replay DEF Continue
    <3>6. CASE Recover
      <4>1. \/ UndoDone \/ RecoveryDone \/ Boot
            \/ \E x \in Xids : FinishCommitted(x)
        BY <1>3, <2>3, <3>6 DEF Recover, AnalyzeRecord, AnalysisDone, RedoSkip,
              RedoApply, EnsurePageExists, RedoFresh, RedoDone, UndoRecord,
              EndLoser, Reapply, Redoing, Undoing, Replaying
      <4> QED
        BY <3>1, <4>1, UndoDone_Replay, RecoveryDone_Replay, Boot_Replay,
           FinishCommitted_Replay
    <3>7. ~Kill
      BY <2>3 DEF Kill, Forget, Replaying
    <3> QED
      BY <1>3, <3>3, <3>4, <3>5, <3>6, <3>7 DEF Next
  <2> QED
    BY <2>1, <2>2, <2>3
<1> QED
  BY <1>1, <1>2, <1>3

LEMMA Init_Served == Init => ApartInv /\ RepeatedInv /\ ServedInv
<1> SUFFICES ASSUME Init PROVE ApartInv /\ RepeatedInv /\ ServedInv
  OBVIOUS
<1>1. pc = "down" /\ << >> \in Seq(LogRecord) /\ log = ReopenLog(<< >>)
  BY DEF Init
<1>2. log.stable = << >> /\ log.buf = << >>
  BY <1>1, ReopenType
<1>3. History = << >>
  BY <1>2, ConcatEmptySeq DEF History
<1>4. ApartInv
  BY <1>3 DEF ApartInv, UpdatesOn
<1> QED
  BY <1>1, <1>4 DEF RepeatedInv, ServedInv, Undoing, Replaying

\* The engine reads every cell as the changes that remain leave it: the
\* inductive invariant behind the next theorem. Transactions overwrite only
\* cells whose last change is ended (ApartInv), so that Undo may take its
\* before-images from the log (RepeatedInv) in any order of the losers.
THEOREM ServiceInvariant ==
    ASSUME ~CrashInRecovery, ~DirtyWrites PROVE Spec => []ServiceInv
<1>1. Init => ServiceInv
  BY Init_Served DEF ServiceInv
<1>2. /\ Known /\ Known' /\ ReplayInv /\ ReplayInv' /\ ServiceInv
      /\ [Next]_vars
      => ServiceInv'
  BY Next_Apart, Next_Served DEF ServiceInv
<1> QED
  BY <1>1, <1>2, AlwaysKnown, ReplayInvariant, PTL DEF Spec

\* Atomicity and durability: whatever is written, checkpointed, evicted and
\* flushed before a crash, and wherever the crash falls, the engine serves,
\* on every page that recovery can repeat, each cell as the last committed
\* or still open transaction left it and no loser's change (commit,
\* _phase_redo, _phase_undo, _make_room): as long as no crash interrupts a
\* recovery and no transaction overwrites uncommitted cells.
THEOREM ServedIsLogged ==
    ASSUME ~CrashInRecovery, ~DirtyWrites PROVE Spec => []ServedIsHistory
<1>1. Known /\ ReplayInv /\ ServiceInv => ServedIsHistory
  <2> SUFFICES ASSUME Known, ReplayInv, ServedInv, pc = "idle",
                      NEW p \in Pages, Repeatable(p), NEW o \in UserCells
               PROVE  CurrentBytes(p)[o]
                        = Replayed(p, o, Committed \cup OpenXids)
    BY DEF ServedIsHistory, Served, ServiceInv
  <2>1. Now(p) = CurrentBytes(p)
    <3>1. pending.page = NoPage /\ NoPage \notin Pages
      BY ServingTypes
    <3> QED
      BY <3>1 DEF Now
  <2>2. pc \notin Replaying /\ pc \notin Undoing
    BY DEF Replaying, Undoing
  <2>3. Now(p)[o] = ValueOf(History, Remaining(p, o), o)
    BY <2>2 DEF ServedInv
  <2>4. Remaining(p, o)
          = {i \in Updates(p) : o \in Changes(i)
                                /\ History[i].xid \in Committed \cup OpenXids}
    BY <2>2 DEF Remaining, Remains, UpdatesOn, Updates, Changed, Changes
  <2> QED
    BY <2>1, <2>3, <2>4 DEF ValueOf, Replayed
<1> QED
  BY <1>1, AlwaysKnown, ReplayInvariant, ServiceInvariant, PTL

-----------------------------------------------------------------------------
(* The store as a function of the log *)

\* What the log h says of each cell once the transactions xs have happened.
Writes(h, xs, p, o) ==
    {i \in UpdatesOn(h, p) : o \in Changed(h[i]) /\ h[i].xid \in xs}
Shows(h, xs) ==
    [c \in StoreCells |-> ValueOf(h, Writes(h, xs, c[1], c[2]), c[2])]

\* What each of the transactions xs has changed.
Opened(h, xs) ==
    [x \in Xids |->
       IF x \notin xs THEN {}
       ELSE {c \in StoreCells : \E i \in UpdatesOn(h, c[1]) :
                h[i].xid = x /\ c[2] \in Changed(h[i])}]

LEMMA CellParts ==
    ASSUME NEW c \in StoreCells
    PROVE  /\ c[1] \in Followed /\ c[1] \in Pages /\ c[2] \in UserCells
           /\ c[2] \in Offsets /\ c[2] \notin LsnCells
  BY FollowedPages, TrackedCells DEF StoreCells

LEMMA KeptShows ==
    /\ KeptCells = Shows(History, Committed)
    /\ KeptCells' = Shows(History', Committed')
  BY DEF KeptCells, Replayed, Shows, Writes, ValueOf, UpdatesOn, Updates,
         Changed, Changes

LEMMA ChangedOpened ==
    /\ ChangedCells = Opened(History, OpenXids)
    /\ ChangedCells' = Opened(History', OpenXids')
<1>1. /\ \A p : Updates(p) = UpdatesOn(History, p)
      /\ \A p : Updates(p)' = UpdatesOn(History', p)
  BY DEF Updates, UpdatesOn
<1>2. /\ \A i : Changes(i) = Changed(History[i])
      /\ \A i : Changes(i)' = Changed(History'[i])
  BY DEF Changes, Changed
<1> QED
  BY <1>1, <1>2 DEF ChangedCells, Opened

\* On pages recovery can repeat, what is seen is what the log says of the
\* committed and the open transactions.
LEMMA SeenShows ==
    Known /\ ServedInv /\ FollowedRepeat
       => SeenCells(KeptCells) = Shows(History, Committed \cup OpenXids)
<1> SUFFICES ASSUME Known, ServedInv, FollowedRepeat
             PROVE  SeenCells(KeptCells)
                      = Shows(History, Committed \cup OpenXids)
  OBVIOUS
<1>1. CASE pc \in Recovering \cup {"down"}
  <2>1. OpenXids = {}
    BY <1>1, NoOpen DEF Known, Base, Away
  <2>2. Committed \cup OpenXids = Committed
    BY <2>1
  <2> QED
    BY <1>1, <2>2, KeptShows DEF SeenCells
<1>2. CASE pc \notin Recovering \cup {"down"}
  <2>1. pc \notin Replaying /\ pc \notin Undoing
    BY <1>2 DEF Replaying, Undoing, Recovering
  <2>2. ASSUME NEW c \in StoreCells
        PROVE  Now(c[1])[c[2]]
                 = ValueOf(History,
                           Writes(History, Committed \cup OpenXids, c[1], c[2]),
                           c[2])
    <3>1. Now(c[1])[c[2]] = ValueOf(History, Remaining(c[1], c[2]), c[2])
      BY <2>1, CellParts DEF ServedInv, FollowedRepeat
    <3>2. Remaining(c[1], c[2])
            = Writes(History, Committed \cup OpenXids, c[1], c[2])
      BY <2>1 DEF Remaining, Remains, Writes
    <3> QED
      BY <3>1, <3>2
  <2>3. SeenCells(KeptCells) = [c \in StoreCells |-> Now(c[1])[c[2]]]
    <3>1. SeenCells(KeptCells)
            = [c \in StoreCells |->
                 IF pending.page = c[1] THEN pending.data[c[2]]
                 ELSE CurrentBytes(c[1])[c[2]]]
      BY <1>2 DEF SeenCells
    <3>2. \A c \in StoreCells :
             Now(c[1])[c[2]] = IF pending.page = c[1] THEN pending.data[c[2]]
                               ELSE CurrentBytes(c[1])[c[2]]
      BY DEF Now
    <3> QED
      BY <3>1, <3>2
  <2> QED
    BY <2>2, <2>3 DEF Shows
<1> QED
  BY <1>1, <1>2

LEMMA SeenShowsNext ==
    (Known /\ ServedInv /\ FollowedRepeat)'
       => (SeenCells(KeptCells) = Shows(History, Committed \cup OpenXids))'
  BY SeenShows, PTL

LEMMA SeenBoth ==
    ASSUME Known, Known', ServedInv, ServedInv', FollowedRepeat, FollowedRepeat'
    PROVE  /\ SeenCells(KeptCells) = Shows(History, Committed \cup OpenXids)
           /\ SeenCells(KeptCells)'
                = Shows(History', Committed' \cup OpenXids')
<1>1. (Shows(History, Committed \cup OpenXids))'
        = Shows(History', Committed' \cup OpenXids')
  BY DEF Shows, Writes, ValueOf, UpdatesOn, Changed
<1>2. SeenCells(KeptCells)' = (Shows(History, Committed \cup OpenXids))'
  BY SeenShowsNext
<1> QED
  BY <1>1, <1>2, SeenShows

\* Logs that agree on the writes of some transactions show the same.
LEMMA SameShows ==
    ASSUME NEW h \in Seq(LogRecord), NEW g, NEW xs, NEW ys,
           \A p \in Pages : \A i :
               /\ i \in UpdatesOn(g, p) /\ g[i].xid \in ys
                    <=> i \in UpdatesOn(h, p) /\ h[i].xid \in xs
               /\ i \in UpdatesOn(h, p) /\ h[i].xid \in xs => g[i] = h[i]
    PROVE  Shows(g, ys) = Shows(h, xs)
<1>1. ASSUME NEW c \in StoreCells
      PROVE  ValueOf(g, Writes(g, ys, c[1], c[2]), c[2])
               = ValueOf(h, Writes(h, xs, c[1], c[2]), c[2])
  <2>1. c[1] \in Pages
    BY CellParts
  <2>2. Writes(g, ys, c[1], c[2]) = Writes(h, xs, c[1], c[2])
    BY <2>1 DEF Writes
  <2>3. /\ Writes(h, xs, c[1], c[2]) \in SUBSET DOMAIN h
        /\ \A i \in Writes(h, xs, c[1], c[2]) : g[i] = h[i]
    BY <2>1 DEF Writes, UpdatesOn
  <2> QED
    BY <2>2, <2>3, SameValue
<1> QED
  BY <1>1 DEF Shows

-----------------------------------------------------------------------------
(* What a step does to the log, commits told apart *)

\* A step that logs neither a change nor a commit and opens no transaction.
Unlogged ==
    /\ openTx' = openTx
    /\ Keeps \/ \E e \in LogRecord : e.type \notin {"update", "commit"} /\ Emits(e)

LEMMA EndUnlogged ==
    ASSUME NEW x \in Xids, TypeInv, openTx' = openTx,
           log' \in {Emit(log, TxRec("end", x)),
                     FlushLog(Emit(log, TxRec("end", x)))}
    PROVE  Unlogged
<1> DEFINE e == TxRec("end", x)
<1>1. e \in LogRecord /\ e.type = "end"
  BY TxRecType DEF TxRec
<1>2. Emits(e)
  BY DEF Emits
<1> HIDE DEF e
<1> QED
  BY <1>1, <1>2 DEF Unlogged

LEMMA CheckpointUnlogged ==
    ASSUME TypeInv, CheckpointBegin \/ CheckpointEnd
    PROVE  Unlogged
<1>1. CASE CheckpointBegin
  <2> DEFINE e == [type |-> "begin_chkpt", lsn |-> log.next,
                   prev |-> NoLsn, xid |-> SysXid]
  <2>1. e \in LogRecord /\ e.type = "begin_chkpt"
    BY DEF LogRecord, BeginRecord, TypeInv, TypeOK, LogState
  <2>2. Emits(e) /\ openTx' = openTx
    BY <1>1 DEF CheckpointBegin, Emits, tables
  <2> HIDE DEF e
  <2> QED
    BY <2>1, <2>2 DEF Unlogged
<1>2. CASE CheckpointEnd
  <2> DEFINE e == EndCheckpointRec
  <2>1. e \in LogRecord /\ e.type = "end_chkpt"
    BY DEF EndCheckpointRec, LogRecord, EndRecord, TypeInv, TypeOK, LogState
  <2>2. Emits(e) /\ openTx' = openTx
    BY <1>2 DEF CheckpointEnd, Emits, tables
  <2> HIDE DEF e
  <2> QED
    BY <2>1, <2>2 DEF Unlogged
<1> QED
  BY <1>1, <1>2

LEMMA StoreSteps ==
    ASSUME TypeInv, [Next]_vars
    PROVE  \/ Unlogged \/ Kill \/ ExitDone \/ Restart
           \/ \E n \in Names : TxBegin(n) \/ CommitRecord(n)
           \/ \E n \in Names, p \in Pages, cells \in WriteSets, v \in Values :
                 WritePage(n, p, cells, v)
<1>1. Keeps /\ openTx' = openTx => Unlogged
  BY DEF Unlogged
<1>2. ASSUME NEW p \in Pages, GetPage(p) \/ AllocatePage(p) \/ FlushPage(p)
      PROVE  Unlogged
  BY <1>1, <1>2, PoolMoves DEF GetPage, AllocatePage, FlushPage
<1>3. CASE Install
  BY <1>1, <1>3, PoolMoves DEF Install
<1>4. CASE StartFlush \/ Shutdown \/ FlushDone \/ WriteMaster
  BY <1>1, <1>4 DEF StartFlush, Shutdown, FlushDone, WriteMaster, Keeps, tables
<1>5. CASE CommitEnd
  <2>1. scan \in Xids
    BY <1>5 DEF CommitEnd, TypeInv, ScanInv
  <2> QED
    BY <1>5, <2>1, EndUnlogged DEF CommitEnd
<1>6. CASE CheckpointBegin \/ CheckpointEnd
  BY <1>6, CheckpointUnlogged
<1>7. CASE \/ AnalyzeRecord \/ AnalysisDone \/ RedoSkip \/ RedoApply
           \/ EnsurePageExists \/ RedoFresh \/ RedoDone \/ UndoDone \/ Boot
           \/ RecoveryDone \/ \E x \in Xids : UndoRecord(x)
  <2>1. Keeps /\ openTx' = openTx
    BY <1>7 DEF AnalyzeRecord, AnalysisDone, RedoSkip, RedoApply,
                EnsurePageExists, RedoFresh, RedoDone, UndoDone, Boot,
                RecoveryDone, UndoRecord, Keeps, tables
  <2> QED
    BY <1>1, <2>1
<1>8. CASE EndLoser
  <2>1. scan \in Xids
    BY <1>8 DEF EndLoser, TypeInv, ScanInv
  <2> QED
    BY <1>8, <2>1, EndUnlogged DEF EndLoser, EmitEnd
<1>9. ASSUME NEW x \in Xids, FinishCommitted(x) PROVE Unlogged
  BY <1>9, EndUnlogged DEF FinishCommitted, EmitEnd
<1>10. CASE UNCHANGED vars
  BY <1>1, <1>10 DEF vars, Keeps
<1> QED
  BY <1>2, <1>3, <1>4, <1>5, <1>6, <1>7, <1>8, <1>9, <1>10
     DEF Next, Serve, Continue, Recover

LEMMA CommitLogs ==
    ASSUME Known, NEW n \in Names, CommitRecord(n)
    PROVE  LET e == TxRec("commit", openTx[n])
           IN  /\ openTx[n] \in Xids /\ openTx[n] \in OpenXids
               /\ e \in LogRecord /\ e.type = "commit" /\ e.xid = openTx[n]
               /\ log'.stable = Append(History, e) /\ log'.buf = << >>
               /\ History' = Append(History, e)
<1> DEFINE x == openTx[n]
           e == TxRec("commit", x)
<1>1. /\ x # NoXid /\ log' = FlushLog(Emit(log, e))
  BY DEF CommitRecord
<1>2. log \in LogState /\ x \in Xids /\ TypeInv
  BY <1>1 DEF Known, WalInv, TypeInv, TypeOK
<1>3. x \in OpenXids
  BY <1>1 DEF OpenXids
<1>4. e \in LogRecord /\ e.type = "commit" /\ e.xid = x
  BY <1>2, TxRecType DEF TxRec
<1> HIDE DEF e
<1>5. Emit(log, e) \in LogState /\ HistoryOf(log) = History
  BY <1>2, <1>4, EmitType DEF HistoryOf, History
<1>6. HistoryOf(Emit(log, e)) = Append(History, e)
  BY <1>2, <1>4, <1>5, EmitHistory
<1>7. log'.stable = Append(History, e) /\ log'.buf = << >>
      /\ HistoryOf(log') = Append(History, e)
  BY <1>1, <1>5, <1>6, FlushHistory
<1> QED
  BY <1>2, <1>3, <1>4, <1>7 DEF e, HistoryOf, History

-----------------------------------------------------------------------------
(* The commit records of the log are in the file *)

CommitsFlushed ==
    \A i \in DOMAIN History :
        History[i].type = "commit" => i <= Len(log.stable)

LEMMA Next_Flushed ==
    ASSUME Known, Known', ReplayInv, CommitsFlushed, [Next]_vars
    PROVE  CommitsFlushed'
<1>1. /\ log \in LogState /\ log' \in LogState
      /\ History = HistoryOf(log) /\ History' = HistoryOf(log')
      /\ History \in Seq(LogRecord) /\ TypeInv
      /\ DOMAIN History = 1 .. Len(History) /\ Len(History) \in Nat
      /\ DOMAIN History' = 1 .. Len(History')
      /\ Len(log.stable) \in Nat /\ Len(log'.stable) \in Nat
  BY StepTypes, LogParts DEF Known, WalInv
<1>2. Len(log.stable) <= Len(log'.stable)
  BY NextMoves, MoveExtends DEF Known, WalInv, Begins
<1>3. CASE Keeps
  <2>1. History' = History
    BY <1>3, CalmKeeps
  <2> SUFFICES ASSUME NEW i \in DOMAIN History, History[i].type = "commit"
               PROVE  i <= Len(log'.stable)
    BY <2>1 DEF CommitsFlushed
  <2>2. i <= Len(log.stable) /\ i \in Nat
    BY <1>1 DEF CommitsFlushed
  <2> QED
    BY <1>1, <1>2, <2>2
<1>4. ASSUME NEW e \in LogRecord, e.type # "commit", Emits(e)
      PROVE  CommitsFlushed'
  <2>1. History' = Append(History, e)
    BY <1>1, <1>4, HistoryMoves
  <2>2. /\ DOMAIN History' = 1 .. Len(History) + 1
        /\ \A i \in 1 .. Len(History) : History'[i] = History[i]
        /\ History'[Len(History) + 1] = e
    BY <1>1, <2>1, AppendParts
  <2> SUFFICES ASSUME NEW i \in DOMAIN History', History'[i].type = "commit"
               PROVE  i <= Len(log'.stable)
    BY DEF CommitsFlushed
  <2>3. i \in 1 .. Len(History) /\ i \in Nat
    BY <1>1, <1>4, <2>2
  <2>4. i <= Len(log.stable)
    BY <1>1, <2>2, <2>3 DEF CommitsFlushed
  <2> QED
    BY <1>1, <1>2, <2>3, <2>4
<1>5. ASSUME log'.buf = << >> PROVE CommitsFlushed'
  <2>1. History' = log'.stable
    BY <1>1, <1>5, LogParts
  <2> QED
    BY <1>1, <2>1 DEF CommitsFlushed
<1>6. ASSUME NEW n \in Names, CommitRecord(n) PROVE CommitsFlushed'
  BY <1>5, <1>6, CommitLogs
<1>7. CASE Kill \/ ExitDone \/ Restart
  <2>1. Loses
    BY <1>1, <1>7, DownLoses, RestartLoses
  <2>2. log'.buf = << >>
    BY <2>1, ReopenType DEF Loses
  <2> QED
    BY <1>5, <2>2
<1>8. ASSUME NEW n \in Names, TxBegin(n) PROVE Keeps
  BY <1>8 DEF TxBegin, Keeps
<1>9. ASSUME NEW n \in Names, NEW p \in Pages, NEW cells \in WriteSets,
             NEW v \in Values, WritePage(n, p, cells, v)
      PROVE  CommitsFlushed'
  <2>1. \/ Keeps
        \/ \E e \in LogRecord : e.type = "update" /\ Emits(e)
    BY <1>9, WriteFacts DEF Wrote, IsUpdateOn
  <2> QED
    BY <1>3, <1>4, <2>1
<1> QED
  BY <1>1, <1>3, <1>4, <1>6, <1>7, <1>8, <1>9, StoreSteps DEF Unlogged

LEMMA AlwaysFlushed == Spec => []CommitsFlushed
<1>1. Init => CommitsFlushed
  <2> SUFFICES ASSUME Init PROVE CommitsFlushed
    OBVIOUS
  <2>1. << >> \in Seq(LogRecord) /\ log = ReopenLog(<< >>)
    BY DEF Init
  <2>2. log.stable = << >> /\ log.buf = << >>
    BY <2>1, ReopenType
  <2>3. History = << >>
    BY <2>2, ConcatEmptySeq DEF History
  <2> QED
    BY <2>3 DEF CommitsFlushed
<1> QED
  BY <1>1, Next_Flushed, AlwaysKnown, ReplayInvariant, PTL DEF Spec

-----------------------------------------------------------------------------
(* Steps the store does not see *)

\* What a step changes if the store does not see it.
Hidden ==
    /\ Shows(History', Committed') = Shows(History, Committed)
    /\ Shows(History', Committed' \cup OpenXids')
         = Shows(History, Committed \cup OpenXids)
    /\ Opened(History', OpenXids') = Opened(History, OpenXids)

LEMMA NoNewCommit ==
    ASSUME Known, Known',
           \/ History' = History
           \/ \E e \in LogRecord : e.type # "commit"
                                   /\ History' = Append(History, e)
    PROVE  Committed' = Committed
<1>1. \A x : Has(History', "commit", x) <=> Has(History, "commit", x)
  <2>1. CASE History' = History
    BY <2>1
  <2>2. ASSUME NEW e \in LogRecord, e.type # "commit",
               History' = Append(History, e)
        PROVE  \A x : Has(History', "commit", x) <=> Has(History, "commit", x)
    <3> DEFINE h == History
    <3>1. h \in Seq(LogRecord)
      BY StepTypes, LogParts
    <3> HIDE DEF h
    <3>2. /\ Len(h) \in Nat /\ DOMAIN h = 1 .. Len(h)
          /\ DOMAIN Append(h, e) = 1 .. Len(h) + 1
          /\ \A i \in 1 .. Len(h) : Append(h, e)[i] = h[i]
          /\ Append(h, e)[Len(h) + 1] = e
      BY <3>1, AppendParts
    <3>3. \A i \in 1 .. Len(h) + 1 : i \in 1 .. Len(h) \/ i = Len(h) + 1
      BY <3>2
    <3>4. \A x : Has(Append(h, e), "commit", x) => Has(h, "commit", x)
      BY <2>2, <3>2, <3>3 DEF Has
    <3>5. \A i \in 1 .. Len(h) : i \in 1 .. Len(h) + 1
      BY <3>2
    <3>6. \A x : Has(h, "commit", x) => Has(Append(h, e), "commit", x)
      BY <3>2, <3>5 DEF Has
    <3> QED
      BY <2>2, <3>4, <3>6 DEF h
  <2> QED
    BY <2>1, <2>2
<1>2. \A x : x \in Committed' <=> x \in Committed
  BY <1>1, LoggedIs
<1> QED
  BY <1>2

LEMMA SameWrites ==
    ASSUME NEW h \in Seq(LogRecord), NEW e \in LogRecord, e.type # "update",
           NEW g, g \in {h, Append(h, e)}
    PROVE  \A p : /\ UpdatesOn(g, p) = UpdatesOn(h, p)
                  /\ \A i \in UpdatesOn(h, p) : g[i] = h[i]
<1>1. /\ Len(h) \in Nat /\ DOMAIN h = 1 .. Len(h)
      /\ DOMAIN Append(h, e) = 1 .. Len(h) + 1
      /\ \A i \in 1 .. Len(h) : Append(h, e)[i] = h[i]
      /\ Append(h, e)[Len(h) + 1] = e
  BY AppendParts
<1>2. \A i : i \in 1 .. Len(h) + 1 <=> i \in 1 .. Len(h) \/ i = Len(h) + 1
  BY <1>1
<1>3. CASE g = h
  BY <1>3
<1>4. CASE g = Append(h, e)
  BY <1>1, <1>2, <1>4 DEF UpdatesOn, IsUpdateOn
<1> QED
  BY <1>3, <1>4

\* Transactions without updates may be opened.
LEMMA SameOpened ==
    ASSUME NEW h, NEW g, NEW xs, NEW ys,
           \A p : /\ UpdatesOn(g, p) = UpdatesOn(h, p)
                  /\ \A i \in UpdatesOn(h, p) : g[i] = h[i],
           xs \subseteq ys,
           \A x \in ys \ xs : \A i \in DOMAIN h : h[i].xid # x
    PROVE  Opened(g, ys) = Opened(h, xs)
<1>1. ASSUME NEW x \in Xids
      PROVE  {c \in StoreCells : \E i \in UpdatesOn(g, c[1]) :
                 g[i].xid = x /\ c[2] \in Changed(g[i])}
               = {c \in StoreCells : \E i \in UpdatesOn(h, c[1]) :
                    h[i].xid = x /\ c[2] \in Changed(h[i])}
  OBVIOUS
<1>2. ASSUME NEW x \in Xids, x \in ys \ xs
      PROVE  {c \in StoreCells : \E i \in UpdatesOn(h, c[1]) :
                 h[i].xid = x /\ c[2] \in Changed(h[i])} = {}
  BY <1>2 DEF UpdatesOn
<1>3. ASSUME NEW x \in Xids PROVE Opened(g, ys)[x] = Opened(h, xs)[x]
  BY <1>1, <1>2 DEF Opened
<1> QED
  BY <1>3 DEF Opened

\* No update is logged, no commit, and no transaction is opened that has any.
LEMMA HiddenStep ==
    ASSUME Known, Known',
           \/ History' = History
           \/ \E e \in LogRecord : /\ e.type \notin {"update", "commit"}
                                   /\ History' = Append(History, e),
           OpenXids \subseteq OpenXids',
           \A x \in OpenXids' \ OpenXids :
               \A i \in DOMAIN History : History[i].xid # x
    PROVE  Hidden
<1>1. History \in Seq(LogRecord) /\ Committed' = Committed
  BY NoNewCommit, StepTypes, LogParts
<1>2. \A p : /\ UpdatesOn(History', p) = UpdatesOn(History, p)
             /\ \A i \in UpdatesOn(History, p) : History'[i] = History[i]
  BY <1>1, SameWrites
<1>3. Opened(History', OpenXids') = Opened(History, OpenXids)
  BY <1>2, SameOpened
<1>4. Shows(History', Committed') = Shows(History, Committed)
  BY <1>1, <1>2, SameShows
<1>5. Shows(History', Committed' \cup OpenXids')
        = Shows(History, Committed \cup OpenXids)
  <2>1. \A p \in Pages : \A i \in UpdatesOn(History, p) :
           History[i].xid \in Committed' \cup OpenXids'
             <=> History[i].xid \in Committed \cup OpenXids
    BY <1>1 DEF UpdatesOn
  <2>2. \A p \in Pages : \A i :
           /\ i \in UpdatesOn(History', p)
              /\ History'[i].xid \in Committed' \cup OpenXids'
                <=> i \in UpdatesOn(History, p)
                    /\ History[i].xid \in Committed \cup OpenXids
           /\ i \in UpdatesOn(History, p)
              /\ History[i].xid \in Committed \cup OpenXids
                => History'[i] = History[i]
    BY <1>2, <2>1
  <2> QED
    BY <1>1, <2>2, SameShows
<1> QED
  BY <1>3, <1>4, <1>5 DEF Hidden

LEMMA Unlogged_Hidden ==
    ASSUME Known, Known', Unlogged
    PROVE  Hidden
<1>1. OpenXids' = OpenXids
  BY OpenSame DEF Unlogged
<1>2. \/ History' = History
      \/ \E e \in LogRecord : /\ e.type \notin {"update", "commit"}
                              /\ History' = Append(History, e)
  BY HistoryMoves DEF Unlogged, Known, WalInv
<1> QED
  BY <1>1, <1>2, HiddenStep

LEMMA TxBegin_Hidden ==
    ASSUME Known, Known', NEW n \in Names, TxBegin(n)
    PROVE  Hidden
<1>1. /\ pc = "idle" /\ log' = log /\ openTx[n] = NoXid
      /\ openTx' = [openTx EXCEPT ![n] = nextXid]
  BY DEF TxBegin, Ready
<1>2. openTx \in [Names -> Xids \cup {NoXid}] /\ nextXid \in Nat
      /\ IdsBelow(History, nextXid)
  BY <1>1 DEF Known, LoserInv, WalInv, TypeInv, TypeOK
<1>3. OpenXids \subseteq OpenXids' /\ OpenXids' \subseteq OpenXids \cup {nextXid}
  BY <1>1, <1>2 DEF OpenXids
<1>4. \A i \in DOMAIN History : History[i].xid # nextXid
  BY <1>2 DEF IdsBelow
<1>5. History' = History
  BY <1>1 DEF History
<1> QED
  BY <1>3, <1>4, <1>5, HiddenStep

LEMMA Restart_Hidden ==
    ASSUME Known, Known', ReplayInv, Restart
    PROVE  Hidden
<1>1. pc = "down" /\ log' = ReopenLog(log.stable) /\ openTx' = openTx
  BY DEF Restart
<1>2. log \in LogState /\ log' \in LogState /\ log.stable \in Seq(LogRecord)
      /\ History = HistoryOf(log) /\ History' = HistoryOf(log')
  BY StepTypes, LogParts
<1>3. log.buf = << >>
  BY <1>1 DEF ReplayInv, UndoListInv
<1>4. log'.stable = log.stable /\ log'.buf = << >>
  BY <1>1, <1>2, ReopenType
<1>5. History' = History
  BY <1>2, <1>3, <1>4, LogParts
<1>6. OpenXids' = OpenXids
  BY <1>1, OpenSame
<1> QED
  BY <1>5, <1>6, HiddenStep

-----------------------------------------------------------------------------
(* The crash *)

\* A crash or an exit keeps every commit record, and the changes before it.
LEMMA CrashKeeps ==
    ASSUME Known, Known', CommitsFlushed, Kill \/ ExitDone
    PROVE  /\ OpenXids' = {} /\ pc' = "down"
           /\ Shows(History', Committed') = Shows(History, Committed)
<1>1. pc' = "down" /\ openTx' = [n \in Names |-> NoXid]
  BY DEF Kill, ExitDone, Forget
<1>2. OpenXids' = {}
  BY <1>1 DEF OpenXids
<1>3. /\ History \in Seq(LogRecord) /\ History' \in Seq(LogRecord)
      /\ log.stable \in Seq(LogRecord) /\ log'.stable \in Seq(LogRecord)
      /\ DOMAIN History = 1 .. Len(History) /\ Len(History) \in Nat
      /\ DOMAIN History' = 1 .. Len(History') /\ Len(History') \in Nat
      /\ Len(log.stable) \in Nat /\ DOMAIN log.stable = 1 .. Len(log.stable)
      /\ Agree(log.stable, History, Len(log.stable))
  BY StepTypes, LogParts
<1>4. PICK n \in Nat : Calm(n) /\ Len(History') = n
  BY DownLoses, CalmLoses DEF Known, Base
<1>5. /\ n <= Len(History) /\ Len(log.stable) <= n
      /\ \A i \in 1 .. n : History'[i] = History[i]
      /\ \A i \in 1 .. n : i \in DOMAIN History /\ i \in DOMAIN History'
      /\ \A i \in DOMAIN History : i <= Len(log.stable) => i \in 1 .. n
  BY <1>3, <1>4 DEF Calm, Agree
<1>6. Committed' = Committed
  <2>1. \A x : Has(History', "commit", x) => Has(History, "commit", x)
    BY <1>3, <1>4, <1>5 DEF Has
  <2>2. \A x : Has(History, "commit", x) => Has(History', "commit", x)
    BY <1>5 DEF Has, CommitsFlushed
  <2>3. \A x : x \in Committed' <=> x \in Committed
    BY <2>1, <2>2, LoggedIs
  <2> QED
    BY <2>3
<1>7. ASSUME NEW p \in Pages, NEW i \in UpdatesOn(History, p),
             History[i].xid \in Committed
      PROVE  i \in 1 .. n
  <2>1. i \in 1 .. Len(History) /\ History[i].type = "update"
    BY <1>3, UpdateParts
  <2>2. PICK k \in DOMAIN History : /\ History[k].type = "commit"
                                    /\ History[k].xid = History[i].xid
    BY <1>7, LoggedIs DEF Has
  <2>3. ~(k < i)
    BY <1>3, <2>1, <2>2 DEF Known, LoserInv, HistInv, Ends
  <2>4. k <= Len(log.stable)
    BY <2>2 DEF CommitsFlushed
  <2>5. i <= Len(log.stable)
    BY <1>3, <2>1, <2>2, <2>3, <2>4
  <2> QED
    BY <1>3, <1>5, <2>1, <2>5
<1>8. ASSUME NEW p \in Pages, NEW i \in 1 .. n
      PROVE  i \in UpdatesOn(History', p) <=> i \in UpdatesOn(History, p)
  BY <1>3, <1>4, SameUpdates DEF Calm
<1>9. \A p \in Pages : \A i \in UpdatesOn(History', p) : i \in 1 .. n
  BY <1>3, <1>4 DEF UpdatesOn
<1>10. \A p \in Pages : \A i :
          /\ i \in UpdatesOn(History', p) /\ History'[i].xid \in Committed'
               <=> i \in UpdatesOn(History, p) /\ History[i].xid \in Committed
          /\ i \in UpdatesOn(History, p) /\ History[i].xid \in Committed
               => History'[i] = History[i]
  BY <1>5, <1>6, <1>7, <1>8, <1>9
<1>11. History \in Seq(LogRecord)
  BY <1>3
<1>12. Shows(History', Committed') = Shows(History, Committed)
  BY <1>10, <1>11, SameShows
<1> QED
  BY <1>1, <1>2, <1>12

-----------------------------------------------------------------------------
(* The commit *)

\* A cell has uncommitted changes of one transaction at most.
LEMMA OneOpenWriter ==
    ASSUME Known, ApartInv, NEW p \in Pages, NEW o \in UserCells,
           NEW i \in UpdatesOn(History, p), NEW j \in UpdatesOn(History, p),
           o \in Changed(History[i]), o \in Changed(History[j]),
           History[i].xid \in OpenXids, History[j].xid \in OpenXids
    PROVE  History[i].xid = History[j].xid
<1>1. /\ DOMAIN History = 1 .. Len(History) /\ Len(History) \in Nat
      /\ i \in 1 .. Len(History) /\ j \in 1 .. Len(History)
  <2>1. log \in LogState /\ History = HistoryOf(log)
    BY DEF Known, Base, TypeInv, TypeOK, HistoryOf, History
  <2> QED
    BY <2>1, LogParts DEF UpdatesOn
<1>2. ASSUME NEW a \in UpdatesOn(History, p), NEW b \in UpdatesOn(History, p),
             a \in 1 .. Len(History), b \in 1 .. Len(History),
             o \in Changed(History[a]), o \in Changed(History[b]),
             History[a].xid \in OpenXids, History[a].xid # History[b].xid
      PROVE  ~(a < b)
  <2> SUFFICES ASSUME a < b PROVE FALSE
    OBVIOUS
  <2>1. PICK k \in a .. b : /\ History[k].type \in {"commit", "end"}
                            /\ History[k].xid = History[a].xid
    BY <1>2 DEF ApartInv
  <2>2. k \in DOMAIN History /\ k <= Len(History)
    BY <1>1, <1>2
  <2>3. Ended(History, Len(History), History[a].xid)
    BY <2>1, <2>2 DEF Ended, Ends
  <2>4. \A x \in OpenXids : ~Ended(History, Len(History), x)
    BY DEF Known, LoserInv
  <2> QED
    BY <1>2, <2>3, <2>4
<1>3. i < j \/ j < i \/ i = j
  BY <1>1
<1> QED
  BY <1>1, <1>2, <1>3

LEMMA Commit_Log ==
    ASSUME Known, Known', NEW n \in Names, CommitRecord(n), NEW x, x = openTx[n]
    PROVE  /\ x \in OpenXids /\ x \in Xids
           /\ OpenXids' = OpenXids \ {x} /\ Committed' = Committed \cup {x}
           /\ \A p : /\ UpdatesOn(History', p) = UpdatesOn(History, p)
                     /\ \A i \in UpdatesOn(History, p) : History'[i] = History[i]
<1> DEFINE e == TxRec("commit", x)
<1>1. /\ x \in Xids /\ x \in OpenXids /\ x # NoXid
      /\ e \in LogRecord /\ e.type = "commit" /\ e.xid = x
      /\ History' = Append(History, e)
  BY CommitLogs DEF CommitRecord
<1> HIDE DEF e
<1>2. OpenXids' = OpenXids \ {x}
  <2>1. /\ openTx' = [openTx EXCEPT ![n] = NoXid]
        /\ openTx \in [Names -> Xids \cup {NoXid}]
        /\ \A m, k \in Names : openTx[m] = openTx[k] /\ openTx[m] # NoXid => m = k
    BY DEF CommitRecord, Known, Base, TypeInv, TypeOK, TxInv
  <2> QED
    BY <1>1, <2>1 DEF OpenXids
<1>3. History \in Seq(LogRecord)
  BY StepTypes, LogParts
<1>4. \A p : /\ UpdatesOn(History', p) = UpdatesOn(History, p)
             /\ \A i \in UpdatesOn(History, p) : History'[i] = History[i]
  BY <1>1, <1>3, SameWrites
<1>5. \A y : Has(History', "commit", y) <=> Has(History, "commit", y) \/ y = x
  <2> DEFINE h == History
  <2>1. h \in Seq(LogRecord)
    BY <1>3
  <2> HIDE DEF h
  <2>2. /\ Len(h) \in Nat /\ DOMAIN h = 1 .. Len(h)
        /\ DOMAIN Append(h, e) = 1 .. Len(h) + 1
        /\ \A i \in 1 .. Len(h) : Append(h, e)[i] = h[i]
        /\ Append(h, e)[Len(h) + 1] = e
    BY <1>1, <2>1, AppendParts
  <2>3. \A i : i \in 1 .. Len(h) + 1 <=> i \in 1 .. Len(h) \/ i = Len(h) + 1
    BY <2>2
  <2>4. \A y : Has(Append(h, e), "commit", y) <=> Has(h, "commit", y) \/ y = x
    BY <1>1, <2>2, <2>3 DEF Has
  <2> QED
    BY <1>1, <2>4 DEF h
<1>6. \A y : y \in Committed' <=> y \in Committed \/ y = x
  BY <1>5, LoggedIs
<1>7. Committed' = Committed \cup {x}
  BY <1>6
<1> QED
  BY <1>1, <1>2, <1>4, <1>7

\* The commit keeps what its transaction has changed, as it is seen now.
LEMMA Commit_Store ==
    ASSUME Known, Known', ApartInv, NEW n \in Names, CommitRecord(n),
           NEW x, x = openTx[n], NEW opened, opened = Opened(History, OpenXids)
    PROVE  /\ x \in Xids
           /\ Shows(History', Committed')
                = [c \in StoreCells |->
                     IF c \in opened[x]
                     THEN Shows(History, Committed \cup OpenXids)[c]
                     ELSE Shows(History, Committed)[c]]
           /\ Opened(History', OpenXids') = [opened EXCEPT ![x] = {}]
           /\ Shows(History', Committed' \cup OpenXids')
                = Shows(History, Committed \cup OpenXids)
<1> DEFINE h == History
           g == History'
<1>1. /\ x \in OpenXids /\ x \in Xids
      /\ OpenXids' = OpenXids \ {x} /\ Committed' = Committed \cup {x}
      /\ \A p : /\ UpdatesOn(g, p) = UpdatesOn(h, p)
                /\ \A i \in UpdatesOn(h, p) : g[i] = h[i]
  BY Commit_Log
<1>2. h \in Seq(LogRecord)
  BY StepTypes, LogParts
<1>3. Shows(g, Committed' \cup OpenXids') = Shows(h, Committed \cup OpenXids)
  <2>1. Committed' \cup OpenXids' = Committed \cup OpenXids
    BY <1>1
  <2> QED
    BY <1>1, <1>2, <2>1, SameShows
<1>4. Shows(g, Committed') = Shows(h, Committed \cup {x})
  BY <1>1, <1>2, SameShows
<1>5. ASSUME NEW c \in StoreCells
      PROVE  Shows(h, Committed \cup {x})[c]
               = IF c \in opened[x] THEN Shows(h, Committed \cup OpenXids)[c]
                 ELSE Shows(h, Committed)[c]
  <2>1. c \in opened[x] <=> \E i \in UpdatesOn(h, c[1]) :
                               h[i].xid = x /\ c[2] \in Changed(h[i])
    BY <1>1 DEF Opened
  <2>2. CASE c \in opened[x]
    <3>1. PICK i \in UpdatesOn(h, c[1]) : h[i].xid = x /\ c[2] \in Changed(h[i])
      BY <2>1, <2>2
    <3>2. \A j \in UpdatesOn(h, c[1]) :
             c[2] \in Changed(h[j]) /\ h[j].xid \in OpenXids => h[j].xid = x
      BY <1>1, <3>1, CellParts, OneOpenWriter
    <3>3. Writes(h, Committed \cup {x}, c[1], c[2])
            = Writes(h, Committed \cup OpenXids, c[1], c[2])
      BY <1>1, <3>2 DEF Writes
    <3> QED
      BY <2>2, <3>3 DEF Shows
  <2>3. CASE c \notin opened[x]
    <3>1. Writes(h, Committed \cup {x}, c[1], c[2])
            = Writes(h, Committed, c[1], c[2])
      BY <2>1, <2>3 DEF Writes
    <3> QED
      BY <2>3, <3>1 DEF Shows
  <2> QED
    BY <2>2, <2>3
<1>6. Shows(h, Committed \cup {x})
        = [c \in StoreCells |-> Shows(h, Committed \cup {x})[c]]
  BY DEF Shows
<1>7. Opened(g, OpenXids') = [opened EXCEPT ![x] = {}]
  <2>1. ASSUME NEW y \in Xids
        PROVE  Opened(g, OpenXids')[y]
                 = IF y = x THEN {} ELSE Opened(h, OpenXids)[y]
    <3>1. {c \in StoreCells : \E i \in UpdatesOn(g, c[1]) :
              g[i].xid = y /\ c[2] \in Changed(g[i])}
            = {c \in StoreCells : \E i \in UpdatesOn(h, c[1]) :
                 h[i].xid = y /\ c[2] \in Changed(h[i])}
      BY <1>1
    <3> QED
      BY <1>1, <3>1 DEF Opened
  <2>2. Opened(g, OpenXids')
          = [y \in Xids |-> IF y = x THEN {} ELSE Opened(h, OpenXids)[y]]
    BY <2>1 DEF Opened
  <2> QED
    BY <1>1, <2>2 DEF Opened
<1> QED
  BY <1>1, <1>3, <1>4, <1>5, <1>6, <1>7

-----------------------------------------------------------------------------
(* The write *)

\* The cells of the store a write to page p covers.
Covered(p, cells) == {c \in StoreCells : c[1] = p /\ c[2] \in cells}

\* What is seen before the page is stamped and once it waits to be installed.
LEMMA Write_Seen ==
    ASSUME Known, ReplayInv, ObserveNow, ObserveNow', NEW n \in Names,
           NEW p \in Pages, NEW cells \in WriteSets, NEW v \in Values,
           WritePage(n, p, cells, v)
    PROVE  /\ seen = [c \in StoreCells |-> CurrentBytes(c[1])[c[2]]]
           /\ seen' = [c \in StoreCells |->
                         IF c \in Covered(p, cells) THEN v ELSE seen[c]]
           /\ \A o \in UserCells :
                 pending'.data[o] = IF o \in cells THEN v ELSE CurrentBytes(p)[o]
<1> DEFINE changed0 == [o \in Offsets |-> IF o \in cells THEN v
                                          ELSE CurrentBytes(p)[o]]
<1>1. /\ pc = "idle" /\ pc' \in {"install", "ckptbegin"}
      /\ pending'.page = p /\ pending.page = NoPage /\ NoPage \notin Pages
      /\ disk' = disk /\ pool' = pool
  BY WriteFacts
<1>2. /\ pc \notin Recovering \cup {"down"} /\ pc' \notin Recovering \cup {"down"}
      /\ \A q : CurrentBytes(q)' = CurrentBytes(q)
  BY <1>1 DEF Recovering, CurrentBytes, Cached
<1>3. \A o \in UserCells :
         pending'.data[o] = IF o \in cells THEN v ELSE CurrentBytes(p)[o]
  <2>1. pending' = [page |-> p, data |-> WritePageLsn(changed0, log.next)]
    BY DEF WritePage
  <2>2. \A o \in UserCells : o \in Offsets /\ o # LsnOffset /\ o # LsnOffset + 1
    BY TrackedCells DEF LsnCells
  <2>3. \A o \in UserCells : WritePageLsn(changed0, log.next)[o] = changed0[o]
    BY <2>2 DEF WritePageLsn
  <2> QED
    BY <2>1, <2>2, <2>3
<1>4. seen = [c \in StoreCells |-> CurrentBytes(c[1])[c[2]]]
  <2>1. \A c \in StoreCells : pending.page # c[1]
    BY <1>1, CellParts
  <2> QED
    BY <1>2, <2>1 DEF ObserveNow, SeenCells
<1>5. seen' = [c \in StoreCells |-> IF p = c[1] THEN pending'.data[c[2]]
                                    ELSE CurrentBytes(c[1])[c[2]]]
  BY <1>1, <1>2 DEF ObserveNow, SeenCells
<1>6. \A c \in StoreCells :
         (IF p = c[1] THEN pending'.data[c[2]] ELSE CurrentBytes(c[1])[c[2]])
           = IF c \in Covered(p, cells) THEN v ELSE seen[c]
  BY <1>3, <1>4, CellParts DEF Covered
<1> QED
  BY <1>3, <1>4, <1>5, <1>6

\* The log after a write, and the cells its record changes.
LEMMA Write_Log ==
    ASSUME Known, Known', NEW n \in Names, NEW p \in Pages, NEW cells, NEW e,
           Wrote(n, p, cells, e), NEW q \in Pages
    PROVE  LET m == Len(History) + 1
           IN  /\ m \notin UpdatesOn(History, q) /\ History'[m] = e
               /\ \A i \in UpdatesOn(History, q) : History'[i] = History[i]
               /\ UpdatesOn(History', q)
                    = UpdatesOn(History, q) \cup (IF q = p THEN {m} ELSE {})
<1> DEFINE k == Len(History)
<1>1. /\ k \in Nat /\ DOMAIN History = 1 .. k /\ DOMAIN History' = 1 .. k + 1
      /\ \A i \in 1 .. k : History'[i] = History[i]
      /\ History'[k + 1] = e
      /\ \A i \in 1 .. k + 1 : i \in 1 .. k \/ i = k + 1
  BY WroteLog
<1> HIDE DEF k
<1>2. k + 1 \notin 1 .. k /\ \A i \in 1 .. k : i \in 1 .. k + 1
      /\ k + 1 \in 1 .. k + 1
  BY <1>1
<1>3. IsUpdateOn(e, q) <=> q = p
  BY DEF Wrote, IsUpdateOn
<1>4. \A i : i \in UpdatesOn(History', q)
               <=> i \in UpdatesOn(History, q) \/ (i = k + 1 /\ q = p)
  BY <1>1, <1>2, <1>3 DEF UpdatesOn
<1> QED
  BY <1>1, <1>2, <1>4 DEF UpdatesOn, k

LEMMA Write_Kept ==
    ASSUME Known, Known', ReplayInv, NEW n \in Names, NEW p \in Pages,
           NEW cells \in WriteSets, NEW v \in Values, WritePage(n, p, cells, v)
    PROVE  /\ openTx[n] \in Xids /\ openTx[n] \in OpenXids
           /\ OpenXids' = OpenXids
           /\ Shows(History', Committed') = Shows(History, Committed)
<1> DEFINE x == openTx[n]
<1>1. x \in Xids /\ x \in OpenXids /\ OpenXids' = OpenXids /\ TypeInv
  <2>1. x # NoXid /\ openTx' = openTx
    BY DEF WritePage
  <2>2. openTx \in [Names -> Xids \cup {NoXid}] /\ TypeInv
    BY DEF Known, Base, TypeInv, TypeOK
  <2> QED
    BY <2>1, <2>2, OpenSame DEF OpenXids
<1>2. History \in Seq(LogRecord)
  BY StepTypes, LogParts
<1>3. CASE Keeps
  <2>1. History' = History
    BY <1>1, <1>3, HistoryMoves
  <2>2. Committed' = Committed
    BY <2>1, NoNewCommit
  <2> QED
    BY <1>1, <2>1, <2>2
<1>4. ASSUME NEW e \in LogRecord, Wrote(n, p, cells, e)
      PROVE  Shows(History', Committed') = Shows(History, Committed)
  <2>1. History' = Append(History, e) /\ e.type = "update" /\ e.xid = x
    BY <1>1, <1>4, HistoryMoves DEF Wrote, IsUpdateOn
  <2>2. Committed' = Committed
    BY <2>1, NoNewCommit
  <2>3. x \notin Committed
    <3>1. ~Ended(History, Len(History), x)
      BY <1>1 DEF Known, LoserInv
    <3>2. DOMAIN History = 1 .. Len(History)
      BY <1>2
    <3>3. \A i \in DOMAIN History : i <= Len(History)
      BY <1>2
    <3> QED
      BY <3>1, <3>3, LoggedIs DEF Has, Ended, Ends
  <2>4. \A q \in Pages : \A i :
           /\ i \in UpdatesOn(History', q) /\ History'[i].xid \in Committed'
                <=> i \in UpdatesOn(History, q) /\ History[i].xid \in Committed
           /\ i \in UpdatesOn(History, q) /\ History[i].xid \in Committed
                => History'[i] = History[i]
    <3> TAKE q \in Pages
    <3> DEFINE m == Len(History) + 1
    <3>1. /\ History'[m] = e
          /\ \A i \in UpdatesOn(History, q) : History'[i] = History[i]
          /\ UpdatesOn(History', q)
               = UpdatesOn(History, q) \cup (IF q = p THEN {m} ELSE {})
      BY <1>4, Write_Log
    <3> HIDE DEF m
    <3>2. \A i : i \in UpdatesOn(History', q)
                   => i \in UpdatesOn(History, q) \/ History'[i].xid = x
      BY <2>1, <3>1
    <3>3. \A i : i \in UpdatesOn(History, q) => i \in UpdatesOn(History', q)
      BY <3>1
    <3> HIDE DEF x
    <3> QED
      BY <2>2, <2>3, <3>1, <3>2, <3>3
  <2> QED
    BY <1>2, <2>4, SameShows
<1> QED
  BY <1>1, <1>3, <1>4, WriteFacts

\* The record of the write is one more change of its transaction, of the cells
\* whose contents it changes.
LEMMA Write_Changed ==
    ASSUME Known, Known', ReplayInv, ObserveNow, ObserveNow', NEW n \in Names,
           NEW p \in Pages, NEW cells \in WriteSets, NEW v \in Values,
           WritePage(n, p, cells, v), NEW x, x = openTx[n]
    PROVE  changed' = [changed EXCEPT
              ![x] = changed[x] \cup {c \in Covered(p, cells) : seen[c] # v}]
<1> DEFINE new == {c \in Covered(p, cells) : seen[c] # v}
           own(h, y) == {c \in StoreCells : \E i \in UpdatesOn(h, c[1]) :
                            h[i].xid = y /\ c[2] \in Changed(h[i])}
<1>1. /\ x \in Xids /\ x \in OpenXids /\ OpenXids' = OpenXids
  BY Write_Kept
<1>2. /\ changed = Opened(History, OpenXids)
      /\ changed' = Opened(History', OpenXids')
  BY ChangedOpened DEF ObserveNow
<1>3. /\ \A c \in StoreCells : seen[c] = CurrentBytes(c[1])[c[2]]
      /\ \A o \in UserCells :
            pending'.data[o] = IF o \in cells THEN v ELSE CurrentBytes(p)[o]
  BY Write_Seen
<1>4. ASSUME NEW y \in Xids
      PROVE  own(History', y) = IF y = x THEN own(History, y) \cup new
                                ELSE own(History, y)
  <2>1. CASE Keeps /\ pending'.data = CurrentBytes(p)
    <3>1. History' = History
      BY <2>1, CalmKeeps
    <3>2. new = {}
      BY <1>3, <2>1, CellParts DEF Covered
    <3> QED
      BY <3>1, <3>2
  <2>2. ASSUME NEW e \in LogRecord, Wrote(n, p, cells, e)
        PROVE  own(History', y) = IF y = x THEN own(History, y) \cup new
                                  ELSE own(History, y)
    <3> DEFINE m == Len(History) + 1
    <3>1. e.xid = x
      BY <2>2 DEF Wrote
    <3>2. ASSUME NEW c \in StoreCells
          PROVE  c \in new <=> c[1] = p /\ c[2] \in Changed(e)
      <4>1. c[2] \in UserCells /\ c[2] \in Offsets /\ c[2] \notin LsnCells
        BY CellParts
      <4>2. /\ c[2] \in Changed(e) =>
                  /\ c[2] \in cells
                  /\ e.before[c[2]] # e.after[c[2]]
                  /\ e.before[c[2]] = CurrentBytes(p)[c[2]]
                  /\ e.after[c[2]] = pending'.data[c[2]]
            /\ c[2] \notin Changed(e) =>
                  pending'.data[c[2]] = CurrentBytes(p)[c[2]]
        BY <2>2, <4>1 DEF Wrote, Changed, Differing
      <4> QED
        BY <1>3, <4>1, <4>2 DEF Covered
    <3>3. ASSUME NEW c \in StoreCells
          PROVE  (\E i \in UpdatesOn(History', c[1]) :
                     History'[i].xid = y /\ c[2] \in Changed(History'[i]))
                 <=> \/ \E i \in UpdatesOn(History, c[1]) :
                           History[i].xid = y /\ c[2] \in Changed(History[i])
                     \/ c[1] = p /\ x = y /\ c[2] \in Changed(e)
      <4>1. c[1] \in Pages
        BY CellParts
      <4>2. /\ History'[m] = e
            /\ \A i \in UpdatesOn(History, c[1]) : History'[i] = History[i]
            /\ UpdatesOn(History', c[1])
                 = UpdatesOn(History, c[1])
                     \cup (IF c[1] = p THEN {m} ELSE {})
        BY <2>2, <4>1, Write_Log
      <4> HIDE DEF m
      <4> QED
        BY <3>1, <4>2
    <3>4. new \subseteq StoreCells
      BY DEF Covered
    <3> QED
      BY <3>2, <3>3, <3>4
  <2> QED
    BY <2>1, <2>2, WriteFacts
<1>5. ASSUME NEW y \in Xids
      PROVE  Opened(History', OpenXids')[y]
               = IF y = x THEN Opened(History, OpenXids)[y] \cup new
                 ELSE Opened(History, OpenXids)[y]
  BY <1>1, <1>4 DEF Opened
<1> HIDE DEF new
<1>6. Opened(History', OpenXids')
        = [y \in Xids |-> IF y = x THEN Opened(History, OpenXids)[y] \cup new
                          ELSE Opened(History, OpenXids)[y]]
  BY <1>5 DEF Opened
<1>7. changed' = [changed EXCEPT ![x] = changed[x] \cup new]
  BY <1>1, <1>2, <1>6 DEF Opened
<1> QED
  BY <1>7 DEF new

LEMMA Write_Store ==
    ASSUME Known, Known', ReplayInv, ~DirtyWrites, ObserveNow, ObserveNow',
           NEW n \in Names, NEW p \in Pages, NEW cells \in WriteSets,
           NEW v \in Values, WritePage(n, p, cells, v)
    PROVE  \E x \in Xids : Store!Write(x, Covered(p, cells), v)
<1> DEFINE x == openTx[n]
<1>1. x \in Xids /\ x \in OpenXids /\ kept' = kept
  <2>1. kept = Shows(History, Committed) /\ kept' = Shows(History', Committed')
    BY KeptShows DEF ObserveNow
  <2> QED
    BY <2>1, Write_Kept
<1>2. ASSUME NEW y \in Xids \ {x}
      PROVE  changed[y] \cap Covered(p, cells) = {}
  <2>1. changed[y] = IF y \notin OpenXids THEN {}
                     ELSE {c \in StoreCells : \E i \in UpdatesOn(History, c[1]) :
                             History[i].xid = y /\ c[2] \in Changed(History[i])}
    BY ChangedOpened DEF ObserveNow, Opened
  <2> SUFFICES ASSUME y \in OpenXids, NEW c \in StoreCells, c[1] = p,
                      c[2] \in cells, NEW i \in UpdatesOn(History, p),
                      History[i].xid = y, c[2] \in Changed(History[i])
               PROVE  FALSE
    BY <2>1 DEF Covered
  <2>2. Uncontended(x, p, cells)
    BY WriteFacts
  <2>3. i \in DOMAIN History /\ IsUpdateOn(History[i], p)
        /\ History[i].xid \in OpenXids \ {x}
    BY DEF UpdatesOn
  <2> QED
    BY <2>2, <2>3 DEF Uncontended, Changed
<1>3. seen' = [c \in StoreCells |->
                 IF c \in Covered(p, cells) THEN v ELSE seen[c]]
  BY Write_Seen
<1>4. changed' = [changed EXCEPT
         ![x] = changed[x] \cup {c \in Covered(p, cells) : seen[c] # v}]
  BY Write_Changed
<1> HIDE DEF x
<1>5. Store!Write(x, Covered(p, cells), v)
  BY <1>1, <1>2, <1>3, <1>4 DEF Store!Write
<1> QED
  BY <1>1, <1>5

-----------------------------------------------------------------------------
(* Every step is one of the store, or a stutter *)

LEMMA Observed_Now ==
    ObserveNow /\ [StoreNext]_<<vars, seen, kept, changed>> => ObserveNow'
<1> SUFFICES ASSUME ObserveNow, [StoreNext]_<<vars, seen, kept, changed>>
             PROVE  ObserveNow'
  OBVIOUS
<1>1. CASE StoreNext
  BY <1>1 DEF StoreNext, Observe, ObserveNow
<1>2. CASE UNCHANGED <<vars, seen, kept, changed>>
  <2>1. /\ KeptCells' = KeptCells /\ ChangedCells' = ChangedCells
    BY <1>2 DEF vars, KeptCells, ChangedCells, Replayed, Updates, Changes,
                Committed, Logged, History, OpenXids
  <2>2. SeenCells(kept)' = SeenCells(kept)
    BY <1>2 DEF vars, SeenCells, CurrentBytes, Cached
  <2> QED
    BY <1>2, <2>1, <2>2 DEF ObserveNow
<1> QED
  BY <1>1, <1>2

LEMMA Store_Hidden ==
    ASSUME Known, Known', ServedInv, ServedInv', FollowedRepeat,
           FollowedRepeat', ObserveNow, ObserveNow', Hidden
    PROVE  UNCHANGED <<seen, kept, changed>>
<1>1. /\ kept = Shows(History, Committed)
      /\ kept' = Shows(History', Committed')
      /\ changed = Opened(History, OpenXids)
      /\ changed' = Opened(History', OpenXids')
  BY KeptShows, ChangedOpened DEF ObserveNow
<1>2. /\ seen = Shows(History, Committed \cup OpenXids)
      /\ seen' = Shows(History', Committed' \cup OpenXids')
  BY SeenBoth DEF ObserveNow
<1> QED
  BY <1>1, <1>2 DEF Hidden

LEMMA Store_Commit ==
    ASSUME Known, Known', ApartInv, ServedInv, ServedInv', FollowedRepeat,
           FollowedRepeat', ObserveNow, ObserveNow', NEW n \in Names,
           CommitRecord(n)
    PROVE  \E x \in Xids : Store!Commit(x)
<1> DEFINE x == openTx[n]
<1>1. /\ kept = Shows(History, Committed)
      /\ kept' = Shows(History', Committed')
      /\ changed = Opened(History, OpenXids)
      /\ changed' = Opened(History', OpenXids')
  BY KeptShows, ChangedOpened DEF ObserveNow
<1>2. /\ seen = Shows(History, Committed \cup OpenXids)
      /\ seen' = Shows(History', Committed' \cup OpenXids')
  BY SeenBoth DEF ObserveNow
<1>3. /\ x \in Xids
      /\ Shows(History', Committed')
           = [c \in StoreCells |->
                IF c \in Opened(History, OpenXids)[x]
                THEN Shows(History, Committed \cup OpenXids)[c]
                ELSE Shows(History, Committed)[c]]
      /\ Opened(History', OpenXids')
           = [Opened(History, OpenXids) EXCEPT ![x] = {}]
      /\ Shows(History', Committed' \cup OpenXids')
           = Shows(History, Committed \cup OpenXids)
  BY Commit_Store
<1> HIDE DEF x
<1>4. Store!Commit(x)
  BY <1>1, <1>2, <1>3 DEF Store!Commit
<1> QED
  BY <1>3, <1>4

LEMMA Store_Crash ==
    ASSUME Known, Known', CommitsFlushed, ObserveNow, ObserveNow',
           Kill \/ ExitDone
    PROVE  Store!Crash
<1>1. /\ OpenXids' = {} /\ pc' = "down"
      /\ Shows(History', Committed') = Shows(History, Committed)
  BY CrashKeeps
<1>2. kept' = kept
  BY <1>1, KeptShows DEF ObserveNow
<1>3. seen' = kept'
  BY <1>1 DEF ObserveNow, SeenCells
<1>4. changed' = [x \in Xids |-> {}]
  BY <1>1, ChangedOpened DEF ObserveNow, Opened
<1> QED
  BY <1>2, <1>3, <1>4 DEF Store!Crash

LEMMA Next_Store ==
    ASSUME ~DirtyWrites, Known, Known', ReplayInv, ServiceInv, ServiceInv',
           CommitsFlushed, FollowedRepeat, FollowedRepeat', ObserveNow,
           ObserveNow', [Next]_vars
    PROVE  [Store!Next]_Store!storeVars
<1>1. ApartInv /\ ServedInv /\ ServedInv' /\ TypeInv
  BY DEF ServiceInv, Known, WalInv
<1>2. CASE Hidden
  BY <1>1, <1>2, Store_Hidden DEF Store!storeVars
<1>3. CASE Unlogged \/ Restart \/ \E n \in Names : TxBegin(n)
  BY <1>2, <1>3, Unlogged_Hidden, Restart_Hidden, TxBegin_Hidden
<1>4. CASE \E n \in Names : CommitRecord(n)
  BY <1>1, <1>4, Store_Commit DEF Store!Next
<1>5. ASSUME NEW n \in Names, NEW p \in Pages, NEW cells \in WriteSets,
             NEW v \in Values, WritePage(n, p, cells, v)
      PROVE  Store!Next
  <2>1. \E x \in Xids : Store!Write(x, Covered(p, cells), v)
    BY <1>5, Write_Store
  <2>2. Covered(p, cells) \in SUBSET StoreCells
    BY DEF Covered
  <2> QED
    BY <2>1, <2>2 DEF Store!Next
<1>6. CASE Kill \/ ExitDone
  BY <1>6, Store_Crash DEF Store!Next
<1> QED
  BY <1>1, <1>3, <1>4, <1>5, <1>6, StoreSteps

LEMMA Init_Store == Init /\ ObserveNow => Store!Init
<1> SUFFICES ASSUME Init, ObserveNow PROVE Store!Init
  OBVIOUS
<1>1. /\ pc = "down" /\ openTx = [n \in Names |-> NoXid]
      /\ << >> \in Seq(LogRecord) /\ log = ReopenLog(<< >>)
  BY DEF Init
<1>2. log.stable = << >> /\ log.buf = << >>
  BY <1>1, ReopenType
<1>3. History = << >>
  BY <1>2, ConcatEmptySeq DEF History
<1>4. \A p : Updates(p) = {}
  BY <1>3 DEF Updates
<1>5. OpenXids = {}
  BY <1>1 DEF OpenXids
<1>6. kept = [c \in StoreCells |-> 0]
  BY <1>4 DEF ObserveNow, KeptCells, Replayed
<1>7. seen = kept
  BY <1>1 DEF ObserveNow, SeenCells
<1>8. changed = [x \in Xids |-> {}]
  BY <1>5 DEF ObserveNow, ChangedCells
<1> QED
  BY <1>6, <1>7, <1>8 DEF Store!Init

\* The engine implements the store: on any set of pages that recovery can
\* repeat, reads, commits, crashes and restarts look like those of a store
\* that knows no page, log, pool, checkpoint or recovery. A change shows at
\* once, a commit keeps the cells its transaction changed as they are seen
\* and no others, a crash or an exit at any moment outside recovery shows
\* what is kept, and nothing else the engine does shows at all (write_page,
\* commit, _make_room, flush, _checkpoint, _phase_redo, _phase_undo).
THEOREM EngineImplementsStore ==
    ASSUME ~CrashInRecovery, ~DirtyWrites
    PROVE  StoreSpec /\ []FollowedRepeat => ImplementsStore
<1>1. [StoreNext]_<<vars, seen, kept, changed>> => [Next]_vars
  BY DEF StoreNext
<1>2. StoreSpec => Spec
  BY <1>1, PTL DEF StoreSpec, Spec
<1>3. StoreSpec => []ObserveNow
  BY Observed_Now, PTL DEF StoreSpec
<1>4. /\ Known /\ Known' /\ ReplayInv /\ ServiceInv /\ ServiceInv'
      /\ CommitsFlushed /\ FollowedRepeat /\ FollowedRepeat' /\ ObserveNow
      /\ ObserveNow' /\ [Next]_vars
      => [Store!Next]_Store!storeVars
  BY Next_Store
<1> QED
  BY <1>1, <1>2, <1>3, <1>4, Init_Store, AlwaysKnown, ReplayInvariant,
     ServiceInvariant, AlwaysFlushed, PTL
     DEF StoreSpec, ImplementsStore, Store!Spec
=============================================================================
