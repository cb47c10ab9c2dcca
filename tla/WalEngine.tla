------------------------------ MODULE WalEngine ------------------------------
(***************************************************************************)
(* The storage engine as a state machine: any input, any crash.  The       *)
(* module puts the actions of Runtime and CrashRecovery together and       *)
(* states what the engine promises.                                        *)
(***************************************************************************)
EXTENDS CrashRecovery

Init ==
    /\ disk = [p \in Pages |-> ZeroImage]
    /\ fileSize = [f \in Files |-> 0]
    /\ master = NoLsn
    /\ log = ReopenLog(<< >>)
    /\ filePages = [f \in Files |-> 0]
    /\ pool = EmptyPool
    /\ txTable = NoTable /\ dpt = NoDirty
    /\ nextXid = 0 /\ opsSinceCkpt = 0
    /\ openTx = [n \in Names |-> NoXid]
    /\ pc = "down"
    /\ pending = Nothing
    /\ scan = 0 /\ toUndo = [x \in Xids |-> NoLsn]
    /\ runs = 0 /\ bootLen = 0
    /\ acked = {}

Serve ==
    \/ \E n \in Names : TxBegin(n) \/ CommitRecord(n)
    \/ \E p \in Pages : GetPage(p) \/ AllocatePage(p)
    \/ \E n \in Names, p \in Pages, cells \in WriteSets, v \in Values :
          WritePage(n, p, cells, v)
    \/ StartFlush \/ Shutdown

\* The steps that carry on what an operation started.
Continue ==
    \/ Install \/ CheckpointBegin \/ CheckpointEnd \/ WriteMaster \/ CommitEnd
    \/ \E p \in Pages : FlushPage(p)
    \/ FlushDone \/ ExitDone

Recover ==
    \/ AnalyzeRecord \/ AnalysisDone
    \/ RedoSkip \/ RedoApply \/ EnsurePageExists \/ RedoFresh \/ RedoDone
    \/ \E x \in Xids : UndoRecord(x) \/ FinishCommitted(x)
    \/ EndLoser \/ UndoDone \/ RecoveryDone \/ Boot

Next == Serve \/ Continue \/ Recover \/ Restart \/ Kill

Spec == Init /\ [][Next]_vars

\* The one thread runs on: recovery and the rest of an operation never wait.
Fairness == WF_vars(Recover) /\ WF_vars(Continue)

-----------------------------------------------------------------------------
(* What a state is made of *)

TypeOK ==
    /\ disk \in [Pages -> Image]
    /\ fileSize \in [Files -> 0 .. MaxPages]
    /\ master \in Lsns
    /\ log \in LogState
    /\ filePages \in [Files -> 0 .. MaxPages]
    /\ pool \in Pool
    /\ txTable \in TxTable /\ dpt \in DirtyPageTable
    /\ nextXid \in Nat /\ opsSinceCkpt \in Nat
    /\ openTx \in [Names -> Xids \cup {NoXid}]
    /\ pc \in PCs
    /\ pending \in [page : Pages \cup {NoPage}, data : Image]
    /\ scan \in Nat /\ toUndo \in [Xids -> Lsns]
    /\ runs \in 0 .. MaxRuns /\ bootLen \in Nat
    /\ acked \subseteq Xids

-----------------------------------------------------------------------------
(* Reading the log as a history *)

IndicesOf(t) == {i \in DOMAIN History : History[i].type = t}
Updates(p) == {i \in DOMAIN History : IsUpdateOn(History[i], p)}
Changes(i) == Differing(History[i].before, History[i].after)

\* The transactions with a record of type t among the first n.
Logged(t, n) == {History[i].xid : i \in {j \in 1 .. n : History[j].type = t}}
Committed     == Logged("commit", Len(History))
RolledBack(n) == Logged("end", n) \ Logged("commit", n)

\* What cell o of p holds once exactly the transactions xs have happened.
Replayed(p, o, xs) ==
    LET is == {i \in Updates(p) : o \in Changes(i) /\ History[i].xid \in xs}
    IN  IF is = {} THEN 0 ELSE History[Max(is)].after[o]

\* The pages on which the recovery of this code repeats history: none of
\* their updates belongs to a loser an earlier recovery has ended, and none
\* has the LSN 0 that a never-stamped page also shows.  The runs of the
\* findings show what happens on the others.
Repeatable(p) ==
    \A i \in Updates(p) : /\ History[i].xid \notin RolledBack(bootLen)
                          /\ History[i].lsn # 0

\* The cells data operations write; page_type is also set without a log record.
UserCells == (UNION WriteSets) \ {TypeCell}
Served(p, xs) == \A o \in UserCells : CurrentBytes(p)[o] = Replayed(p, o, xs)

-----------------------------------------------------------------------------
(* What the engine promises *)

\* Atomicity and durability together, for every page recovery can repeat:
\* between two operations each cell shows the last change by a committed or
\* a still open transaction, and no loser's change (commit, _phase_redo,
\* _phase_undo, and eviction of uncommitted pages in _make_room).
ServedIsHistory ==
    pc = "idle" =>
        \A p \in Pages : Repeatable(p) => Served(p, Committed \cup OpenXids)

\* Whatever crashes fall inside recovery and whoever overwrites whom: a page
\* that only committed and open transactions have changed serves all their
\* changes, and what recovery does to others leaves it alone (_phase_redo,
\* _phase_undo, _make_room).
CommittedPagesServed ==
    pc = "idle" =>
        \A p \in Pages :
            (\A i \in Updates(p) :
                /\ History[i].lsn # 0
                /\ History[i].xid \in Committed \cup OpenXids)
            => Served(p, Committed \cup OpenXids)

\* "Repeat History": when Redo ends the files hold every change that is in
\* wal.log, losers' included, whatever had or had not been flushed before
\* the crash and wherever the last checkpoint was (_phase_redo's skips).
RepeatsHistory ==
    pc = "redo" /\ scan > bootLen =>
        \A p \in Pages, o \in UserCells :
            Repeatable(p) => disk[p][o] = Replayed(p, o, Xids)

\* WAL #1: a page the pool writes to its file carries no change whose record
\* could still be lost, nor any record up to its pageLSN
\* (_wal_before_flush in _make_room and flush).
WriteAheadRule ==
    [][\A p \in Pages :
          (disk'[p] # disk[p] /\ pc \notin Recovering) =>
              \A rec \in Range(log'.buf) :
                  ~IsUpdateOn(rec, p) /\ rec.lsn > ReadPageLsn(disk'[p])
      ]_vars

\* WAL #2: a transaction whose commit was answered has its commit record in
\* wal.log, through every later crash (commit).
CommitIsDurable ==
    \A x \in acked : \E i \in DOMAIN log.stable :
                        log.stable[i].type = "commit" /\ log.stable[i].xid = x

\* LSNs strictly increase along the log, through restarts, and flushedLSN is
\* the last one in the file (__init__'s counters, _emit, _flush_log).
LogOrdered ==
    /\ \A i, j \in DOMAIN History : i < j => History[i].lsn < History[j].lsn
    /\ \A i \in DOMAIN History : History[i].lsn < log.next
    /\ log.flushed = IF log.stable = << >> THEN NoLsn ELSE LastOf(log.stable).lsn

\* The prev_lsn chain of a transaction visits each of its updates, latest
\* first, and ends at its first one (_emit_with_lsn across checkpoints).
ChainIntact ==
    \A i \in IndicesOf("update") :
        LET earlier == {j \in IndicesOf("update") :
                           j < i /\ History[j].xid = History[i].xid}
        IN  History[i].prev = IF earlier = {} THEN NoLsn
                              ELSE History[Max(earlier)].lsn

\* Analysis finds exactly the losers: a transaction with updates in the log
\* and neither commit nor end, and where its chain starts, whether it was
\* learnt from the checkpoint's table or from the log (_phase_analysis).
LosersFound ==
    pc = "redo" =>
        \A x \in Xids :
            LET mine  == {i \in IndicesOf("update") : History[i].xid = x}
                loser == /\ mine # {}
                         /\ x \notin Logged("commit", bootLen)
                         /\ x \notin Logged("end", bootLen)
            IN  /\ loser => txTable[x] = Active(History[Max(mine)].lsn)
                /\ ~loser => txTable[x].status # "active"
                             \/ txTable[x].lastLSN = NoLsn

\* Between two operations the transactions with work to lose are the open
\* ones: recovery leaves none behind and commit takes its own away.
NoZombies ==
    pc = "idle" =>
        /\ \A x \in OpenXids : txTable[x].status = "active"
        /\ \A x \in Xids \ OpenXids : txTable[x].lastLSN = NoLsn

\* master.rec names a checkpoint whose end record is in wal.log
\* ("master points at a *complete* ckpt", _checkpoint).
MasterIsComplete == master = NoLsn \/ CheckpointEnds(log.stable, master) # {}

\* The dirty page table a checkpoint may snapshot at any moment reaches back
\* to the oldest change the files lack (setdefault, page_flushed): Redo can
\* start there.
RecLsnReachesBack ==
    pc \in {"idle", "ckptend"} =>
        \A p \in Pages : \A i \in Updates(p) :
            (/\ Repeatable(p)
             /\ \A j \in Updates(p) :
                   History[j].xid \notin RolledBack(Len(History))
             /\ ReadPageLsn(disk[p]) < History[i].lsn)
            => dpt[p] # NoLsn /\ dpt[p] <= History[i].lsn

\* The pool never outgrows buffer_pool_size, holds a page once and only
\* pages that exist, and no frame is dirty that flush() would not visit.
PoolSound ==
    /\ Len(pool.order) <= PoolSize
    /\ \A i, j \in DOMAIN pool.order :
          i # j => pool.order[i] # pool.order[j]
    /\ \A p \in Pages :
          /\ pool.frame[p].dirty => Cached(p)
          /\ Cached(p) => Allocated(p)

\* Every operation, every recovery and every checkpoint comes to its end,
\* unless the process dies first.
OperationsFinish == pc \notin {"idle", "down"} ~> pc \in {"idle", "down"}
=============================================================================
