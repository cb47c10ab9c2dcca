------------------------------ MODULE ReplayInv ------------------------------
(***************************************************************************)
(* The inductive invariant behind the theorems about what recovery makes   *)
(* of the pages: files, pool and dirty page table held against the log.    *)
(* A page is replayed by giving each of its cells the after-image of the   *)
(* last update that changed it; every image of a page, in its file, in the *)
(* pool or in a before-image, is what that gives at some point of the log. *)
(***************************************************************************)
EXTENDS WalEngineInv

\* The cells that are followed: what users see, and the pageLSN.
Track == UserCells \cup LsnCells

UpdatesOn(h, p) == {i \in DOMAIN h : IsUpdateOn(h[i], p)}
Changed(rec) == Differing(rec.before, rec.after)
ValueOf(h, is, o) == IF is = {} THEN 0 ELSE h[Max(is)].after[o]

\* Cell o of page p after the first n records of h.
Writers(h, p, o, n) == {i \in UpdatesOn(h, p) : i <= n /\ o \in Changed(h[i])}
At(h, p, o, n) == ValueOf(h, Writers(h, p, o, n), o)
Shown(img, h, p, n) == \A o \in Track : img[o] = At(h, p, o, n)

\* The transactions whose updates the files need no more than repeated: once
\* Redo is over the committed and the open ones; before that all that no
\* earlier recovery has undone, of which only the committed ones are known
\* if recoveries may have been interrupted.
Replaying == {"down", "analysis", "redo", "redofresh"}
Trusted ==
    IF pc \in Replaying /\ ~CrashInRecovery
    THEN Xids \ RolledBack(Len(History))
    ELSE Committed \cup OpenXids

\* Among the first n records, p was changed by these only, and not at LSN 0.
Sound(h, xs, p, n) ==
    \A i \in UpdatesOn(h, p) : i <= n => h[i].lsn # 0 /\ h[i].xid \in xs
SoundTo(p, n) == Sound(History, Trusted, p, n)

\* Update i was made on the page as the log shows it before i, and the log
\* shows its LSN in the header after it.
Link(h, p, i) ==
    /\ Changed(h[i]) \subseteq h[i].window
    /\ \A o \in Track \cap h[i].window : h[i].before[o] = At(h, p, o, i - 1)
    /\ At(h, p, LsnOffset, i) = h[i].lsn % ByteBase
    /\ At(h, p, LsnOffset + 1, i) = h[i].lsn \div ByteBase
LinkInv ==
    \A p \in Pages : \A i \in UpdatesOn(History, p) :
        SoundTo(p, i) => Link(History, p, i)

\* The file shows the page at some point of wal.log, in Redo not before scan.
FileShows(p) ==
    SoundTo(p, Len(log.stable)) =>
        \E n \in 0 .. Len(log.stable) :
            /\ Shown(disk[p], History, p, n)
            /\ pc \in {"redo", "redofresh"} => n >= scan - 1
FileInv == \A p \in Pages : FileShows(p)

\* The engine reads the page as the whole log shows it.
Now(p) == IF pending.page = p THEN pending.data ELSE CurrentBytes(p)
MemoryShows(p) ==
    SoundTo(p, Len(History)) => Shown(Now(p), History, p, Len(History))
MemoryInv == pc \notin Replaying => \A p \in Pages : MemoryShows(p)

\* Table d reaches back to update i of p if the file lacks it.
Reaches(d, p, i) ==
    ReadPageLsn(disk[p]) < History[i].lsn =>
        d[p] # NoLsn /\ d[p] <= History[i].lsn
AnalyzedSoFar(i) ==
    pc = "analysis" =>
        \/ i < scan
        \/ \E e \in CheckpointEnds(log.stable, master) : i < e
Reached(p) ==
    SoundTo(p, Len(History)) =>
        \A i \in UpdatesOn(History, p) : AnalyzedSoFar(i) => Reaches(dpt, p, i)
ReachInv == pc # "down" => \A p \in Pages : Reached(p)

\* So does the table a checkpoint logged, for the updates before it.
TableReached(p, e) ==
    SoundTo(p, e) /\ SoundTo(p, Len(log.stable)) =>
        \A i \in UpdatesOn(History, p) :
            i < e => Reaches(History[e].dirty, p, i)
Tables == {e \in DOMAIN History : History[e].type = "end_chkpt"}
LoggedReachInv == \A e \in Tables : \A p \in Pages : TableReached(p, e)

\* recLSNs are LSNs of the past.
PastInv ==
    /\ \A p \in Pages : dpt[p] < log.next
    /\ \A e \in Tables : \A p \in Pages : History[e].dirty[p] < History[e].lsn
    /\ pc = "analysis" =>
          \A k \in DOMAIN History :
              k >= scan /\ (\A e \in CheckpointEnds(log.stable, master) : e < k)
              => \A p \in Pages : dpt[p] < History[k].lsn

\* Beyond the end of a file there are zeroes, and clean frames are copies.
BlankBeyond == \A p \in Pages : p[2] >= fileSize[p[1]] => disk[p] = ZeroImage
SizesCounted == \A f \in Files : fileSize[f] <= filePages[f]
FreshIsBlank ==
    LET p == log.stable[scan].page IN Allocated(p) /\ disk[p] = ZeroImage
CleanCopies ==
    \A p \in Pages :
        Cached(p) /\ ~pool.frame[p].dirty => pool.frame[p].data = disk[p]
StoreInv ==
    /\ BlankBeyond /\ CleanCopies
    /\ pc # "down" => SizesCounted
    /\ pc = "redofresh" => FreshIsBlank

\* Undo walks along updates of transactions that are not ended in the log,
\* and the ends it logs are in wal.log before input is served.
UndoListInv ==
    /\ pc \in {"undo", "endloser"} =>
          \A x \in Xids : toUndo[x] # NoLsn =>
              /\ \A i \in DOMAIN History :
                    History[i].type \in {"commit", "end"} =>
                        History[i].xid # x
              /\ \E i \in DOMAIN History : /\ History[i].type = "update"
                                           /\ History[i].xid = x
                                           /\ History[i].lsn = toUndo[x]
    /\ pc \notin (Recovering \ {"boot"}) \cup {"down"} =>
          \A i \in DOMAIN History : History[i].type = "end" =>
              i <= Len(log.stable) \/ History[i].xid \in Committed
    /\ pc = "down" => log.buf = << >>

\* Whatever crashes, checkpoints and evictions come: a page that no untrusted
\* transaction changed shows in its file, in the pool and in the before-images
\* of its records what the log says of some moment, and the dirty page table
\* reaches back to what the file lacks (_phase_redo, log_page_update,
\* page_flushed, _phase_undo).
ReplayInv ==
    /\ LinkInv /\ FileInv /\ MemoryInv /\ ReachInv /\ LoggedReachInv
    /\ PastInv /\ StoreInv /\ UndoListInv

-----------------------------------------------------------------------------
(* With losers on the page: while no crash falls inside recovery and no    *)
(* transaction overwrites an uncommitted change                            *)

\* Two transactions change the same cell only one after the other.
ApartInv ==
    \A p \in Pages : \A i, j \in UpdatesOn(History, p) :
        (/\ i < j /\ History[i].xid # History[j].xid
         /\ Changed(History[i]) \cap Changed(History[j]) \cap UserCells # {})
        => \E k \in i .. j : /\ History[k].type \in {"commit", "end"}
                             /\ History[k].xid = History[i].xid

\* What Undo has not taken back yet.
Undoing == {"undo", "endloser"}
Remains(i) ==
    IF pc \in Undoing
    THEN \/ History[i].xid \in Committed
         \/ History[i].lsn <= toUndo[History[i].xid]
    ELSE History[i].xid \in Committed \cup OpenXids
Remaining(p, o) == {i \in UpdatesOn(History, p) :
                       o \in Changed(History[i]) /\ Remains(i)}

\* Undo may take its before-images from the log, and write every page.
RepeatedInv ==
    pc \in Undoing =>
        \A p \in Pages : Repeatable(p) =>
            /\ UpdatesOn(History, p) # {} => Allocated(p)
            /\ \A i \in UpdatesOn(History, p) : Link(History, p, i)

\* A cell shows the last change that remains.
ServedInv ==
    pc \notin Replaying =>
        \A p \in Pages : Repeatable(p) =>
            \A o \in UserCells :
                Now(p)[o] = ValueOf(History, Remaining(p, o), o)

\* While recoveries run to their end and no uncommitted change is overwritten:
\* a cell shows the last change that undo has not taken back or was not meant
\* to take back, at every step of it and of the service after it
\* (_phase_undo, log_page_update, get_page).
ServiceInv == ApartInv /\ RepeatedInv /\ ServedInv
=============================================================================
