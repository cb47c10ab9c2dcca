---------------------------- MODULE UnloggedWrites ----------------------------
(***************************************************************************)
(* The engine under EXPLAIN outside a transaction.  EXPLAIN executes the   *)
(* record command it explains; current_xid is None then, so the pages it   *)
(* changes and allocates enter the pool without a log record and without   *)
(* a stamp.  WalEngine is what serves every other input.                   *)
(***************************************************************************)
EXTENDS WalEngine

\* What the command makes of a page.  Slotted pages are edited in place; a
\* tree node is packed anew, with a header whose pageLSN bytes are zero.
Edited(p, cells, v) ==
    [o \in Offsets |-> IF o \in cells THEN v ELSE CurrentBytes(p)[o]]
Repacked(p, cells, v) == WritePageLsn(Edited(p, cells, v), 0)

\* write_page without a transaction: log_page_update returns at once.
BareWrite(p, image) ==
    /\ Ready
    /\ Allocated(p)
    /\ \/ /\ Cached(p)
          /\ pool' = Touch(pool, p, image, TRUE)
          /\ UNCHANGED <<disk, fileSize, filePages, log, dpt>>
       \/ ~Cached(p) /\ MakeRoomFor(p, image, TRUE, filePages)
    /\ UNCHANGED <<master, txTable, nextXid, opsSinceCkpt, openTx, pc, pending,
                   recovery, runs, acked>>

\* allocate_page, which needs no transaction either.
BareAllocate(p) ==
    /\ Ready
    /\ p[2] = filePages[p[1]]
    /\ MakeRoomFor(p, ZeroImage, TRUE, [filePages EXCEPT ![p[1]] = p[2] + 1])
    /\ UNCHANGED <<master, txTable, nextXid, opsSinceCkpt, openTx, pc, pending,
                   recovery, runs, acked>>

Explain ==
    \E p \in Pages :
       \/ BareAllocate(p)
       \/ \E cells \in WriteSets, v \in Values :
             \/ BareWrite(p, Edited(p, cells, v))
             \/ p[1] # CatalogFile /\ BareWrite(p, Repacked(p, cells, v))

ExplainSpec == Init /\ [][Next \/ Explain]_vars

\* buffer_manager.py:169, in write_page: "A log record is now guaranteed to
\* precede this page ever reaching disk."  No page is written to its file
\* while the record of a change of it waits in the log buffer.
RecordPrecedesPage ==
    [][\A p \in Pages :
          (disk'[p] # disk[p] /\ pc \notin Recovering) =>
              \A rec \in Range(log'.buf) : ~IsUpdateOn(rec, p)]_vars
=============================================================================
