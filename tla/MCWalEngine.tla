----------------------------- MODULE MCWalEngine -----------------------------
(* Small instances of WalEngine for TLC. *)
EXTENDS ReplayInv, TLC

\* Names play the same part.
Symmetry == Permutations(Names)

\* A page of five cells, page_type, the pageLSN and two slots: a change of
\* the second slot is logged in a window that brackets the first.
WriteEitherSlot == {{3}, {4}}
WriteSecondSlot == {{4}}

\* The files of an engine that ran once before: one empty transaction was
\* committed (LSNs 0 and 1), the catalog's first page was flushed at the exit.
OldLog == << [type |-> "commit", lsn |-> 0, prev |-> NoLsn, xid |-> 0],
             [type |-> "end", lsn |-> 1, prev |-> 0, xid |-> 0] >>
AgedInit ==
    /\ disk = [p \in Pages |-> IF p = <<CatalogFile, 0>> THEN BlankCatalog
                              ELSE ZeroImage]
    /\ fileSize = [f \in Files |-> IF f = CatalogFile THEN 1 ELSE 0]
    /\ log = ReopenLog(OldLog)
    /\ acked = {0}
    /\ master = NoLsn
    /\ filePages = [f \in Files |-> 0]
    /\ pool = EmptyPool
    /\ txTable = NoTable /\ dpt = NoDirty
    /\ nextXid = 0 /\ opsSinceCkpt = 0
    /\ openTx = [n \in Names |-> NoXid]
    /\ pc = "down"
    /\ pending = Nothing
    /\ scan = 0 /\ toUndo = [x \in Xids |-> NoLsn]
    /\ runs = 0 /\ bootLen = 0

AgedSpec == AgedInit /\ [][Next]_vars
FairAgedSpec == AgedSpec /\ Fairness

\* Either directory, empty or aged.
EitherSpec == (Init \/ AgedInit) /\ [][Next]_vars

\* Bound: from an empty directory a log that does not begin like the aged one
\* is followed to five LSNs.
FreshIsShort ==
    \/ Len(History) >= 2 /\ SubSeq(History, 1, 2) = OldLog
    \/ log.next <= 5
=============================================================================
