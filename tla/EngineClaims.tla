---------------------------- MODULE EngineClaims ----------------------------
(***************************************************************************)
(* What the docs and comments of the repository say of the engine, and the *)
(* code does not do: each property is refuted by a run of its own, and     *)
(* WalEngine states what holds instead.                                    *)
(***************************************************************************)
EXTENDS WalEngine

\* "Undo (take back the losers)" (recovery_manager.py:15): a change that one
\* recovery took back is not served again, however often the engine crashes.
LosersStayUndone ==
    pc = "idle" =>
        \A p \in Pages :
            (\A i \in Updates(p) : History[i].lsn # 0)
            => Served(p, Committed \cup OpenXids)

\* A redo skip means "already on disk" (recovery_manager.py:344): if it does,
\* a change that was logged at LSN 0 survives the first crash like any other.
SkippedIsOnDisk ==
    pc = "idle" =>
        \A p \in Pages :
            (\A i \in Updates(p) : History[i].xid \notin RolledBack(bootLen))
            => Served(p, Committed \cup OpenXids)

\* "leave the rest of the window alone so we don't undo a later committed
\* change that shares the window" (recovery_manager.py:391): a cell whose
\* last change was committed shows that change, however recovery went.
UndoSparesCommitted ==
    pc = "idle" =>
        \A p \in Pages, o \in UserCells :
            LET is == {i \in Updates(p) : o \in Changes(i)}
            IN  Repeatable(p) /\ is # {} /\ History[Max(is)].xid \in Committed
                => CurrentBytes(p)[o] = History[Max(is)].after[o]
=============================================================================
