----------------------------- MODULE EngineStore -----------------------------
(***************************************************************************)
(* WalEngine implements CommittedStore.  Three more variables show, at     *)
(* every moment, what the abstract store would hold; they are functions of *)
(* the engine's state, change nothing about its steps, and are there so    *)
(* that the mapping is evaluated once per step.  It reads the log for what *)
(* is kept and who changed what, the pool and the files for what is seen:  *)
(* that the three agree after every step is what the engine is for.        *)
(***************************************************************************)
EXTENDS WalEngine

CONSTANT Followed    \* the pages whose cells the store is compared with

ASSUME FollowedPages == Followed \subseteq Pages

VARIABLES seen, kept, changed

StoreCells == Followed \X UserCells

\* The changes of the transactions whose commit record exists.
KeptCells == [c \in StoreCells |-> Replayed(c[1], c[2], Committed)]

\* What a read finds: the page that write_page has stamped and not yet
\* installed, else the pool's or the file's.  A process that is down or
\* recovering answers nothing; what it will answer is what was kept.
SeenCells(kc) ==
    IF pc \in Recovering \cup {"down"} THEN kc
    ELSE [c \in StoreCells |-> IF pending.page = c[1] THEN pending.data[c[2]]
                               ELSE CurrentBytes(c[1])[c[2]]]

ChangedCells ==
    [x \in Xids |->
       IF x \notin OpenXids THEN {}
       ELSE {c \in StoreCells : \E i \in Updates(c[1]) :
                History[i].xid = x /\ c[2] \in Changes(i)}]

ObserveNow == /\ kept = KeptCells /\ seen = SeenCells(kept)
              /\ changed = ChangedCells
Observe == /\ kept' = KeptCells' /\ seen' = SeenCells(kept)'
           /\ changed' = ChangedCells'

StoreNext == Next /\ Observe
StoreSpec == Init /\ ObserveNow /\ [][StoreNext]_<<vars, seen, kept, changed>>

\* Recovery repeats history on every page that is followed.
FollowedRepeat == \A p \in Followed : Repeatable(p)

\* Eviction, write-back, checkpoints, partial log writes and all of Analysis,
\* Redo and Undo are invisible; a write shows at once, a commit keeps the
\* transaction's cells and no others, a crash or an exit shows what is kept.
Store == INSTANCE CommittedStore WITH
            Cells <- StoreCells, Tx <- Xids, Contents <- Values, Blank <- 0,
            seen <- seen, kept <- kept, changed <- changed
ImplementsStore == Store!Spec
=============================================================================
