---------------------------- MODULE CommittedStore ----------------------------
(***************************************************************************)
(* What the storage engine promises the layers above it: cells that        *)
(* transactions change and reads see at once, of which a crash, at any     *)
(* moment, keeps the changes of the committed transactions, all of them,   *)
(* and nothing else.  No page, log, pool, checkpoint or recovery shows.    *)
(***************************************************************************)
CONSTANTS Cells,     \* the places that hold data
          Tx,        \* transaction ids
          Contents,  \* what a change puts there
          Blank      \* what a cell holds that was never changed

VARIABLES seen,      \* cell -> what a read returns
          kept,      \* cell -> what it would return after a crash
          changed    \* transaction -> cells it changed while it is open

storeVars == <<seen, kept, changed>>

Init ==
    /\ seen = [c \in Cells |-> Blank] /\ kept = seen
    /\ changed = [x \in Tx |-> {}]

\* x changes cells that no other open transaction has changed.
Write(x, cells, v) ==
    /\ \A y \in Tx \ {x} : changed[y] \cap cells = {}
    /\ seen' = [c \in Cells |-> IF c \in cells THEN v ELSE seen[c]]
    /\ changed' = [changed EXCEPT
                     ![x] = changed[x] \cup {c \in cells : seen[c] # v}]
    /\ UNCHANGED kept

Commit(x) ==
    /\ kept' = [c \in Cells |-> IF c \in changed[x] THEN seen[c] ELSE kept[c]]
    /\ changed' = [changed EXCEPT ![x] = {}]
    /\ UNCHANGED seen

Crash ==
    /\ seen' = kept
    /\ changed' = [x \in Tx |-> {}]
    /\ UNCHANGED kept

Next ==
    \/ \E x \in Tx, cells \in SUBSET Cells, v \in Contents : Write(x, cells, v)
    \/ \E x \in Tx : Commit(x)
    \/ Crash
Spec == Init /\ [][Next]_storeVars
=============================================================================
