------------------------------ MODULE RecordView ------------------------------
(***************************************************************************)
(* RecordStore with two more variables: what searches answer, and what     *)
(* they would answer after a crash.  Both are functions of the store's     *)
(* state and change nothing about its steps; they are the refinement       *)
(* mapping to RecordMap, evaluated once per step.                          *)
(***************************************************************************)
EXTENDS RecordStore

VARIABLES now, kept

\* Served of the store that a step leads to, and of the one after a crash.
Observe ==
    \E st \in {Current'}, crashed \in {AfterCrash'} :
        now' = Served(st) /\ kept' = Served(crashed)

ViewInit == Init /\ now = Served(Current) /\ kept = Served(AfterCrash)
ViewNext == Next /\ Observe
ViewSpec == ViewInit /\ [][ViewNext]_<<vars, now, kept>>

\* The store implements the abstract map: commands insert and delete what
\* they say, a committed transaction is kept as a whole and a lost one leaves
\* nothing behind, whatever pages and index nodes it moved records to.
Map == INSTANCE RecordMap WITH
          Keys <- Keys, Tx <- Tx, Relation <- Relation,
          now <- now, kept <- kept, touched <- touched
ImplementsMap == Map!Spec
=============================================================================
