------------------------------ MODULE RecordMap ------------------------------
(***************************************************************************)
(* What FileIndexManager promises on top of transactions: a relation that  *)
(* is created once, and a set of records, at most one per primary key.     *)
(* A transaction that is open at a crash leaves nothing, a committed one   *)
(* everything.                                                             *)
(***************************************************************************)
CONSTANTS Keys, Tx, Relation     \* Relation: the type itself

VARIABLES now,       \* what searches answer
          kept,      \* what they would answer after a crash
          touched    \* open transaction -> what it inserted or deleted

mapVars == <<now, kept, touched>>

Touch(x, thing) == touched' = [touched EXCEPT ![x] = touched[x] \cup {thing}]

Init == now = {} /\ kept = {} /\ touched = [x \in Tx |-> {}]

Create(x) ==
    /\ Touch(x, Relation)
    /\ Relation \notin now
    /\ now' = now \cup {Relation}
    /\ UNCHANGED kept
Insert(x, k) ==
    /\ Touch(x, k)
    /\ Relation \in now /\ k \notin now
    /\ now' = now \cup {k}
    /\ UNCHANGED kept
Delete(x, k) ==
    /\ Touch(x, k)
    /\ k \in now
    /\ now' = now \ {k}
    /\ UNCHANGED kept
Commit(x) ==
    /\ touched' = [touched EXCEPT ![x] = {}]
    /\ kept' = (kept \ touched[x]) \cup (now \cap touched[x])
    /\ UNCHANGED now
Crash ==
    /\ touched' = [x \in Tx |-> {}]
    /\ now' = kept
    /\ UNCHANGED kept

Next ==
    \/ \E x \in Tx : Create(x) \/ Commit(x)
    \/ \E x \in Tx, k \in Keys : Insert(x, k) \/ Delete(x, k)
    \/ Crash
Spec == Init /\ [][Next]_mapVars
=============================================================================
