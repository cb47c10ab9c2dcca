---------------------------- MODULE MCRecordStore ----------------------------
(***************************************************************************)
(* Instances of RecordStore for TLC.                                       *)
(***************************************************************************)
EXTENDS RecordClaims

\* Integers and ASCII strings are read back as they were written.
Faithful(k) == k

\* What transactions may insert while another one is open.
HeapOfTwo == {"heap_scan"} \X {1, 2}
TreeOfThree == {"bplus_tree"} \X {1, 2, 3}

\* Transactions play the same part.
Symmetry == Permutations(Tx)
=============================================================================
