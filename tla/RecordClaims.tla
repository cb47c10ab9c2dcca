----------------------------- MODULE RecordClaims -----------------------------
(***************************************************************************)
(* What docstrings and comments of the record layer say of it, and the     *)
(* code does not do.                                                       *)
(***************************************************************************)
EXTENDS RecordView

\* hash_index.py:167, lookup_pointer: "Returns (None, None, n) if not found."
LookupReturns == ~hung

\* bplus_tree.py:5: "there are no in-memory tree structures, so the tree
\* survives restarts intact".  A commit makes exactly the transaction's own
\* inserts and deletes survive the next restart.
TreeSurvives ==
    [][\A x \in Tx : Commit(x) =>
          /\ now \cap touched[x] \subseteq kept'
          /\ (touched[x] \ now) \cap kept' = {}]_<<vars, now, kept>>
=============================================================================
