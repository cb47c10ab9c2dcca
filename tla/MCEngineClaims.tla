---------------------------- MODULE MCEngineClaims ----------------------------
(* Small instances of WalEngine in which TLC refutes the claims. *)
EXTENDS EngineClaims, TLC

Symmetry == Permutations(Names)
\* The two slots of a page of page_type, the pageLSN and two slots.
EitherSlot == {{3}, {4}}
\* page_type, record_count, the pageLSN and two slots: an insert into the
\* first slot counts its record in the header as well.
InsertIntoFirst == {{1, 4}}
=============================================================================
