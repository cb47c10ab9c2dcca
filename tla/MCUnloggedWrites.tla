--------------------------- MODULE MCUnloggedWrites ---------------------------
(* A small instance of the engine with EXPLAIN outside transactions. *)
EXTENDS UnloggedWrites

\* page_type, the pageLSN and two slots of a page; one command per slot.
EitherSlot == {{3}, {4}}
=============================================================================
