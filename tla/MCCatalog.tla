------------------------------ MODULE MCCatalog ------------------------------
(***************************************************************************)
(* An instance of CatalogChain for TLC.                                    *)
(***************************************************************************)
EXTENDS CatalogChain

\* Page 0 as the bootstrap writes it, and as redo recreates it from zeroes
\* when the bootstrap's write was lost.
BothFirstPages == {EmptyPage("catalog"), ZeroPage}
=============================================================================
