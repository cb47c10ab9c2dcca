----------------------------- MODULE PageImage -----------------------------
(***************************************************************************)
(* The bytes of one page, as the recovery manager sees them: a function    *)
(* from offsets to byte values in which a few header bytes hold the        *)
(* pageLSN, little-endian.  The code keeps an 8-byte pageLSN at offset 23  *)
(* of a 32-byte header; the model keeps two "bytes" in base ByteBase, the  *)
(* low one at LsnOffset and everything above it in the next cell, which is *)
(* enough to see that undo works on single bytes of the number.            *)
(***************************************************************************)
EXTENDS Integers

CONSTANTS PageSize,    \* number of cells of a page
          LsnOffset,   \* PAGE_LSN_OFFSET: first of the two pageLSN cells
          ByteBase     \* what one cell of the pageLSN can count to

ASSUME PageLayout ==
    /\ PageSize \in Nat /\ LsnOffset \in Nat /\ ByteBase \in Nat
    /\ LsnOffset + 1 < PageSize
    /\ ByteBase > 1

Offsets   == 0 .. (PageSize - 1)
LsnCells  == {LsnOffset, LsnOffset + 1}
DataCells == Offsets \ LsnCells
Image     == [Offsets -> Nat]
ZeroImage == [o \in Offsets |-> 0]

\* read_page_lsn: int.from_bytes(..., "little")
ReadPageLsn(img) == img[LsnOffset] + ByteBase * img[LsnOffset + 1]

\* write_page_lsn: stamp the number into the header cells.
WritePageLsn(img, lsn) ==
    [img EXCEPT ![LsnOffset]     = lsn % ByteBase,
                ![LsnOffset + 1] = lsn \div ByteBase]

\* The cells in which two images differ.
Differing(a, b) == {o \in Offsets : a[o] # b[o]}

\* _diff_range: the contiguous window that brackets every differing cell.
DiffRange(a, b) ==
    LET d == Differing(a, b)
    IN  {o \in Offsets : \E lo, hi \in d : lo <= o /\ o <= hi}

\* The part of an image that falls in a window; a log record carries no more.
Clip(img, window) == [o \in Offsets |-> IF o \in window THEN img[o] ELSE 0]

\* Redo writes the after-image of the whole window ...
ApplyAfter(img, rec) ==
    [o \in Offsets |-> IF o \in rec.window THEN rec.after[o] ELSE img[o]]

\* ... undo only the cells the record changed, the pageLSN's among them.
RestoreWindow(img, rec) ==                                     \* mutant
    [o \in Offsets |-> IF o \in rec.window THEN rec.before[o] ELSE img[o]]
RestoreBefore(img, rec) ==
    [o \in Offsets |-> IF o \in Differing(rec.before, rec.after)
                       THEN rec.before[o] ELSE img[o]]
=============================================================================
