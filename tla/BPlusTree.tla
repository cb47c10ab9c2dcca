------------------------------ MODULE BPlusTree ------------------------------
(***************************************************************************)
(* The on-disk B+ tree (bplus_tree.py): leaves of (key, location) in a     *)
(* linked list, internal nodes of separators and children, splits upwards, *)
(* deletion without rebalancing.  A node is read as the bytes of its page, *)
(* whatever they are; a page that is no leaf is read as an internal node.  *)
(***************************************************************************)
EXTENDS HashIndex

CONSTANT MaxKeys     \* max_keys of a node

ASSUME TreeConfig == MaxKeys \in 2 .. Width

Node(st, p) == st.page[<<Index, p>>]
IsLeaf(img) == img[KindCell] = "leaf"

\* _read_leaf, _read_internal; zero bytes are key 0, page 0, slot 0.
Entry(img, i)   == IF img[i] = Zero THEN <<0, 0, 0>> ELSE img[i]
NodeKeys(img)   == [i \in 1 .. img[CountCell] |-> Entry(img, i - 1)[1]]
LeafEntries(img) == [i \in 1 .. img[CountCell] |-> Entry(img, i - 1)]
LeafLocs(img)   == [i \in 1 .. img[CountCell] |-> Tail(Entry(img, i - 1))]
Children(img)   == [i \in 1 .. (img[CountCell] + 1) |->
                      IF i = 1 THEN img[FirstCell] ELSE Entry(img, i - 2)[2]]

\* _write_leaf, _write_internal: a fresh page image, zero after the entries.
LeafPage(ks, locs, next) ==
    [c \in Cells |->
        IF c = KindCell THEN "leaf" ELSE IF c = NextCell THEN next
        ELSE IF c = CountCell THEN Len(ks) ELSE IF c = FirstCell THEN 0
        ELSE IF c < Len(ks) THEN <<AsStored(ks[c + 1])>> \o locs[c + 1]
        ELSE Zero]
InternalPage(ks, kids) ==
    [c \in Cells |->
        IF c = KindCell THEN "internal" ELSE IF c = NextCell THEN NullPage
        ELSE IF c = CountCell THEN Len(ks) ELSE IF c = FirstCell THEN kids[1]
        ELSE IF c < Len(ks) THEN <<AsStored(ks[c + 1]), kids[c + 2]>>
        ELSE Zero]

\* bisect_left and bisect_right as they search, on any list.
BisectLeft(ks, k) ==
    LET b[lo \in 0 .. Len(ks), hi \in 0 .. Len(ks)] ==
          LET mid == (lo + hi) \div 2
          IN  IF lo >= hi THEN lo
              ELSE IF ks[mid + 1] < k THEN b[mid + 1, hi] ELSE b[lo, mid]
    IN  b[0, Len(ks)]
BisectRight(ks, k) ==
    LET b[lo \in 0 .. Len(ks), hi \in 0 .. Len(ks)] ==
          LET mid == (lo + hi) \div 2
          IN  IF lo >= hi THEN lo
              ELSE IF k < ks[mid + 1] THEN b[lo, mid] ELSE b[mid + 1, hi]
    IN  b[0, Len(ks)]

\* The descent: node d[i] on level i; it stays where it ends.
ChildFor(img, k) == Children(img)[BisectRight(NodeKeys(img), k) + 1]
Inner(st, p) == Exists(st, Index, p) /\ ~IsLeaf(Node(st, p))
Below(st, p, k) == IF Inner(st, p) THEN ChildFor(Node(st, p), k) ELSE p
Descent(st, root, k) ==
    LET d[i \in 0 .. st.size[Index]] ==
          IF i = 0 THEN root ELSE Below(st, d[i - 1], k)
    IN  d
LeafOf(st, root, k) == Descent(st, root, k)[st.size[Index]]

\* search: the leaf's answer; a descent that is still inside after as many
\* steps as there are pages goes round for ever.
PositionIn(img, k) ==
    LET i == BisectLeft(NodeKeys(img), k) + 1
    IN  IF i <= img[CountCell] /\ NodeKeys(img)[i] = k THEN i ELSE 0
TreeLookup(st, root, k) ==
    LET p == LeafOf(st, root, k)
    IN  IF root = NullPage THEN NoLoc
        ELSE IF ~Exists(st, Index, p) THEN Failed
        ELSE IF ~IsLeaf(Node(st, p)) THEN Never
        ELSE LET i == PositionIn(Node(st, p), k)
             IN  IF i = 0 THEN NoLoc ELSE LeafLocs(Node(st, p))[i]

\* delete
TreeDelete(st, root, k) ==
    LET p   == LeafOf(st, root, k)
        img == Node(st, p)
        i   == PositionIn(img, k)
    IN  Put(st, Index, p, LeafPage(RemoveAt(NodeKeys(img), i),
                                   RemoveAt(LeafLocs(img), i), img[NextCell]))

-----------------------------------------------------------------------------
(* insert.  A carry is the store so far and what the level above has to    *)
(* take in: a separator and a new child, or nothing.                       *)

Carry(st, promo) == [st |-> st, promo |-> promo]
Taken(st) == Carry(st, << >>)

\* _alloc_node writes an empty node; the caller overwrites it.
AllocNode(st, kind) ==
    Put(Allocate(st, Index), Index, NewPage(st, Index), EmptyPage(kind))
BuildTree(st) == AllocNode(st, "leaf")

SplitLeafUnlinked(st, p, ks, locs, next) ==                    \* mutant
    LET mid  == (Len(ks) + 1) \div 2
        new  == NewPage(st, Index)
        low  == LeafPage(SubSeq(ks, 1, mid), SubSeq(locs, 1, mid), next)
        high == LeafPage(SubSeq(ks, mid + 1, Len(ks)),
                         SubSeq(locs, mid + 1, Len(ks)), next)
    IN  Carry(Put(Put(AllocNode(st, "leaf"), Index, p, low), Index, new, high),
              <<ks[mid + 1], new>>)

\* _split_leaf: the lower half stays and is linked to the new leaf.
SplitLeaf(st, p, ks, locs, next) ==
    LET mid  == (Len(ks) + 1) \div 2
        new  == NewPage(st, Index)
        low  == LeafPage(SubSeq(ks, 1, mid), SubSeq(locs, 1, mid), new)
        high == LeafPage(SubSeq(ks, mid + 1, Len(ks)),
                         SubSeq(locs, mid + 1, Len(ks)), next)
    IN  Carry(Put(Put(AllocNode(st, "leaf"), Index, p, low), Index, new, high),
              <<ks[mid + 1], new>>)
InsertIntoLeaf(st, p, k, loc) ==
    LET img  == Node(st, p)
        i    == BisectLeft(NodeKeys(img), k) + 1
        ks   == InsertAt(NodeKeys(img), i, k)
        locs == InsertAt(LeafLocs(img), i, loc)
    IN  IF Len(ks) <= MaxKeys
        THEN Taken(Put(st, Index, p, LeafPage(ks, locs, img[NextCell])))
        ELSE SplitLeaf(st, p, ks, locs, img[NextCell])

SplitInternalLow(st, p, ks, kids) ==                           \* mutant
    LET mid  == Len(ks) \div 2
        new  == NewPage(st, Index)
        low  == InternalPage(SubSeq(ks, 1, mid), SubSeq(kids, 1, mid + 1))
        high == InternalPage(SubSeq(ks, mid + 2, Len(ks)),
                             SubSeq(kids, mid + 2, Len(kids)))
    IN  Carry(Put(Put(AllocNode(st, "internal"), Index, p, low),
                  Index, new, high),
              <<ks[mid], new>>)

\* _split_internal: the middle key moves up.
SplitInternal(st, p, ks, kids) ==
    LET mid  == Len(ks) \div 2
        new  == NewPage(st, Index)
        low  == InternalPage(SubSeq(ks, 1, mid), SubSeq(kids, 1, mid + 1))
        high == InternalPage(SubSeq(ks, mid + 2, Len(ks)),
                             SubSeq(kids, mid + 2, Len(kids)))
    IN  Carry(Put(Put(AllocNode(st, "internal"), Index, p, low),
                  Index, new, high),
              <<ks[mid + 1], new>>)
TakeIn(carry, p, k) ==
    LET img  == Node(carry.st, p)
        i    == BisectRight(NodeKeys(img), k) + 1
        ks   == InsertAt(NodeKeys(img), i, carry.promo[1])
        kids == InsertAt(Children(img), i + 1, carry.promo[2])
    IN  IF carry.promo = << >> THEN carry
        ELSE IF Len(ks) <= MaxKeys
        THEN Taken(Put(carry.st, Index, p, InternalPage(ks, kids)))
        ELSE SplitInternal(carry.st, p, ks, kids)

\* insert: down to the leaf, up through the internal nodes, a new root when
\* the old one was split.
TreeInsert(st, root, k, loc) ==
    LET d      == Descent(st, root, k)
        levels == {i \in 0 .. st.size[Index] : Inner(st, d[i])}
        above  == [i \in 1 .. Cardinality(levels) |-> d[Cardinality(levels) - i]]
        up     == FoldLeft(LAMBDA c, p : TakeIn(c, p, k),
                           InsertIntoLeaf(st, LeafOf(st, root, k), k, loc),
                           above)
        new    == NewPage(up.st, Index)
    IN  IF up.promo = << >> THEN [st |-> up.st, root |-> root]
        ELSE [st |-> Put(AllocNode(up.st, "internal"), Index, new,
                         InternalPage(<<up.promo[1]>>, <<root, up.promo[2]>>)),
              root |-> new]

-----------------------------------------------------------------------------
\* range_search: from the leaf of low along the list, up to the first key
\* beyond high.
TreeRange(st, root, low, high) ==
    LET leaf[i \in 0 .. MaxPages] ==
          IF i = 0 THEN LeafOf(st, root, low) ELSE NextOf(st, leaf[i - 1])
        pages  == SelectSeq([i \in 1 .. (MaxPages + 1) |-> leaf[i - 1]],
                            LAMBDA p : Exists(st, Index, p))
        listed == FlattenSeq([i \in DOMAIN pages |->
                                 LeafEntries(Node(st, pages[i]))])
        beyond == {i \in DOMAIN listed : listed[i][1] > high}
        stop   == IF beyond = {} THEN Len(listed) ELSE Min(beyond) - 1
        within == SelectSeq(SubSeq(listed, 1, stop), LAMBDA e : e[1] >= low)
    IN  [i \in DOMAIN within |-> Tail(within[i])]
=============================================================================
