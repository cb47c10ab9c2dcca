----------------------------- MODULE RecordProofs -----------------------------
(***************************************************************************)
(* The record layer without an index, for every instance of RecordStore    *)
(* whose keys are read back as they were written: the slots as a function  *)
(* from places to keys, once as they are and once as a crash would leave   *)
(* them.                                                                   *)
(***************************************************************************)
EXTENDS RecordView, FilesProofs, FiniteSetTheorems

\* The directory's config has index_strategy heap_scan, ...
HeapScan == strategy = "heap_scan"

\* ... encode and decode lose nothing of a key, ...
ReadBack == \A k \in Keys : AsStored(k) = k

\* ... nothing is touched while another transaction has changed something ...
Separate == Interleaved \cap ({"heap_scan"} \X Keys) = {}
\* ... or at least no slot that one of them frees is filled by another.
SlotsApart == Deletes = {} \/ Separate

-----------------------------------------------------------------------------
(* Slots *)

Slots   == Nat \X (0 .. (MaxSlots - 1))
EntryAt == <<Catalog, 0>>

In(pg, sz, l) == IF l[1] < sz[Heap] THEN pg[<<Heap, l[1]>>][l[2]] ELSE Zero
Seen == [l \in Slots |-> In(page, size, l)]
Left == [l \in Slots |-> In(Recovered, size, l)]
Own  == [l \in Slots |-> OwnersIn(undo, <<Heap, l[1]>>, l[2])]
MarkOwn == OwnersIn(undo, EntryAt, TypeName)

LEMMA CellParts ==
    /\ MaxSlots \in Nat /\ MaxSlots >= 1 /\ MaxSlots <= Width /\ Width \in Nat
    /\ 0 .. (MaxSlots - 1) \subseteq Cells
    /\ TypeName \in Cells /\ NumDataPages \in Cells /\ NumRecords \in Cells
    /\ RootPage \in Cells /\ NumBuckets \in Cells
<1>1. MaxSlots \in 1 .. Width /\ Width \in Nat /\ Width >= 5
  BY HeapConfig, FilesConfig, StoreConfig
<1> QED
  BY <1>1 DEF Cells, TypeName, NumDataPages, NumRecords, RootPage, NumBuckets

LEMMA SlotParts ==
    ASSUME NEW l \in Slots
    PROVE  /\ l = <<l[1], l[2]>> /\ l[1] \in Nat /\ l[2] \in 0 .. (MaxSlots - 1)
           /\ l[2] \in Cells /\ l[2] \in Nat
  BY CellParts DEF Slots

LEMMA BlankSlots ==
    /\ DOMAIN ZeroPage = Cells /\ DOMAIN EmptyPage("data") = Cells
    /\ \A s \in 0 .. (MaxSlots - 1) :
          ZeroPage[s] = Zero /\ EmptyPage("data")[s] = Zero
<1>1. \A s \in 0 .. (MaxSlots - 1) :
         /\ s \in Cells /\ s # KindCell /\ s # NextCell
         /\ s \notin NextCell .. FirstCell
  BY CellParts DEF KindCell, NextCell, FirstCell
<1>2. /\ DOMAIN ZeroPage = Cells
      /\ \A s \in 0 .. (MaxSlots - 1) : ZeroPage[s] = Zero
  BY <1>1 DEF ZeroPage
<1> QED
  BY <1>1, <1>2 DEF EmptyPage

LEMMA MaxIs ==
    ASSUME NEW a \in Int, NEW b \in Int
    PROVE  Max({a, b}) = IF a <= b THEN b ELSE a
<1>1. \E m \in {a, b} : \A i \in {a, b} : i <= m
  OBVIOUS
<1>2. /\ Max({a, b}) \in {a, b}
      /\ \A i \in {a, b} : i <= Max({a, b})
  BY <1>1 DEF Max
<1> QED
  BY <1>2

LEMMA CapIs == Cap \in 1 .. MaxSlots
<1>1. MaxSlots \in Nat /\ MaxRecords \in Nat /\ MaxSlots >= 1
  BY CellParts, HeapConfig
<1>2. /\ Min({MaxSlots, MaxRecords}) \in {MaxSlots, MaxRecords}
      /\ Min({MaxSlots, MaxRecords}) <= MaxSlots
  BY <1>1, MinIn
<1>3. Min({MaxSlots, MaxRecords}) \in Nat
  BY <1>1, <1>2
<1> HIDE DEF Min
<1> QED
  BY <1>1, <1>2, <1>3, MaxIs DEF Cap

-----------------------------------------------------------------------------
(* Reading *)

Hits(st, k) == {l \in Slots : In(st.page, st.size, l) = k}

LEMMA ReadSlot ==
    ASSUME NEW st, NEW l \in Slots
    PROVE  RecordAt(st, l) = In(st.page, st.size, l)
  BY SlotParts DEF RecordAt, Exists, In

LEMMA OccupiedIs ==
    ASSUME NEW st, st.size[Heap] \in Nat
    PROVE  Occupied(st) = {l \in Slots : In(st.page, st.size, l) # Zero}
<1> DEFINE A == (0 .. (st.size[Heap] - 1)) \X (0 .. (MaxSlots - 1))
<1>1. A \subseteq Slots
  BY DEF Slots
<1>2. \A l \in Slots : In(st.page, st.size, l) # Zero => l \in A
  BY SlotParts DEF In
<1>3. \A l \in Slots : RecordAt(st, l) = In(st.page, st.size, l)
  BY ReadSlot
<1> QED
  BY <1>1, <1>2, <1>3 DEF Occupied

\* The scan finds a record with the key if there is one.
LEMMA ScanFinds ==
    ASSUME NEW st, st.size[Heap] \in Nat, NEW k \in Keys
    PROVE  /\ Hits(st, k) = {} => FindByScan(st, k) = NoLoc
           /\ Hits(st, k) # {} => FindByScan(st, k) \in Hits(st, k)
           /\ IsLoc(FindByScan(st, k)) <=> Hits(st, k) # {}
           /\ FindByScan(st, k) = NoLoc <=> Hits(st, k) = {}
<1> DEFINE hits == {loc \in Occupied(st) : RecordAt(st, loc) = k}
           p    == Min({loc[1] : loc \in hits})
           row  == {loc[2] : loc \in {h \in hits : h[1] = p}}
<1>1. k # Zero
  BY HeapConfig, FilesConfig
<1>2. hits = Hits(st, k)
  BY <1>1, OccupiedIs, ReadSlot DEF Hits
<1>3. FindByScan(st, k) = IF hits = {} THEN NoLoc ELSE <<p, Min(row)>>
  BY DEF FindByScan
<1>4. \A l \in hits : l = <<l[1], l[2]>> /\ l[1] \in Nat /\ l[2] \in Nat
  BY <1>2, SlotParts DEF Hits
<1> HIDE DEF hits
<1>5. ASSUME hits # {} PROVE <<p, Min(row)>> \in hits /\ p \in Nat
  <2>1. {loc[1] : loc \in hits} \in SUBSET Nat /\ {loc[1] : loc \in hits} # {}
    BY <1>4, <1>5
  <2>2. p \in {loc[1] : loc \in hits}
    BY <2>1, MinIn
  <2>3. row \in SUBSET Nat /\ row # {}
    BY <1>4, <2>2
  <2>4. Min(row) \in row
    BY <2>3, MinIn
  <2>5. PICK l \in hits : l[1] = p /\ l[2] = Min(row)
    BY <2>4
  <2> HIDE DEF p, row
  <2> QED
    BY <1>4, <2>5
<1>6. ~IsLoc(NoLoc)
  BY DEF IsLoc, NoLoc
<1>7. hits # {} => IsLoc(<<p, Min(row)>>)
  BY <1>5 DEF IsLoc
<1> HIDE DEF p, row
<1> QED
  BY <1>2, <1>3, <1>5, <1>6, <1>7

-----------------------------------------------------------------------------
(* Files *)

\* The files are in order, and the catalog has its one page.
FilesOK ==
    /\ \E V : ZeroPage \in Images(V) /\ FilesInv(V)
    /\ \A z \in sizes : z[Catalog] = 1

LEMMA FilesParts ==
    ASSUME NEW V, FilesInv(V), \A z \in sizes : z[Catalog] = 1
    PROVE  /\ EntryAt \in Places(size) /\ Heap \in FileIds
           /\ Catalog \in FileIds /\ Heap # Catalog
           /\ size[Heap] \in Nat /\ size[Catalog] = 1 /\ size \in Sizes
           /\ page \in [Places(size) -> Images(V)]
           /\ \A l \in Slots :
                 <<Heap, l[1]>> \in Places(size) <=> l[1] < size[Heap]
<1>1. size[Catalog] = 1 /\ size \in Sizes /\ page \in [Places(size) -> Images(V)]
  BY DEF FilesInv
<1>2. Heap \in FileIds /\ Catalog \in FileIds /\ Heap # Catalog
  BY HeapConfig, StoreConfig
<1>3. size[Heap] \in Nat
  BY <1>1, <1>2 DEF Sizes
<1> QED
  BY <1>1, <1>2, <1>3, SlotParts DEF EntryAt, Places

\* A place outside the files has no owners.
LEMMA OutsideUnowned ==
    ASSUME NEW V, FilesInv(V), NEW at, at \notin Places(size), NEW c
    PROVE  OwnersIn(undo, at, c) = {}
  BY DEF FilesInv, UndoIn, OwnersIn, SavedIn

\* What a command does to the slots and to the type's entry.
LEMMA Command ==
    ASSUME NEW V, ZeroPage \in Images(V), FilesInv(V),
           \A z \in sizes : z[Catalog] = 1,
           NEW x \in Tx, NEW st, Legal(V, st), WriteAll(x, st),
           \A z \in st.seen : z[Catalog] = 1
    PROVE  /\ FilesOK' /\ page' = st.page /\ size' = st.size
           /\ Seen' = [l \in Slots |-> In(st.page, st.size, l)]
           /\ Left' = Left
           /\ Recovered'[EntryAt] = Recovered[EntryAt]
           /\ Own' = [l \in Slots |-> Own[l] \cup
                         (IF Seen'[l] = Seen[l] THEN {} ELSE {x})]
           /\ \A c \in Cells :
                 OwnersIn(undo', EntryAt, c)
                   = OwnersIn(undo, EntryAt, c)
                     \cup (IF page'[EntryAt][c] = page[EntryAt][c]
                           THEN {} ELSE {x})
           /\ \A at, c : OwnersIn(undo', at, c)
                           \subseteq OwnersIn(undo, at, c) \cup {x}
<1>1. /\ FilesInv(V)'
      /\ page' = st.page /\ size' = st.size /\ sizes' = sizes \cup st.seen
      /\ Places(size) \subseteq Places(size')
      /\ \A at \in Places(size) : Recovered'[at] = Recovered[at]
      /\ \A at \in Places(size') :
            at \notin Places(size) => Recovered'[at] = ZeroPage
  BY WriteAllFiles
<1>2. FilesOK'
  BY <1>1 DEF FilesOK
<1>3. /\ EntryAt \in Places(size) /\ size[Heap] \in Nat
      /\ \A l \in Slots : <<Heap, l[1]>> \in Places(size) <=> l[1] < size[Heap]
      /\ DOMAIN page = Places(size)
  BY FilesParts
<1>4. /\ size'[Heap] \in Nat
      /\ \A l \in Slots : <<Heap, l[1]>> \in Places(size') <=> l[1] < size'[Heap]
  <2>1. Heap \in FileIds /\ size' \in Sizes
    BY <1>1, HeapConfig DEF FilesInv
  <2> QED
    BY <2>1, SlotParts DEF Places, Sizes
<1>5. Left' = Left
  <2>1. ASSUME NEW l \in Slots
        PROVE  In(Recovered', size', l) = In(Recovered, size, l)
    <3>1. CASE l[1] < size[Heap]
      BY <1>1, <1>3, <1>4, <3>1 DEF In
    <3>2. CASE ~(l[1] < size[Heap]) /\ l[1] < size'[Heap]
      BY <1>1, <1>3, <1>4, <3>2, SlotParts, BlankSlots DEF In
    <3>3. CASE ~(l[1] < size[Heap]) /\ ~(l[1] < size'[Heap])
      BY <3>3 DEF In
    <3> QED
      BY <3>1, <3>2, <3>3
  <2> QED
    BY <2>1 DEF Left
<1>6. ASSUME NEW at \in Places(size'), NEW c \in Cells
      PROVE  OwnersIn(undo', at, c)
               = OwnersIn(undo, at, c)
                 \cup (IF page'[at][c] = Before(at)[c] THEN {} ELSE {x})
  BY OwnersWrite
<1>7. Own' = [l \in Slots |-> Own[l] \cup (IF Seen'[l] = Seen[l] THEN {} ELSE {x})]
  <2>1. ASSUME NEW l \in Slots
        PROVE  OwnersIn(undo', <<Heap, l[1]>>, l[2])
                 = OwnersIn(undo, <<Heap, l[1]>>, l[2]) \cup
                      (IF In(page', size', l) = In(page, size, l) THEN {} ELSE {x})
    <3> DEFINE at == <<Heap, l[1]>>
    <3>1. l[2] \in Cells /\ l[2] \in 0 .. (MaxSlots - 1)
      BY SlotParts
    <3>2. CASE at \in Places(size')
      <4>1. In(page', size', l) = page'[at][l[2]]
        BY <1>4, <3>2 DEF In
      <4>2. In(page, size, l) = Before(at)[l[2]]
        BY <1>3, <3>1, BlankSlots DEF In, Before
      <4> QED
        BY <1>6, <3>1, <3>2, <4>1, <4>2
    <3>3. CASE at \notin Places(size')
      <4>1. at \notin Places(size)
        BY <1>1, <3>3
      <4>2. OwnersIn(undo, at, l[2]) = {}
        BY <4>1, OutsideUnowned
      <4>3. OwnersIn(undo', at, l[2]) = {}
        BY <1>1, <3>3 DEF FilesInv, UndoIn, OwnersIn, SavedIn
      <4>4. In(page', size', l) = Zero /\ In(page, size, l) = Zero
        BY <1>3, <1>4, <3>3, <4>1 DEF In
      <4> QED
        BY <4>2, <4>3, <4>4
    <3> QED
      BY <3>2, <3>3
  <2> QED
    BY <2>1 DEF Own, Seen
<1>8. \A c \in Cells :
         OwnersIn(undo', EntryAt, c)
           = OwnersIn(undo, EntryAt, c)
             \cup (IF page'[EntryAt][c] = page[EntryAt][c] THEN {} ELSE {x})
  BY <1>1, <1>3, <1>6 DEF Before
<1>9. ASSUME NEW at, NEW c
      PROVE  OwnersIn(undo', at, c) \subseteq OwnersIn(undo, at, c) \cup {x}
  <2>1. CASE at \in Places(size') /\ c \in Cells
    BY <1>6, <2>1
  <2>2. CASE ~(at \in Places(size') /\ c \in Cells)
    BY <1>1, <2>2 DEF FilesInv, UndoIn, OwnersIn, SavedIn
  <2> QED
    BY <2>1, <2>2
<1>10. Seen' = [l \in Slots |-> In(st.page, st.size, l)]
  BY <1>1 DEF Seen
<1> QED
  BY <1>1, <1>2, <1>3, <1>5, <1>7, <1>8, <1>9, <1>10

LEMMA Committed ==
    ASSUME FilesOK, NEW x \in Tx, CommitFiles(x)
    PROVE  /\ FilesOK' /\ UNCHANGED <<page, size>> /\ Seen' = Seen
           /\ \A l \in Slots : \A y : Own[l] \subseteq {y} =>
                 /\ Own'[l] = Own[l] \ {x}
                 /\ Left'[l] = IF x \in Own[l] THEN Seen[l] ELSE Left[l]
           /\ \A c \in Cells : \A y : OwnersIn(undo, EntryAt, c) \subseteq {y} =>
                 /\ OwnersIn(undo', EntryAt, c) = OwnersIn(undo, EntryAt, c) \ {x}
                 /\ Recovered'[EntryAt][c]
                      = IF x \in OwnersIn(undo, EntryAt, c)
                        THEN page[EntryAt][c] ELSE Recovered[EntryAt][c]
           /\ \A at, c, y : OwnersIn(undo, at, c) \subseteq {y} =>
                 OwnersIn(undo', at, c) = OwnersIn(undo, at, c) \ {x}
<1>1. PICK V : ZeroPage \in Images(V) /\ FilesInv(V)
  BY DEF FilesOK
<1>2. /\ FilesInv(V)' /\ page' = page /\ size' = size /\ sizes' = {size}
  BY <1>1, CommitFilesOK
<1>3. FilesOK'
  BY <1>1, <1>2 DEF FilesOK, FilesInv
<1>4. Seen' = Seen
  BY <1>2 DEF Seen
<1>5. /\ EntryAt \in Places(size) /\ size[Heap] \in Nat
      /\ \A l \in Slots : <<Heap, l[1]>> \in Places(size) <=> l[1] < size[Heap]
  BY <1>1, FilesParts DEF FilesOK
<1>6. ASSUME NEW at \in Places(size), NEW c \in Cells, NEW y,
             OwnersIn(undo, at, c) \subseteq {y}
      PROVE  /\ OwnersIn(undo', at, c) = OwnersIn(undo, at, c) \ {x}
             /\ Recovered'[at][c] = IF x \in OwnersIn(undo, at, c)
                                    THEN page[at][c] ELSE Recovered[at][c]
  BY <1>1, <1>6, OwnersCommit
<1>7. \A at, c : at \notin Places(size) \/ c \notin Cells =>
         OwnersIn(undo, at, c) = {} /\ OwnersIn(undo', at, c) = {}
  BY <1>1, <1>2 DEF FilesInv, UndoIn, OwnersIn, SavedIn
<1>8. ASSUME NEW at, NEW c, NEW y, OwnersIn(undo, at, c) \subseteq {y}
      PROVE  OwnersIn(undo', at, c) = OwnersIn(undo, at, c) \ {x}
  BY <1>6, <1>7, <1>8
<1>9. ASSUME NEW l \in Slots, NEW y, Own[l] \subseteq {y}
      PROVE  /\ Own'[l] = Own[l] \ {x}
             /\ Left'[l] = IF x \in Own[l] THEN Seen[l] ELSE Left[l]
  <2> DEFINE at == <<Heap, l[1]>>
  <2>1. /\ Own[l] = OwnersIn(undo, at, l[2]) /\ Own'[l] = OwnersIn(undo', at, l[2])
        /\ Seen[l] = In(page, size, l) /\ Left[l] = In(Recovered, size, l)
        /\ Left'[l] = In(Recovered', size, l)
    BY <1>2 DEF Own, Seen, Left
  <2>2. Own'[l] = Own[l] \ {x}
    BY <1>8, <1>9, <2>1
  <2>3. CASE at \in Places(size)
    <3>1. l[2] \in Cells /\ l[1] < size[Heap]
      BY <1>5, <2>3, SlotParts
    <3> QED
      BY <1>6, <1>9, <2>1, <2>2, <2>3, <3>1 DEF In
  <2>4. CASE at \notin Places(size)
    <3>1. Own[l] = {} /\ ~(l[1] < size[Heap])
      BY <1>5, <1>7, <2>1, <2>4
    <3> QED
      BY <2>1, <2>2, <3>1 DEF In
  <2> QED
    BY <2>3, <2>4
<1> QED
  BY <1>2, <1>3, <1>4, <1>5, <1>6, <1>8, <1>9

LEMMA Crashed ==
    ASSUME FilesOK, CrashFiles
    PROVE  /\ FilesOK' /\ Seen' = Left /\ Left' = Left /\ Recovered' = page'
           /\ page'[EntryAt] = Recovered[EntryAt]
           /\ Recovered'[EntryAt] = Recovered[EntryAt]
           /\ \A at, c : OwnersIn(undo', at, c) = {}
<1>1. PICK V : ZeroPage \in Images(V) /\ FilesInv(V)
  BY DEF FilesOK
<1>2. /\ FilesInv(V)' /\ size' \in sizes /\ sizes' = {size'}
      /\ Recovered' = page' /\ Places(size') \subseteq Places(size)
      /\ \A at \in Places(size') : page'[at] = Recovered[at]
  BY <1>1, CrashFilesOK
<1>3. FilesOK'
  BY <1>1, <1>2 DEF FilesOK
<1>4. /\ size'[Heap] \in Nat /\ EntryAt \in Places(size')
      /\ \A l \in Slots : <<Heap, l[1]>> \in Places(size') <=> l[1] < size'[Heap]
      /\ size[Heap] \in Nat
      /\ \A l \in Slots : <<Heap, l[1]>> \in Places(size) <=> l[1] < size[Heap]
  <2>1. Heap \in FileIds /\ Catalog \in FileIds /\ size' \in Sizes /\ size'[Catalog] = 1
    BY <1>1, <1>2, HeapConfig, StoreConfig DEF FilesOK, FilesInv
  <2>2. size'[Heap] \in Nat /\ EntryAt \in Places(size')
    BY <2>1 DEF Sizes, Places, EntryAt
  <2>3. \A l \in Slots : <<Heap, l[1]>> \in Places(size') <=> l[1] < size'[Heap]
    BY <2>1, SlotParts DEF Places
  <2> QED
    BY <1>1, <2>2, <2>3, FilesParts DEF FilesOK
<1>5. ASSUME NEW l \in Slots PROVE In(page', size', l) = In(Recovered, size, l)
  <2> DEFINE at == <<Heap, l[1]>>
  <2>1. CASE l[1] < size'[Heap]
    <3>1. at \in Places(size') /\ at \in Places(size)
      BY <1>2, <1>4, <2>1
    <3> QED
      BY <1>2, <1>4, <2>1, <3>1 DEF In
  <2>2. CASE ~(l[1] < size'[Heap]) /\ l[1] < size[Heap]
    <3>1. at \in Places(size) /\ at[2] >= size'[at[1]]
      BY <1>4, <2>2, SlotParts
    <3>2. Recovered[at] = ZeroPage
      BY <1>1, <1>2, <3>1 DEF FilesInv
    <3> QED
      BY <2>2, <3>2, SlotParts, BlankSlots DEF In
  <2>3. CASE ~(l[1] < size'[Heap]) /\ ~(l[1] < size[Heap])
    BY <2>3 DEF In
  <2> QED
    BY <2>1, <2>2, <2>3
<1>6. Seen' = Left
  BY <1>5 DEF Seen, Left
<1>7. Left' = Seen'
  BY <1>2 DEF Seen, Left
<1>8. \A at, c : OwnersIn(undo', at, c) = {}
  BY OwnersCrash
<1> QED
  BY <1>2, <1>3, <1>4, <1>6, <1>7, <1>8

-----------------------------------------------------------------------------
(* Commands *)

LEMMA EntryWritten ==
    ASSUME NEW V, NEW h, Legal(V, h), EntryAt \in Places(h.size),
           NEW a, NEW b, NEW c, NEW d, {1, a, b, c, d} \subseteq V,
           NEW st, st = WriteEntry(h, a, b, c, d)
    PROVE  /\ Legal(V, st) /\ st.size = h.size /\ st.seen = h.seen
           /\ st.page[EntryAt][TypeName] = 1
           /\ st.page[EntryAt][NumRecords] = b
           /\ \A l \in Slots :
                 In(st.page, st.size, l) = In(h.page, h.size, l)
<1> DEFINE old == h.page[EntryAt]
           img == [EntryOf(h) EXCEPT
                     ![TypeName] = 1, ![NumDataPages] = a, ![NumRecords] = b,
                     ![RootPage] = c, ![NumBuckets] = d]
<1>1. EntryOf(h) = old /\ old \in Images(V)
  BY DEF EntryOf, EntryAt, Legal
<1>2. st = Put(h, Catalog, 0, img)
  BY DEF WriteEntry
<1>3. /\ img \in Images(V) /\ img[TypeName] = 1 /\ img[NumRecords] = b
  <2>1. /\ DOMAIN old = Cells /\ \A i \in Cells : old[i] \in V
    BY <1>1 DEF Images
  <2>2. /\ DOMAIN img = Cells /\ img[TypeName] = 1 /\ img[NumRecords] = b
    BY <1>1, <2>1, CellParts
       DEF TypeName, NumDataPages, NumRecords, RootPage, NumBuckets
  <2>3. ASSUME NEW i \in Cells PROVE img[i] \in V
    <3>1. \/ img[i] = old[i] \/ img[i] = 1 \/ img[i] = a \/ img[i] = b
          \/ img[i] = c \/ img[i] = d
      BY <1>1, <2>1
    <3> QED
      BY <2>1, <3>1
  <2>4. img = [i \in Cells |-> img[i]]
    BY <1>1, <2>1
  <2> HIDE DEF img
  <2> QED
    BY <2>2, <2>3, <2>4 DEF Images
<1>4. Catalog \in FileIds /\ 0 \in Nat /\ 0 < h.size[Catalog] /\ Heap # Catalog
  BY StoreConfig DEF Places, EntryAt
<1> HIDE DEF img
<1>5. /\ Legal(V, st) /\ st.size = h.size /\ st.seen = h.seen
      /\ st.page[EntryAt] = img
      /\ \A at \in Places(h.size) : at # EntryAt => st.page[at] = h.page[at]
  BY <1>2, <1>3, <1>4, LegalPut DEF EntryAt
<1>6. ASSUME NEW l \in Slots
      PROVE  In(st.page, st.size, l) = In(h.page, h.size, l)
  <2>1. <<Heap, l[1]>> # EntryAt
    BY <1>4 DEF EntryAt
  <2>2. CASE l[1] < h.size[Heap]
    <3>1. <<Heap, l[1]>> \in Places(h.size)
      BY <2>2, HeapConfig, SlotParts DEF Places
    <3> QED
      BY <1>5, <2>1, <3>1 DEF In
  <2>3. CASE ~(l[1] < h.size[Heap])
    BY <1>5, <2>3 DEF In
  <2> QED
    BY <2>2, <2>3
<1> QED
  BY <1>3, <1>5, <1>6

\* insert_into_heap fills one free slot.
LEMMA RecordPlaced ==
    ASSUME NEW V, ZeroPage \in Images(V), FilesInv(V),
           \A z \in sizes : z[Catalog] = 1,
           NEW k \in Keys, AsStored(k) \in V, "data" \in V, NullPage \in V,
           NEW h, h = InsertIntoHeap(Current, k)
    PROVE  \E l \in Slots :
              /\ Legal(V, h.st) /\ Seen[l] = Zero
              /\ h.st.size[Catalog] = 1 /\ h.st.page[EntryAt] = page[EntryAt]
              /\ \A z \in h.st.seen : z[Catalog] = 1
              /\ \A m \in Slots : In(h.st.page, h.st.size, m)
                                    = IF m = l THEN AsStored(k) ELSE Seen[m]
<1> DEFINE room == {p \in 0 .. (Current.size[Heap] - 1) :
                      FreeSlots(Current.page[<<Heap, p>>], Cap) # {}}
           p == IF room = {} THEN NewPage(Current, Heap) ELSE Min(room)
           old == IF room = {} THEN EmptyPage("data")
                  ELSE Current.page[<<Heap, p>>]
           s == Min(FreeSlots(old, Cap))
           base == IF room = {} THEN Allocate(Current, Heap) ELSE Current
           img == [old EXCEPT ![s] = AsStored(k)]
           l == <<p, s>>
<1>1. h.st = Put(base, Heap, p, img)
  BY DEF InsertIntoHeap
<1>2. /\ Legal(V, Current) /\ Current.page = page /\ Current.size = size
      /\ Current.seen = {}
  BY LegalCurrent
<1>3. /\ EntryAt \in Places(size) /\ Heap \in FileIds /\ Heap # Catalog
      /\ Catalog \in FileIds
      /\ size[Heap] \in Nat /\ size[Catalog] = 1 /\ size \in Sizes
      /\ page \in [Places(size) -> Images(V)]
      /\ \A m \in Slots : <<Heap, m[1]>> \in Places(size) <=> m[1] < size[Heap]
  BY FilesParts
<1>4. EmptyPage("data") \in Images(V)
  <2>1. DOMAIN ZeroPage = Cells /\ \A c \in Cells : ZeroPage[c] \in V
    BY DEF Images
  <2> QED
    BY <2>1 DEF EmptyPage, Images
<1>5. /\ Legal(V, base) /\ p \in Nat /\ p < base.size[Heap]
      /\ base.size[Catalog] = 1 /\ \A z \in base.seen : z[Catalog] = 1
      /\ base.page[EntryAt] = page[EntryAt]
      /\ old \in Images(V) /\ FreeSlots(old, Cap) # {}
      /\ \A m \in Slots : In(base.page, base.size, m) = Seen[m]
      /\ \A t \in 0 .. (MaxSlots - 1) : Seen[<<p, t>>] = old[t]
  <2>1. CASE room = {}
    <3>1. p = size[Heap] /\ old = EmptyPage("data")
          /\ base = Allocate(Current, Heap)
      BY <1>2, <2>1 DEF NewPage
    <3> HIDE DEF base, p, old, room
    <3>1a. /\ Legal(V, base)
           /\ base.size = [Current.size EXCEPT ![Heap] = Current.size[Heap] + 1]
           /\ base.seen = Current.seen \cup {base.size}
           /\ base.page[<<Heap, Current.size[Heap]>>] = ZeroPage
           /\ \A at \in Places(Current.size) : base.page[at] = Current.page[at]
      BY <1>2, <1>3, <3>1, LegalAllocate
    <3>2. /\ Legal(V, base)
          /\ base.size = [size EXCEPT ![Heap] = size[Heap] + 1]
          /\ base.seen = {base.size}
          /\ base.page[<<Heap, size[Heap]>>] = ZeroPage
          /\ \A at \in Places(size) : base.page[at] = page[at]
      BY <1>2, <3>1a
    <3>3. base.size[Heap] = size[Heap] + 1 /\ base.size[Catalog] = 1
      BY <1>3, <3>2 DEF Sizes
    <3>4. FreeSlots(old, Cap) # {}
      <4>1. 0 \in 0 .. (Cap - 1) /\ 0 \in 0 .. (MaxSlots - 1)
        BY CapIs, CellParts
      <4> QED
        BY <3>1, <4>1, BlankSlots DEF FreeSlots
    <3>5. ASSUME NEW m \in Slots PROVE In(base.page, base.size, m) = Seen[m]
      <4>1. Seen[m] = In(page, size, m) /\ m[1] \in Nat
        BY SlotParts DEF Seen
      <4>2. CASE m[1] < size[Heap]
        BY <1>3, <3>2, <3>3, <4>1, <4>2 DEF In
      <4>3. CASE m[1] = size[Heap]
        BY <1>3, <3>2, <3>3, <4>1, <4>3, SlotParts, BlankSlots DEF In
      <4>4. CASE ~(m[1] < size[Heap]) /\ m[1] # size[Heap]
        BY <1>3, <3>3, <4>1, <4>4 DEF In
      <4> QED
        BY <4>2, <4>3, <4>4
    <3>6. ASSUME NEW t \in 0 .. (MaxSlots - 1) PROVE Seen[<<p, t>>] = old[t]
      <4>1. <<p, t>> \in Slots
        BY <1>3, <3>1 DEF Slots
      <4>2. Seen[<<p, t>>] = Zero
        BY <1>3, <3>1, <4>1 DEF Seen, In
      <4> QED
        BY <3>1, <4>2, BlankSlots
    <3>7. p \in Nat /\ p < base.size[Heap]
      BY <1>3, <3>1, <3>3
    <3>8. /\ \A z \in base.seen : z[Catalog] = 1
          /\ base.page[EntryAt] = page[EntryAt] /\ old \in Images(V)
      BY <1>3, <1>4, <3>1, <3>2, <3>3
    <3> QED
      BY <3>2, <3>3, <3>4, <3>5, <3>6, <3>7, <3>8
  <2>2. CASE room # {}
    <3>1. p = Min(room) /\ base = Current /\ old = Current.page[<<Heap, p>>]
      BY <2>2
    <3>2. room \in SUBSET Nat
      BY <1>2, <1>3
    <3>3. p \in room
      BY <2>2, <3>1, <3>2, MinIn
    <3> HIDE DEF base, p, old
    <3>4. p \in Nat /\ p < size[Heap] /\ FreeSlots(page[<<Heap, p>>], Cap) # {}
      <4>1. /\ p \in 0 .. (Current.size[Heap] - 1)
            /\ FreeSlots(Current.page[<<Heap, p>>], Cap) # {}
        BY <3>3
      <4> QED
        BY <1>2, <1>3, <4>1
    <3> HIDE DEF room
    <3>5. <<Heap, p>> \in Places(size)
      BY <1>3, <3>4 DEF Places
    <3>6. ASSUME NEW t \in 0 .. (MaxSlots - 1) PROVE Seen[<<p, t>>] = old[t]
      <4>1. <<p, t>> \in Slots
        BY <3>4 DEF Slots
      <4> QED
        BY <1>2, <3>1, <3>4, <4>1 DEF Seen, In
    <3>7. \A m \in Slots : In(base.page, base.size, m) = Seen[m]
      BY <1>2, <3>1 DEF Seen
    <3> QED
      BY <1>2, <1>3, <3>1, <3>4, <3>5, <3>6, <3>7
  <2> QED
    BY <2>1, <2>2
<1> HIDE DEF base, p, old, room
<1>6. s \in 0 .. (MaxSlots - 1) /\ s \in Cells /\ old[s] = Zero
  <2>1. FreeSlots(old, Cap) \in SUBSET Nat
    BY CapIs DEF FreeSlots
  <2>2. s \in FreeSlots(old, Cap)
    BY <1>5, <2>1, MinIn
  <2>3. s \in 0 .. (Cap - 1) /\ old[s] = Zero
    BY <2>2 DEF FreeSlots
  <2>4. Cap \in 1 .. MaxSlots
    BY CapIs
  <2> HIDE DEF s
  <2>5. s \in 0 .. (MaxSlots - 1)
    BY <2>3, <2>4, CellParts
  <2> QED
    BY <2>3, <2>5, CellParts
<1> HIDE DEF s
<1>7. /\ img \in Images(V) /\ img[s] = AsStored(k)
      /\ \A t \in Cells : t # s => img[t] = old[t]
  BY <1>5, <1>6 DEF Images
<1> HIDE DEF img
<1>8. l \in Slots /\ l[1] = p /\ l[2] = s /\ Seen[l] = Zero
  BY <1>5, <1>6 DEF Slots
<1>9. /\ Legal(V, h.st) /\ h.st.size = base.size /\ h.st.seen = base.seen
      /\ h.st.page[<<Heap, p>>] = img
      /\ \A at \in Places(base.size) :
            at # <<Heap, p>> => h.st.page[at] = base.page[at]
  BY <1>1, <1>3, <1>5, <1>7, LegalPut
<1>10. h.st.page[EntryAt] = page[EntryAt]
  <2>1. EntryAt \in Places(base.size) /\ EntryAt # <<Heap, p>>
    BY <1>3, <1>5 DEF Places, EntryAt
  <2> QED
    BY <1>5, <1>9, <2>1
<1>11. ASSUME NEW m \in Slots
       PROVE  In(h.st.page, h.st.size, m) = IF m = l THEN AsStored(k) ELSE Seen[m]
  <2>1. /\ m = <<m[1], m[2]>> /\ m[1] \in Nat /\ m[2] \in 0 .. (MaxSlots - 1)
        /\ m[2] \in Cells
    BY SlotParts
  <2>2. In(base.page, base.size, m) = Seen[m]
    BY <1>5
  <2>3. CASE m[1] = p
    <3>1. In(h.st.page, h.st.size, m) = img[m[2]]
      BY <1>5, <1>9, <2>3 DEF In
    <3>2. Seen[m] = old[m[2]]
      BY <1>5, <2>1, <2>3
    <3> QED
      BY <1>7, <1>8, <2>1, <2>3, <3>1, <3>2
  <2>4. CASE m[1] # p
    <3>1. <<Heap, m[1]>> # <<Heap, p>>
      BY <2>4
    <3>2. m[1] < base.size[Heap] => <<Heap, m[1]>> \in Places(base.size)
      BY <1>3, <2>1 DEF Places
    <3>3. In(h.st.page, h.st.size, m) = In(base.page, base.size, m)
      BY <1>9, <3>1, <3>2 DEF In
    <3> QED
      BY <1>8, <2>2, <2>4, <3>3
  <2> QED
    BY <2>3, <2>4
<1> HIDE DEF l
<1>12. h.st.size[Catalog] = 1 /\ \A z \in h.st.seen : z[Catalog] = 1
  BY <1>5, <1>9
<1> QED
  BY <1>8, <1>9, <1>10, <1>11, <1>12

\* delete_at frees the slot.
LEMMA RecordCleared ==
    ASSUME NEW V, ZeroPage \in Images(V), FilesInv(V),
           \A z \in sizes : z[Catalog] = 1, Zero \in V,
           NEW l \in Slots, Seen[l] # Zero, NEW h, h = ClearSlot(Current, l)
    PROVE  /\ Legal(V, h) /\ h.size = size /\ h.seen = {}
           /\ h.page[EntryAt] = page[EntryAt]
           /\ \A m \in Slots : In(h.page, h.size, m)
                                 = IF m = l THEN Zero ELSE Seen[m]
<1> DEFINE at == <<Heap, l[1]>>
           img == [page[at] EXCEPT ![l[2]] = Zero]
<1>1. /\ Legal(V, Current) /\ Current.page = page /\ Current.size = size
      /\ Current.seen = {}
  BY LegalCurrent
<1>2. /\ EntryAt \in Places(size) /\ Heap \in FileIds /\ Heap # Catalog
      /\ size[Heap] \in Nat
      /\ page \in [Places(size) -> Images(V)]
      /\ \A m \in Slots : <<Heap, m[1]>> \in Places(size) <=> m[1] < size[Heap]
  BY FilesParts
<1>3. h = Put(Current, Heap, l[1], img)
  BY <1>1 DEF ClearSlot
<1>4. l[1] < size[Heap] /\ at \in Places(size) /\ l[1] \in Nat /\ l[2] \in Cells
  BY <1>2, SlotParts DEF Seen, In
<1>5. /\ img \in Images(V) /\ img[l[2]] = Zero
      /\ \A t \in Cells : t # l[2] => img[t] = page[at][t]
  <2>1. page[at] \in Images(V)
    BY <1>2, <1>4
  <2> QED
    BY <1>4, <2>1 DEF Images
<1> HIDE DEF img
<1>6. /\ Legal(V, h) /\ h.size = size /\ h.seen = {} /\ h.page[at] = img
      /\ \A a \in Places(size) : a # at => h.page[a] = page[a]
  <2>1. Heap \in FileIds /\ l[1] \in Nat /\ l[1] < Current.size[Heap]
    BY <1>1, <1>2, <1>4
  <2>2. /\ Legal(V, h) /\ h.size = Current.size /\ h.seen = Current.seen
        /\ h.page[<<Heap, l[1]>>] = img
        /\ \A a \in Places(Current.size) :
              a # <<Heap, l[1]>> => h.page[a] = Current.page[a]
    BY <1>1, <1>3, <1>5, <2>1, LegalPut
  <2> QED
    BY <1>1, <2>2
<1>7. EntryAt # at
  BY <1>2 DEF EntryAt
<1>8. ASSUME NEW m \in Slots
      PROVE  In(h.page, h.size, m) = IF m = l THEN Zero ELSE Seen[m]
  <2>1. /\ m = <<m[1], m[2]>> /\ l = <<l[1], l[2]>> /\ m[2] \in Cells
        /\ Seen[m] = In(page, size, m)
    BY SlotParts DEF Seen
  <2>2. CASE m[1] = l[1]
    BY <1>4, <1>5, <1>6, <2>1, <2>2 DEF In
  <2>3. CASE m[1] # l[1]
    <3>1. <<Heap, m[1]>> # at
      BY <2>3
    <3>2. In(h.page, h.size, m) = In(page, size, m)
      BY <1>2, <1>6, <3>1 DEF In
    <3> QED
      BY <2>1, <2>3, <3>2
  <2> QED
    BY <2>2, <2>3
<1> QED
  BY <1>2, <1>6, <1>7, <1>8

-----------------------------------------------------------------------------
(* Steps, on slots and on the type's entry *)

Mark      == page[EntryAt][TypeName]
MarkLeft  == Recovered[EntryAt][TypeName]
Count     == page[EntryAt][NumRecords]
CountLeft == Recovered[EntryAt][NumRecords]

BaseInv ==
    /\ FilesOK /\ strategy = "heap_scan" /\ strategy \in Strategies
    /\ hung \in BOOLEAN
    /\ touched \in [Tx -> SUBSET (Keys \cup {Relation})]

\* Transaction x changes slot l to v.
Moves(x, l, v) ==
    /\ Seen' = [Seen EXCEPT ![l] = v]
    /\ Own' = [Own EXCEPT ![l] = Own[l] \cup {x}]
    /\ Left' = Left
    /\ Mark' = 1 /\ MarkLeft' = MarkLeft /\ (Mark = 1 => MarkOwn' = MarkOwn)
    /\ CountLeft' = CountLeft
    /\ \A at, c : OwnersIn(undo', at, c) \subseteq OwnersIn(undo, at, c) \cup {x}

\* Store h is the current one but for slot l, which has v.
Prepared(V, h, l, v) ==
    /\ Legal(V, h) /\ h.size[Catalog] = 1 /\ h.page[EntryAt] = page[EntryAt]
    /\ \A z \in h.seen : z[Catalog] = 1
    /\ \A m \in Slots : In(h.page, h.size, m) = IF m = l THEN v ELSE Seen[m]

LEMMA SlotCommand ==
    ASSUME NEW V, ZeroPage \in Images(V), FilesInv(V),
           \A z \in sizes : z[Catalog] = 1,
           NEW l \in Slots, NEW v, v # Seen[l],
           NEW h, Prepared(V, h, l, v),
           NEW a, NEW b, NEW c, NEW d, {1, a, b, c, d} \subseteq V,
           NEW x \in Tx, WriteAll(x, WriteEntry(h, a, b, c, d))
    PROVE  FilesOK' /\ Moves(x, l, v) /\ Count' = b
<1> DEFINE st == WriteEntry(h, a, b, c, d)
<1>0. /\ Legal(V, h) /\ h.size[Catalog] = 1 /\ h.page[EntryAt] = page[EntryAt]
      /\ \A z \in h.seen : z[Catalog] = 1
      /\ \A m \in Slots : In(h.page, h.size, m) = IF m = l THEN v ELSE Seen[m]
  BY DEF Prepared
<1>1. EntryAt \in Places(h.size)
  BY <1>0, StoreConfig DEF Places, EntryAt
<1>3. /\ WriteAll(x, st) /\ st = WriteEntry(h, a, b, c, d)
      /\ {1, a, b, c, d} \subseteq V /\ Legal(V, h)
  BY <1>0
<1> HIDE DEF st
<1>2. /\ Legal(V, st) /\ st.size = h.size /\ st.seen = h.seen
      /\ st.page[EntryAt][TypeName] = 1 /\ st.page[EntryAt][NumRecords] = b
      /\ \A m \in Slots : In(st.page, st.size, m) = In(h.page, h.size, m)
  BY <1>1, <1>3, EntryWritten
<1>4. /\ FilesOK' /\ page' = st.page
      /\ Seen' = [m \in Slots |-> In(st.page, st.size, m)] /\ Left' = Left
      /\ Recovered'[EntryAt] = Recovered[EntryAt]
      /\ Own' = [m \in Slots |-> Own[m] \cup
                    (IF Seen'[m] = Seen[m] THEN {} ELSE {x})]
      /\ OwnersIn(undo', EntryAt, TypeName)
           = OwnersIn(undo, EntryAt, TypeName)
             \cup (IF page'[EntryAt][TypeName] = page[EntryAt][TypeName]
                   THEN {} ELSE {x})
      /\ \A at, e : OwnersIn(undo', at, e) \subseteq OwnersIn(undo, at, e) \cup {x}
  BY <1>0, <1>2, <1>3, Command, CellParts
<1>5. \A m \in Slots : Seen'[m] = IF m = l THEN v ELSE Seen[m]
  BY <1>0, <1>2, <1>4
<1>6. Seen' = [Seen EXCEPT ![l] = v]
  <2>1. Seen' = [m \in Slots |-> Seen'[m]] /\ Seen = [m \in Slots |-> Seen[m]]
    BY <1>4 DEF Seen
  <2> QED
    BY <1>5, <2>1
<1>7. Own' = [Own EXCEPT ![l] = Own[l] \cup {x}]
  <2>1. Own' = [m \in Slots |-> Own[m] \cup (IF m = l THEN {x} ELSE {})]
    BY <1>4, <1>5
  <2>2. Own = [m \in Slots |-> Own[m]]
    BY DEF Own
  <2> QED
    BY <2>1, <2>2
<1>8. Mark' = 1 /\ Count' = b /\ MarkLeft' = MarkLeft /\ CountLeft' = CountLeft
  BY <1>2, <1>4 DEF Mark, Count, MarkLeft, CountLeft
<1>9. Mark = 1 => MarkOwn' = MarkOwn
  BY <1>2, <1>4 DEF Mark, MarkOwn
<1> QED
  BY <1>4, <1>6, <1>7, <1>8, <1>9 DEF Moves

LEMMA TouchKeeps ==
    ASSUME touched \in [Tx -> SUBSET (Keys \cup {Relation})], NEW x \in Tx,
           NEW thing \in Keys \cup {Relation}, Touch(x, thing)
    PROVE  /\ touched' \in [Tx -> SUBSET (Keys \cup {Relation})]
           /\ touched' = [touched EXCEPT ![x] = touched[x] \cup {thing}]
  BY DEF Touch

\* create_type writes the entry and nothing else.
LEMMA TypeCreated ==
    ASSUME BaseInv, NEW x \in Tx, CreateType(x)
    PROVE  /\ BaseInv' /\ Mark = Zero /\ Mark' = 1 /\ Count' = 0
           /\ Seen' = Seen /\ Left' = Left /\ Own' = Own
           /\ MarkLeft' = MarkLeft /\ MarkOwn' = MarkOwn \cup {x}
           /\ CountLeft' = CountLeft
           /\ \A at, c : OwnersIn(undo', at, c) \subseteq OwnersIn(undo, at, c) \cup {x}
           /\ Undisputed(x, Keys \cup {Relation})
           /\ touched' = [touched EXCEPT ![x] = touched[x] \cup {Relation}]
<1>1. PICK V0 : ZeroPage \in Images(V0) /\ FilesInv(V0)
  BY DEF BaseInv, FilesOK
<1> DEFINE V == V0 \cup {0, 1, NullPage}
           st == WriteEntry(Current, 0, 0, NullPage, 0)
<1>2. ZeroPage \in Images(V) /\ FilesInv(V)
  BY <1>1, FilesWider DEF Images
<1>2a. {1, 0, 0, NullPage, 0} \subseteq V
  OBVIOUS
<1> HIDE DEF V
<1>3. /\ Legal(V, Current) /\ Current.page = page /\ Current.size = size
      /\ Current.seen = {}
  BY <1>2, LegalCurrent
<1>4. \A z \in sizes : z[Catalog] = 1
  BY DEF BaseInv, FilesOK
<1>5. EntryAt \in Places(Current.size)
  BY <1>2, <1>3, <1>4, FilesParts
<1>6. WriteAll(x, st) /\ st = WriteEntry(Current, 0, 0, NullPage, 0)
  BY DEF CreateType, BaseInv
<1> HIDE DEF st
<1>7. /\ Legal(V, st) /\ st.size = Current.size /\ st.seen = Current.seen
      /\ st.page[EntryAt][TypeName] = 1 /\ st.page[EntryAt][NumRecords] = 0
      /\ \A m \in Slots : In(st.page, st.size, m) = In(Current.page, Current.size, m)
  BY <1>2a, <1>3, <1>5, <1>6, EntryWritten
<1>8. /\ FilesOK' /\ page' = st.page
      /\ Seen' = [m \in Slots |-> In(st.page, st.size, m)] /\ Left' = Left
      /\ Recovered'[EntryAt] = Recovered[EntryAt]
      /\ Own' = [m \in Slots |-> Own[m] \cup
                    (IF Seen'[m] = Seen[m] THEN {} ELSE {x})]
      /\ OwnersIn(undo', EntryAt, TypeName)
           = OwnersIn(undo, EntryAt, TypeName)
             \cup (IF page'[EntryAt][TypeName] = page[EntryAt][TypeName]
                   THEN {} ELSE {x})
      /\ \A at, e : OwnersIn(undo', at, e) \subseteq OwnersIn(undo, at, e) \cup {x}
  BY <1>2, <1>3, <1>4, <1>6, <1>7, Command, CellParts
<1>9. Seen' = Seen
  BY <1>3, <1>7, <1>8 DEF Seen
<1>10. Own' = Own
  BY <1>8, <1>9 DEF Own
<1>11. Mark = Zero
  BY <1>3 DEF CreateType, HasType, EntryOf, Mark, EntryAt
<1>12. Mark' = 1 /\ Count' = 0 /\ MarkLeft' = MarkLeft /\ CountLeft' = CountLeft
  BY <1>7, <1>8 DEF Mark, Count, MarkLeft, CountLeft
<1>13. MarkOwn' = MarkOwn \cup {x}
  BY <1>8, <1>11, <1>12, FilesConfig DEF Mark, MarkOwn
<1>14. /\ Undisputed(x, Keys \cup {Relation}) /\ Touch(x, Relation)
       /\ strategy' = strategy /\ hung' = hung
  BY DEF CreateType
<1>15. /\ touched' \in [Tx -> SUBSET (Keys \cup {Relation})]
       /\ touched' = [touched EXCEPT ![x] = touched[x] \cup {Relation}]
  BY <1>14, TouchKeeps DEF BaseInv
<1> QED
  BY <1>8, <1>9, <1>10, <1>11, <1>12, <1>13, <1>14, <1>15 DEF BaseInv

LEMMA LookupIs ==
    ASSUME ReadBack, BaseInv, NEW k \in Keys
    PROVE  /\ Lookup(Current, k) = FindByScan(Current, k)
           /\ Hits(Current, k) = {l \in Slots : Seen[l] = k}
           /\ Current.size[Heap] \in Nat
<1>1. PICK V : ZeroPage \in Images(V) /\ FilesInv(V)
  BY DEF BaseInv, FilesOK
<1>2. Current.size = size /\ Current.page = page /\ size[Heap] \in Nat
  BY <1>1, FilesParts DEF Current, BaseInv, FilesOK
<1>3. Lookup(Current, k) = FindByScan(Current, k)
  BY DEF Lookup, BaseInv
<1> QED
  BY <1>2, <1>3 DEF Hits, Seen

\* create_record fills a free slot.
LEMMA RecordCreated ==
    ASSUME ReadBack, BaseInv, NEW x \in Tx, NEW k \in Keys, CreateRecord(x, k)
    PROVE  /\ BaseInv' /\ Mark # Zero /\ Count' = Count + 1
           /\ \A m \in Slots : Seen[m] # k
           /\ \E l \in Slots : Seen[l] = Zero /\ Moves(x, l, k)
           /\ Undisputed(x, {k, Relation})
           /\ touched' = [touched EXCEPT ![x] = touched[x] \cup {k}]
<1>1. PICK V0 : ZeroPage \in Images(V0) /\ FilesInv(V0)
  BY DEF BaseInv, FilesOK
<1> DEFINE h == InsertIntoHeap(Current, k)
           a == Max({EntryOf(h.st)[NumDataPages], h.st.size[Heap]})
           b == EntryOf(h.st)[NumRecords] + 1
           c == Root(Current)
           d == BucketsOf(h.st)
           V == V0 \cup {1, AsStored(k), "data", NullPage, a, b, c, d}
<1>2. ZeroPage \in Images(V) /\ FilesInv(V)
  BY <1>1, FilesWider DEF Images
<1>3. /\ AsStored(k) \in V /\ "data" \in V /\ NullPage \in V
      /\ {1, a, b, c, d} \subseteq V
  OBVIOUS
<1>4. WriteAll(x, WriteEntry(h.st, a, b, c, d))
  BY DEF CreateRecord, Inserted, BaseInv
<1>5. \A z \in sizes : z[Catalog] = 1
  BY DEF BaseInv, FilesOK
<1>6. b = EntryOf(h.st)[NumRecords] + 1 /\ h = InsertIntoHeap(Current, k)
  OBVIOUS
<1> HIDE DEF V, a, b, c, d, h
<1>7. PICK l \in Slots :
         /\ Legal(V, h.st) /\ Seen[l] = Zero
         /\ h.st.size[Catalog] = 1 /\ h.st.page[EntryAt] = page[EntryAt]
         /\ \A z \in h.st.seen : z[Catalog] = 1
         /\ \A m \in Slots : In(h.st.page, h.st.size, m)
                               = IF m = l THEN AsStored(k) ELSE Seen[m]
  BY <1>2, <1>3, <1>5, <1>6, RecordPlaced
<1>8. AsStored(k) = k /\ k # Zero
  BY HeapConfig, FilesConfig DEF ReadBack
<1>9. FilesOK' /\ Moves(x, l, k) /\ Count' = b
  <2>1. Prepared(V, h.st, l, k) /\ k # Seen[l]
    BY <1>7, <1>8 DEF Prepared
  <2> QED
    BY <1>2, <1>3, <1>4, <1>5, <2>1, SlotCommand
<1>10. Count' = Count + 1
  BY <1>6, <1>7, <1>9 DEF Count, EntryOf, EntryAt
<1>11. Mark # Zero
  BY DEF CreateRecord, HasType, EntryOf, Mark, EntryAt, Current
<1>12. ASSUME NEW m \in Slots PROVE Seen[m] # k
  <2>1. FindByScan(Current, k) = NoLoc
    BY LookupIs DEF CreateRecord
  <2>2. Hits(Current, k) = {}
    BY <2>1, LookupIs, ScanFinds
  <2> QED
    BY <2>2, LookupIs
<1>13. /\ Undisputed(x, {k, Relation}) /\ Touch(x, k)
       /\ strategy' = strategy /\ hung' = hung
  BY DEF CreateRecord
<1>14. /\ touched' \in [Tx -> SUBSET (Keys \cup {Relation})]
       /\ touched' = [touched EXCEPT ![x] = touched[x] \cup {k}]
  BY <1>13, TouchKeeps DEF BaseInv
<1> QED
  BY <1>7, <1>9, <1>10, <1>11, <1>12, <1>13, <1>14 DEF BaseInv

\* delete_record frees the slot in which the look-up found the record.
LEMMA RecordDeleted ==
    ASSUME ReadBack, BaseInv, NEW x \in Tx, NEW k \in Keys, DeleteRecord(x, k)
    PROVE  /\ BaseInv' /\ Mark # Zero /\ Count' = Max({0, Count - 1})
           /\ k \in Deletes
           /\ \E l \in Slots : Seen[l] = k /\ Moves(x, l, Zero)
           /\ Undisputed(x, {k, Relation})
           /\ touched' = [touched EXCEPT ![x] = touched[x] \cup {k}]
<1>1. PICK V0 : ZeroPage \in Images(V0) /\ FilesInv(V0)
  BY DEF BaseInv, FilesOK
<1> DEFINE l == Lookup(Current, k)
           h == ClearSlot(Current, l)
           a == EntryOf(Current)[NumDataPages]
           b == Max({0, EntryOf(Current)[NumRecords] - 1})
           c == Root(Current)
           d == BucketsOf(Current)
           V == V0 \cup {1, Zero, a, b, c, d}
<1>2. ZeroPage \in Images(V) /\ FilesInv(V)
  BY <1>1, FilesWider DEF Images
<1>3. Zero \in V /\ {1, a, b, c, d} \subseteq V
  OBVIOUS
<1>4. \A z \in sizes : z[Catalog] = 1
  BY DEF BaseInv, FilesOK
<1>5. k # Zero
  BY HeapConfig, FilesConfig
<1>6. l \in Slots /\ Seen[l] = k
  <2>1. IsLoc(FindByScan(Current, k)) /\ l = FindByScan(Current, k)
    BY LookupIs DEF DeleteRecord
  <2>2. l \in Hits(Current, k)
    BY <2>1, LookupIs, ScanFinds
  <2> QED
    BY <2>2, LookupIs
<1>7. RecordAt(Current, l) # Zero
  BY <1>5, <1>6, ReadSlot DEF Seen, Current
<1>8. WriteAll(x, WriteEntry(h, a, b, c, d))
  <2>1. WriteAll(x, Deleted(k, l))
    BY DEF DeleteRecord
  <2>2. Deleted(k, l) = WriteEntry(h, a, b, c, d)
    BY <1>7 DEF Deleted, BaseInv
  <2> QED
    BY <2>1, <2>2
<1>9. h = ClearSlot(Current, l) /\ b = Max({0, EntryOf(Current)[NumRecords] - 1})
  OBVIOUS
<1> HIDE DEF V, a, b, c, d, h, l
<1>10. /\ Legal(V, h) /\ h.size = size /\ h.seen = {}
       /\ h.page[EntryAt] = page[EntryAt]
       /\ \A m \in Slots : In(h.page, h.size, m) = IF m = l THEN Zero ELSE Seen[m]
  BY <1>2, <1>3, <1>4, <1>5, <1>6, <1>9, RecordCleared
<1>11. size[Catalog] = 1
  BY <1>2, <1>4, FilesParts
<1>12. FilesOK' /\ Moves(x, l, Zero) /\ Count' = b
  <2>1. Prepared(V, h, l, Zero) /\ Zero # Seen[l]
    BY <1>5, <1>6, <1>10, <1>11 DEF Prepared
  <2> QED
    BY <1>2, <1>3, <1>4, <1>6, <1>8, <2>1, SlotCommand
<1>13. Count' = Max({0, Count - 1})
  BY <1>9, <1>12 DEF Count, EntryOf, EntryAt, Current
<1>14. Mark # Zero
  BY DEF DeleteRecord, HasType, EntryOf, Mark, EntryAt, Current
<1>15. /\ Undisputed(x, {k, Relation}) /\ Touch(x, k) /\ k \in Deletes
       /\ strategy' = strategy /\ hung' = hung
  BY DEF DeleteRecord
<1>16. /\ touched' \in [Tx -> SUBSET (Keys \cup {Relation})]
       /\ touched' = [touched EXCEPT ![x] = touched[x] \cup {k}]
  BY <1>15, TouchKeeps DEF BaseInv
<1> QED
  BY <1>6, <1>12, <1>13, <1>14, <1>15, <1>16 DEF BaseInv

-----------------------------------------------------------------------------
(* The inductive invariant *)

\* Slots hold different keys, and none before the type exists.
Placed(seen, mark) ==
    /\ seen \in [Slots -> Keys \cup {Zero}]
    /\ \A l, m \in Slots : seen[l] = seen[m] /\ seen[l] # Zero => l = m
    /\ mark \in {1, Zero}
    /\ mark = Zero => \A l \in Slots : seen[l] = Zero

\* Open transactions stay off each other's keys and type.
Apart ==
    \A x, y \in Tx : x # y =>
        /\ touched[x] \cap touched[y] = {}
        /\ Relation \in touched[x] => touched[y] = {}
        /\ Separate => touched[x] = {} \/ touched[y] = {}

\* A slot or the type's mark has one owner at most, which holds there, now
\* and before it, nothing but what it touched.
OwnedSlot(l) ==
    \/ Own[l] = {} /\ Left[l] = Seen[l]
    \/ \E y \in Tx :
          /\ Own[l] = {y} /\ touched[y] # {}
          /\ {Seen[l], Left[l]} \subseteq touched[y] \cup {Zero}
OwnedMark ==
    \/ MarkOwn = {} /\ MarkLeft = Mark
    \/ \E y \in Tx : /\ MarkOwn = {y} /\ Relation \in touched[y]
                     /\ MarkLeft = Zero /\ Mark = 1

\* Without deletes, what is owned is a record.
Fresh == Deletes = {} => \A l \in Slots : Own[l] # {} => Seen[l] # Zero

SlotInv ==
    /\ BaseInv /\ Placed(Seen, Mark) /\ Placed(Left, MarkLeft)
    /\ Apart /\ (\A l \in Slots : OwnedSlot(l)) /\ OwnedMark /\ Fresh

\* What a command may assume of the other transactions.
Alone(x, thing) ==
    \A y \in Tx \ {x} : touched[y] # {} =>
        /\ thing # Relation /\ thing \notin touched[y]
        /\ Relation \notin touched[y] /\ ~Separate

LEMMA KeyParts ==
    Zero \notin Keys /\ Relation \notin Keys /\ Zero # 1
<1>1. 1 \in Int /\ Keys \subseteq Int /\ Zero \notin Int
  BY HeapConfig, FilesConfig
<1> QED
  BY <1>1, StoreConfig

LEMMA RecordAlone ==
    ASSUME BaseInv, NEW x \in Tx, NEW k \in Keys, Undisputed(x, {k, Relation})
    PROVE  Alone(x, k)
<1> SUFFICES ASSUME NEW y \in Tx \ {x}, touched[y] # {}
             PROVE  /\ k # Relation /\ k \notin touched[y]
                    /\ Relation \notin touched[y] /\ ~Separate
  BY DEF Alone
<1>1. /\ touched[y] \cap {k, Relation} = {}
      /\ {strategy} \X ({k, Relation} \ {Relation}) \subseteq Interleaved
  BY DEF Undisputed
<1>2. strategy = "heap_scan" /\ k # Relation
  BY KeyParts DEF BaseInv
<1>3. <<"heap_scan", k>> \in Interleaved
  BY <1>1, <1>2
<1> QED
  BY <1>1, <1>2, <1>3 DEF Separate

LEMMA TypeAlone ==
    ASSUME BaseInv, NEW x \in Tx, Undisputed(x, Keys \cup {Relation})
    PROVE  \A y \in Tx \ {x} : touched[y] = {}
  BY DEF Undisputed, BaseInv

LEMMA TouchApart ==
    ASSUME touched \in [Tx -> SUBSET (Keys \cup {Relation})], Apart,
           NEW x \in Tx, NEW thing, Alone(x, thing),
           touched' = [touched EXCEPT ![x] = touched[x] \cup {thing}]
    PROVE  /\ Apart' /\ thing \in touched'[x] /\ touched'[x] # {}
           /\ \A y \in Tx : touched[y] \subseteq touched'[y]
           /\ \A y \in Tx \ {x} : touched'[y] = touched[y]
<1>1. /\ touched'[x] = touched[x] \cup {thing}
      /\ \A y \in Tx \ {x} : touched'[y] = touched[y]
  OBVIOUS
<1>2. ASSUME NEW y \in Tx, NEW z \in Tx, y # z
      PROVE  /\ touched'[y] \cap touched'[z] = {}
             /\ Relation \in touched'[y] => touched'[z] = {}
             /\ Separate => touched'[y] = {} \/ touched'[z] = {}
  <2>1. CASE y # x /\ z # x
    BY <1>1, <1>2, <2>1 DEF Apart
  <2>2. CASE y = x
    BY <1>1, <1>2, <2>2 DEF Apart, Alone
  <2>3. CASE z = x
    BY <1>1, <1>2, <2>3 DEF Apart, Alone
  <2> QED
    BY <2>1, <2>2, <2>3
<1>3. Apart'
  BY <1>2 DEF Apart
<1> QED
  BY <1>1, <1>3


LEMMA RecordStarts ==
    ASSUME HeapScan, Init
    PROVE  SlotInv /\ Mark = Zero /\ MarkLeft = Zero
           /\ OwnersIn(undo, EntryAt, NumRecords) = {}
<1> DEFINE img == EmptyPage("catalog")
           V == {ZeroPage[c] : c \in Cells} \cup {"catalog", NullPage}
<1>1. /\ page = [at \in {<<Catalog, 0>>} |-> img] /\ undo = << >>
      /\ size = [f \in FileIds |-> IF f = Catalog THEN 1 ELSE 0]
      /\ sizes = {size} /\ Catalog \in FileIds /\ Heap \in FileIds
      /\ size \in Sizes /\ size[Catalog] = 1 /\ size[Heap] = 0
  BY HeapConfig, StoreConfig DEF Init, Sizes
<1>2. ZeroPage \in Images(V) /\ img \in Images(V)
  <2>1. ZeroPage \in Images(V)
    BY DEF Images, ZeroPage
  <2> QED
    BY <2>1 DEF Images, EmptyPage
<1>3. img[TypeName] = Zero
  <2>1. /\ TypeName \in Cells /\ TypeName # KindCell /\ TypeName # NextCell
        /\ TypeName \notin NextCell .. FirstCell
    BY CellParts DEF TypeName, NextCell, FirstCell, KindCell
  <2>2. ZeroPage[TypeName] = Zero
    BY <2>1 DEF ZeroPage
  <2> QED
    BY <2>1, <2>2, BlankSlots DEF EmptyPage
<1> HIDE DEF img, V
<1>4. Places(size) = {<<Catalog, 0>>}
  <2>1. ASSUME NEW at \in Places(size) PROVE at = <<Catalog, 0>>
    <3>1. /\ at = <<at[1], at[2]>> /\ at[1] \in FileIds /\ at[2] \in Nat
          /\ at[2] < size[at[1]]
      BY DEF Places
    <3>2. at[1] = Catalog /\ at[2] = 0
      BY <1>1, <3>1
    <3> QED
      BY <3>1, <3>2
  <2>2. <<Catalog, 0>> \in Places(size)
    BY <1>1 DEF Places
  <2> QED
    BY <2>1, <2>2
<1>5. FilesInv(V)
  <2>1. page \in [Places(size) -> Images(V)]
    BY <1>1, <1>2, <1>4
  <2>2. UndoIn(V, Places(size), undo)
    BY <1>1 DEF UndoIn
  <2>3. \A z \in sizes, f \in FileIds : z[f] <= size[f] /\ size[f] <= MaxPages
    BY <1>1, FilesConfig
  <2>4. ASSUME NEW z \in sizes, NEW at \in Places(size)
        PROVE  ~(at[2] >= z[at[1]])
    BY <1>1, <1>4
  <2> QED
    BY <1>1, <2>1, <2>2, <2>3, <2>4 DEF FilesInv
<1>6. FilesOK
  BY <1>1, <1>2, <1>5 DEF FilesOK
<1>7. \A at, c : OwnersIn(undo, at, c) = {}
  BY <1>1 DEF OwnersIn, SavedIn
<1>8. /\ EntryAt \in Places(size) /\ page[EntryAt] = img
      /\ TypeName \in Cells
  BY <1>1, <1>4, CellParts DEF EntryAt
<1>9. Mark = Zero /\ MarkLeft = Zero
  <2>1. Recovered[EntryAt][TypeName] = page[EntryAt][TypeName]
    BY <1>5, <1>7, <1>8, Unowned
  <2> QED
    BY <1>3, <1>8, <2>1 DEF Mark, MarkLeft
<1>10. /\ Seen = [l \in Slots |-> Zero] /\ Left = [l \in Slots |-> Zero]
       /\ Own = [l \in Slots |-> {}] /\ MarkOwn = {}
  <2>1. \A l \in Slots : ~(l[1] < size[Heap])
    BY <1>1, SlotParts
  <2> QED
    BY <1>7, <2>1 DEF Seen, Left, In, Own, MarkOwn
<1>11. Placed(Seen, Mark) /\ Placed(Left, MarkLeft)
  BY <1>9, <1>10 DEF Placed
<1>12. /\ touched = [x \in Tx |-> {}] /\ hung = FALSE
       /\ strategy = "heap_scan" /\ strategy \in Strategies
  BY DEF Init, HeapScan
<1>13. BaseInv /\ Apart
  BY <1>6, <1>12 DEF BaseInv, Apart
<1>14. (\A l \in Slots : OwnedSlot(l)) /\ OwnedMark /\ Fresh
  BY <1>9, <1>10 DEF OwnedSlot, OwnedMark, Fresh
<1> QED
  BY <1>7, <1>9, <1>11, <1>13, <1>14 DEF SlotInv


\* What a record command changes: slot l, from a key or free to v.
Fills(k, l, v) ==
    /\ v = k /\ Seen[l] = Zero /\ \A m \in Slots : Seen[m] # k
Frees(k, l, v) ==
    /\ v = Zero /\ Seen[l] = k /\ k \in Deletes

LEMMA SlotMoved ==
    ASSUME SlotsApart, SlotInv, BaseInv', NEW x \in Tx, NEW k \in Keys,
           NEW l \in Slots, NEW v, Moves(x, l, v), Mark # Zero,
           Fills(k, l, v) \/ Frees(k, l, v), Alone(x, k),
           touched' = [touched EXCEPT ![x] = touched[x] \cup {k}]
    PROVE  SlotInv'
<1>1. /\ Apart' /\ k \in touched'[x] /\ touched'[x] # {}
      /\ \A y \in Tx : touched[y] \subseteq touched'[y]
      /\ \A y \in Tx \ {x} : touched'[y] = touched[y]
  BY TouchApart DEF SlotInv, BaseInv
<1>2. /\ Seen' = [Seen EXCEPT ![l] = v] /\ Left' = Left
      /\ Own' = [Own EXCEPT ![l] = Own[l] \cup {x}]
      /\ Mark' = 1 /\ MarkLeft' = MarkLeft /\ (Mark = 1 => MarkOwn' = MarkOwn)
  BY DEF Moves
<1>3. /\ Seen \in [Slots -> Keys \cup {Zero}] /\ Mark = 1
      /\ \A m, n \in Slots : Seen[m] = Seen[n] /\ Seen[m] # Zero => m = n
      /\ Placed(Left, MarkLeft)
  BY DEF SlotInv, Placed
<1>4. /\ Seen'[l] = v /\ Own'[l] = Own[l] \cup {x} /\ v \in Keys \cup {Zero}
      /\ \A m \in Slots : m # l => Seen'[m] = Seen[m] /\ Own'[m] = Own[m]
      /\ Seen' \in [Slots -> Keys \cup {Zero}]
  <2>1. DOMAIN Own = Slots /\ v \in Keys \cup {Zero}
    BY DEF Own, Fills, Frees
  <2> QED
    BY <1>2, <1>3, <2>1
<1>5. Placed(Seen', Mark')
  <2>1. ASSUME NEW m \in Slots, NEW n \in Slots, Seen'[m] = Seen'[n],
               Seen'[m] # Zero
        PROVE  m = n
    BY <1>3, <1>4, <2>1 DEF Fills, Frees
  <2> QED
    BY <1>2, <1>4, <2>1, KeyParts DEF Placed
<1>6. Placed(Left', MarkLeft')
  BY <1>2, <1>3
<1>7. ASSUME NEW m \in Slots PROVE OwnedSlot(m)'
  <2>1. OwnedSlot(m)
    BY DEF SlotInv
  <2>2. CASE m # l
    <3>1. /\ Own'[m] = Own[m] /\ Left'[m] = Left[m] /\ Seen'[m] = Seen[m]
      BY <1>2, <1>4, <2>2
    <3>2. CASE Own[m] = {} /\ Left[m] = Seen[m]
      BY <3>1, <3>2 DEF OwnedSlot
    <3>3. ASSUME NEW y \in Tx, Own[m] = {y}, touched[y] # {},
                 {Seen[m], Left[m]} \subseteq touched[y] \cup {Zero}
          PROVE  OwnedSlot(m)'
      <4>1. touched'[y] # {} /\ {Seen'[m], Left'[m]} \subseteq touched'[y] \cup {Zero}
        BY <1>1, <3>1, <3>3
      <4> QED
        BY <3>1, <3>3, <4>1 DEF OwnedSlot
    <3> QED
      BY <2>1, <3>2, <3>3 DEF OwnedSlot
  <2>3. CASE m = l
    <3>1. Own'[m] = Own[m] \cup {x} /\ Seen'[m] = v /\ Left'[m] = Left[m]
      BY <1>2, <1>4, <2>3
    <3>2. CASE Own[m] = {} /\ Left[m] = Seen[m]
      <4>1. Own'[m] = {x} /\ {Seen'[m], Left'[m]} \subseteq touched'[x] \cup {Zero}
        BY <1>1, <2>3, <3>1, <3>2 DEF Fills, Frees
      <4> QED
        BY <1>1, <4>1 DEF OwnedSlot
    <3>3. ASSUME NEW y \in Tx, Own[m] = {y}, touched[y] # {},
                 {Seen[m], Left[m]} \subseteq touched[y] \cup {Zero}
          PROVE  OwnedSlot(m)'
      <4>1. y = x
        <5>1. SUFFICES ASSUME y # x PROVE FALSE
          OBVIOUS
        <5>2. k \notin touched[y] /\ ~Separate
          BY <3>3, <5>1 DEF Alone
        <5>3. Deletes = {} /\ Seen[m] # Zero
          BY <3>3, <5>2 DEF SlotsApart, SlotInv, Fresh
        <5> QED
          BY <2>3, <3>3, <5>2, <5>3 DEF Fills, Frees
      <4>2. Own'[m] = {x} /\ {Seen'[m], Left'[m]} \subseteq touched'[x] \cup {Zero}
        BY <1>1, <3>1, <3>3, <4>1 DEF Fills, Frees
      <4> QED
        BY <1>1, <4>2 DEF OwnedSlot
    <3> QED
      BY <2>1, <3>2, <3>3 DEF OwnedSlot
  <2> QED
    BY <2>2, <2>3
<1>8. OwnedMark'
  <2>1. OwnedMark /\ MarkOwn' = MarkOwn /\ Mark' = Mark /\ MarkLeft' = MarkLeft
    BY <1>2, <1>3 DEF SlotInv
  <2>2. \A y \in Tx : Relation \in touched[y] => Relation \in touched'[y]
    BY <1>1
  <2> QED
    BY <2>1, <2>2 DEF OwnedMark
<1>9. Fresh'
  <2>1. ASSUME Deletes = {}, NEW m \in Slots, Own'[m] # {} PROVE Seen'[m] # Zero
    <3>1. CASE m = l
      BY <1>4, <2>1, <3>1, KeyParts DEF Fills, Frees
    <3>2. CASE m # l
      BY <1>4, <2>1, <3>2 DEF SlotInv, Fresh
    <3> QED
      BY <3>1, <3>2
  <2> QED
    BY <2>1 DEF Fresh
<1> QED
  BY <1>1, <1>5, <1>6, <1>7, <1>8, <1>9 DEF SlotInv, Placed

LEMMA RecordStep ==
    ASSUME ReadBack, SlotsApart, SlotInv, NEW x \in Tx, NEW k \in Keys,
           CreateRecord(x, k) \/ DeleteRecord(x, k)
    PROVE  SlotInv'
<1>1. BaseInv
  BY DEF SlotInv
<1>2. CASE CreateRecord(x, k)
  <2>1. /\ BaseInv' /\ Mark # Zero /\ \A m \in Slots : Seen[m] # k
        /\ \E l \in Slots : Seen[l] = Zero /\ Moves(x, l, k)
        /\ Undisputed(x, {k, Relation})
        /\ touched' = [touched EXCEPT ![x] = touched[x] \cup {k}]
    BY <1>1, <1>2, RecordCreated
  <2>2. PICK l \in Slots : Seen[l] = Zero /\ Moves(x, l, k)
    BY <2>1
  <2>3. Fills(k, l, k)
    BY <2>1, <2>2 DEF Fills
  <2> QED
    BY <1>1, <2>1, <2>2, <2>3, RecordAlone, SlotMoved
<1>3. CASE DeleteRecord(x, k)
  <2>1. /\ BaseInv' /\ Mark # Zero /\ k \in Deletes
        /\ \E l \in Slots : Seen[l] = k /\ Moves(x, l, Zero)
        /\ Undisputed(x, {k, Relation})
        /\ touched' = [touched EXCEPT ![x] = touched[x] \cup {k}]
    BY <1>1, <1>3, RecordDeleted
  <2>2. PICK l \in Slots : Seen[l] = k /\ Moves(x, l, Zero)
    BY <2>1
  <2>3. Frees(k, l, Zero)
    BY <2>1, <2>2 DEF Frees
  <2> QED
    BY <1>1, <2>1, <2>2, <2>3, RecordAlone, SlotMoved
<1> QED
  BY <1>2, <1>3


LEMMA TypeStep ==
    ASSUME ReadBack, SlotInv, NEW x \in Tx, CreateType(x)
    PROVE  SlotInv' /\ \A l \in Slots : Seen[l] = Zero
<1>1. /\ BaseInv' /\ Mark = Zero /\ Mark' = 1
      /\ Seen' = Seen /\ Left' = Left /\ Own' = Own
      /\ MarkLeft' = MarkLeft /\ MarkOwn' = MarkOwn \cup {x}
      /\ Undisputed(x, Keys \cup {Relation})
      /\ touched' = [touched EXCEPT ![x] = touched[x] \cup {Relation}]
  BY TypeCreated DEF SlotInv
<1>2. \A y \in Tx \ {x} : touched[y] = {}
  BY <1>1, TypeAlone DEF SlotInv
<1>3. Alone(x, Relation)
  BY <1>2 DEF Alone
<1>4. /\ Apart' /\ Relation \in touched'[x]
      /\ \A y \in Tx : touched[y] \subseteq touched'[y]
  BY <1>1, <1>3, TouchApart DEF SlotInv, BaseInv
<1>5. /\ Seen \in [Slots -> Keys \cup {Zero}] /\ \A l \in Slots : Seen[l] = Zero
  BY <1>1 DEF SlotInv, Placed
<1>6. Placed(Seen', Mark')
  BY <1>1, <1>5 DEF Placed
<1>7. Placed(Left', MarkLeft')
  BY <1>1 DEF SlotInv
<1>8. ASSUME NEW l \in Slots PROVE OwnedSlot(l)'
  <2>1. OwnedSlot(l) /\ \A y \in Tx : touched[y] # {} => touched'[y] # {}
    BY <1>4 DEF SlotInv
  <2> QED
    BY <1>1, <1>4, <2>1 DEF OwnedSlot
<1>9. OwnedMark'
  <2>1. MarkOwn = {} /\ MarkLeft = Zero
    BY <1>1, KeyParts DEF SlotInv, OwnedMark
  <2>2. MarkOwn' = {x} /\ MarkLeft' = Zero
    BY <1>1, <2>1
  <2> QED
    BY <1>1, <1>4, <2>2 DEF OwnedMark
<1>10. Fresh'
  BY <1>1 DEF SlotInv, Fresh
<1> QED
  BY <1>1, <1>4, <1>5, <1>6, <1>7, <1>8, <1>9, <1>10 DEF SlotInv

\* What commit changes, slot by slot.
LEMMA CommitParts ==
    ASSUME SlotInv, NEW x \in Tx, Commit(x)
    PROVE  /\ BaseInv' /\ touched[x] # {} /\ Seen' = Seen /\ Mark' = Mark
           /\ Count' = Count
           /\ touched' = [touched EXCEPT ![x] = {}]
           /\ \A l \in Slots :
                 /\ Own'[l] = Own[l] \ {x}
                 /\ Left'[l] = IF x \in Own[l] THEN Seen[l] ELSE Left[l]
           /\ MarkOwn' = MarkOwn \ {x}
           /\ MarkLeft' = IF x \in MarkOwn THEN Mark ELSE MarkLeft
           /\ DOMAIN Left' = Slots
<1>1. /\ FilesOK' /\ UNCHANGED <<page, size>> /\ Seen' = Seen
      /\ \A l \in Slots : \A y : Own[l] \subseteq {y} =>
            /\ Own'[l] = Own[l] \ {x}
            /\ Left'[l] = IF x \in Own[l] THEN Seen[l] ELSE Left[l]
      /\ \A c \in Cells : \A y : OwnersIn(undo, EntryAt, c) \subseteq {y} =>
            /\ OwnersIn(undo', EntryAt, c) = OwnersIn(undo, EntryAt, c) \ {x}
            /\ Recovered'[EntryAt][c]
                 = IF x \in OwnersIn(undo, EntryAt, c)
                   THEN page[EntryAt][c] ELSE Recovered[EntryAt][c]
  BY Committed DEF Commit, SlotInv, BaseInv
<1>2. /\ touched[x] # {} /\ touched' = [touched EXCEPT ![x] = {}]
      /\ strategy' = strategy /\ hung' = hung
  BY DEF Commit
<1>3. ASSUME NEW l \in Slots PROVE \E y : Own[l] \subseteq {y}
  BY DEF SlotInv, OwnedSlot
<1>4. \E y : MarkOwn \subseteq {y}
  BY DEF SlotInv, OwnedMark
<1>5. /\ MarkOwn' = MarkOwn \ {x}
      /\ MarkLeft' = IF x \in MarkOwn THEN Mark ELSE MarkLeft
  BY <1>1, <1>4, CellParts DEF MarkOwn, Mark, MarkLeft
<1>6. Mark' = Mark /\ Count' = Count
  BY <1>1 DEF Mark, Count
<1>7. BaseInv'
  BY <1>1, <1>2 DEF SlotInv, BaseInv
<1>8. DOMAIN Left' = Slots
  BY DEF Left
<1> QED
  BY <1>1, <1>2, <1>3, <1>5, <1>6, <1>7, <1>8

LEMMA CommitStep ==
    ASSUME SlotInv, NEW x \in Tx, Commit(x)
    PROVE  SlotInv'
<1>1. /\ BaseInv' /\ touched[x] # {} /\ Seen' = Seen /\ Mark' = Mark
      /\ touched' = [touched EXCEPT ![x] = {}]
      /\ \A l \in Slots :
            /\ Own'[l] = Own[l] \ {x}
            /\ Left'[l] = IF x \in Own[l] THEN Seen[l] ELSE Left[l]
      /\ MarkOwn' = MarkOwn \ {x}
      /\ MarkLeft' = IF x \in MarkOwn THEN Mark ELSE MarkLeft
      /\ DOMAIN Left' = Slots
  BY CommitParts
<1>2. /\ touched'[x] = {} /\ \A y \in Tx \ {x} : touched'[y] = touched[y]
  BY <1>1 DEF SlotInv, BaseInv
<1>3. Apart'
  BY <1>2 DEF SlotInv, Apart
<1>4. /\ Seen \in [Slots -> Keys \cup {Zero}]
      /\ \A l, m \in Slots : Seen[l] = Seen[m] /\ Seen[l] # Zero => l = m
      /\ Left \in [Slots -> Keys \cup {Zero}]
      /\ \A l, m \in Slots : Left[l] = Left[m] /\ Left[l] # Zero => l = m
      /\ Mark \in {1, Zero} /\ MarkLeft \in {1, Zero}
      /\ Mark = Zero => \A l \in Slots : Seen[l] = Zero
      /\ MarkLeft = Zero => \A l \in Slots : Left[l] = Zero
  BY DEF SlotInv, Placed
<1>5. Left' \in [Slots -> Keys \cup {Zero}]
  <2>1. \A l \in Slots : Left'[l] \in Keys \cup {Zero}
    BY <1>1, <1>4
  <2>2. Left' = [l \in Slots |-> Left'[l]]
    BY DEF Left
  <2> QED
    BY <2>1, <2>2
<1>6. ASSUME NEW l \in Slots, NEW m \in Slots, x \in Own[l],
             Seen[l] = Left'[m], Seen[l] # Zero
      PROVE  l = m
  <2>1. Seen[l] \in touched[x]
    BY <1>6 DEF SlotInv, OwnedSlot
  <2>2. CASE x \in Own[m]
    BY <1>1, <1>4, <1>6, <2>2
  <2>3. CASE x \notin Own[m]
    <3>1. Left[m] = Seen[l]
      BY <1>1, <1>6, <2>3
    <3>2. Left[m] = Seen[m]
      <4>1. ASSUME NEW y \in Tx, Own[m] = {y},
                   {Seen[m], Left[m]} \subseteq touched[y] \cup {Zero}
            PROVE  FALSE
        BY <1>6, <2>1, <2>3, <3>1, <4>1 DEF SlotInv, Apart
      <4> QED
        BY <4>1 DEF SlotInv, OwnedSlot
    <3> QED
      BY <1>4, <1>6, <3>1, <3>2
  <2> QED
    BY <2>2, <2>3
<1>7. ASSUME NEW l \in Slots, NEW m \in Slots, Left'[l] = Left'[m],
             Left'[l] # Zero
      PROVE  l = m
  <2>1. CASE x \in Own[l]
    BY <1>1, <1>6, <1>7, <2>1
  <2>2. CASE x \in Own[m]
    BY <1>1, <1>6, <1>7, <2>2
  <2>3. CASE x \notin Own[l] /\ x \notin Own[m]
    BY <1>1, <1>4, <1>7, <2>3
  <2> QED
    BY <2>1, <2>2, <2>3
<1>8. ASSUME MarkLeft' = Zero, NEW l \in Slots PROVE Left'[l] = Zero
  <2>1. x \notin MarkOwn /\ MarkLeft = Zero
    BY <1>1, <1>8, KeyParts DEF SlotInv, OwnedMark
  <2>2. Left[l] = Zero
    BY <1>4, <2>1
  <2>3. Mark = Zero
    BY <1>1, <2>1 DEF SlotInv, OwnedMark, Apart
  <2> QED
    BY <1>1, <1>4, <2>2, <2>3
<1>9. Placed(Seen', Mark') /\ Placed(Left', MarkLeft')
  <2>1. MarkLeft' \in {1, Zero}
    BY <1>1, <1>4
  <2> QED
    BY <1>1, <1>4, <1>5, <1>7, <1>8, <2>1 DEF Placed
<1>10. ASSUME NEW l \in Slots PROVE OwnedSlot(l)'
  <2>1. /\ Own'[l] = Own[l] \ {x} /\ Seen'[l] = Seen[l]
        /\ Left'[l] = IF x \in Own[l] THEN Seen[l] ELSE Left[l]
    BY <1>1
  <2>2. CASE Own[l] = {} /\ Left[l] = Seen[l]
    BY <2>1, <2>2 DEF OwnedSlot
  <2>3. ASSUME NEW y \in Tx, Own[l] = {y}, touched[y] # {},
               {Seen[l], Left[l]} \subseteq touched[y] \cup {Zero}
        PROVE  OwnedSlot(l)'
    <3>1. CASE y = x
      <4>1. Own'[l] = {} /\ Left'[l] = Seen'[l]
        BY <2>1, <2>3, <3>1
      <4> QED
        BY <4>1 DEF OwnedSlot
    <3>2. CASE y # x
      <4>1. /\ Own'[l] = {y} /\ touched'[y] # {}
            /\ {Seen'[l], Left'[l]} \subseteq touched'[y] \cup {Zero}
        BY <1>2, <2>1, <2>3, <3>2
      <4> QED
        BY <4>1 DEF OwnedSlot
    <3> QED
      BY <3>1, <3>2
  <2>4. OwnedSlot(l)
    BY DEF SlotInv
  <2> QED
    BY <2>2, <2>3, <2>4 DEF OwnedSlot
<1>11. OwnedMark'
  BY <1>1, <1>2 DEF SlotInv, OwnedMark
<1>12. Fresh'
  BY <1>1 DEF SlotInv, Fresh
<1> QED
  BY <1>1, <1>3, <1>9, <1>10, <1>11, <1>12 DEF SlotInv

LEMMA CrashStep ==
    ASSUME SlotInv, Crash
    PROVE  /\ SlotInv' /\ Seen' = Left /\ Left' = Left
           /\ Mark' = MarkLeft /\ MarkLeft' = MarkLeft
           /\ Count' = CountLeft /\ CountLeft' = CountLeft
           /\ OwnersIn(undo', EntryAt, NumRecords) = {}
<1>1. /\ FilesOK' /\ Seen' = Left /\ Left' = Left
      /\ page'[EntryAt] = Recovered[EntryAt]
      /\ Recovered'[EntryAt] = Recovered[EntryAt]
      /\ \A at, c : OwnersIn(undo', at, c) = {}
  BY Crashed DEF Crash, SlotInv, BaseInv
<1>2. /\ Mark' = MarkLeft /\ MarkLeft' = MarkLeft
      /\ Count' = CountLeft /\ CountLeft' = CountLeft
      /\ MarkOwn' = {} /\ \A l \in Slots : Own'[l] = {}
  BY <1>1 DEF Mark, MarkLeft, Count, CountLeft, MarkOwn, Own
<1>3. touched' = [x \in Tx |-> {}] /\ hung' = FALSE /\ strategy' = strategy
  BY DEF Crash
<1>4. BaseInv' /\ Apart'
  BY <1>1, <1>3 DEF SlotInv, BaseInv, Apart
<1>5. Placed(Seen', Mark') /\ Placed(Left', MarkLeft')
  BY <1>1, <1>2 DEF SlotInv
<1>6. (\A l \in Slots : OwnedSlot(l)') /\ OwnedMark' /\ Fresh'
  BY <1>1, <1>2 DEF OwnedSlot, OwnedMark, Fresh
<1> QED
  BY <1>1, <1>2, <1>4, <1>5, <1>6 DEF SlotInv


LEMMA IdleFiles ==
    ASSUME FilesOK, UNCHANGED files
    PROVE  FilesOK' /\ Recovered' = Recovered
<1>1. page' = page /\ size' = size /\ sizes' = sizes /\ undo' = undo
  BY DEF files
<1>2. Recovered' = Recovered
  BY <1>1 DEF Recovered, Saved
<1>3. PICK V : ZeroPage \in Images(V) /\ FilesInv(V)
  BY DEF FilesOK
<1>4. FilesInv(V)'
  BY <1>1, <1>2, <1>3 DEF FilesInv
<1> QED
  BY <1>1, <1>2, <1>3, <1>4 DEF FilesOK

LEMMA IdleStep ==
    ASSUME SlotInv, UNCHANGED <<files, strategy, touched>>, hung' \in BOOLEAN
    PROVE  /\ SlotInv' /\ Seen' = Seen /\ Left' = Left /\ Mark' = Mark
           /\ MarkLeft' = MarkLeft /\ Count' = Count /\ CountLeft' = CountLeft
           /\ undo' = undo /\ touched' = touched
<1>1. /\ page' = page /\ size' = size /\ sizes' = sizes /\ undo' = undo
      /\ strategy' = strategy /\ touched' = touched
  BY DEF files
<1>2. FilesOK' /\ Recovered' = Recovered
  BY IdleFiles DEF SlotInv, BaseInv
<1>3. /\ Seen' = Seen /\ Left' = Left /\ Own' = Own /\ Mark' = Mark
      /\ MarkLeft' = MarkLeft /\ MarkOwn' = MarkOwn
      /\ Count' = Count /\ CountLeft' = CountLeft
  BY <1>1, <1>2
     DEF Seen, Left, Own, Mark, MarkLeft, MarkOwn, Count, CountLeft
<1>4. BaseInv' /\ Apart'
  BY <1>1, <1>2 DEF SlotInv, BaseInv, Apart
<1>5. (\A l \in Slots : OwnedSlot(l)') /\ OwnedMark' /\ Fresh'
  BY <1>1, <1>3 DEF SlotInv, OwnedSlot, OwnedMark, Fresh
<1> QED
  BY <1>1, <1>3, <1>4, <1>5 DEF SlotInv

LEMMA SlotInvariant ==
    ASSUME ReadBack, SlotsApart
    PROVE  Spec /\ HeapScan => []SlotInv
<1>1. Init /\ HeapScan => SlotInv
  BY RecordStarts
<1>2. ASSUME SlotInv, [Next]_vars PROVE SlotInv'
  <2>1. ASSUME NEW x \in Tx, CreateType(x) PROVE SlotInv'
    BY <1>2, <2>1, TypeStep
  <2>2. ASSUME NEW x \in Tx, Commit(x) PROVE SlotInv'
    BY <1>2, <2>2, CommitStep
  <2>3. ASSUME NEW x \in Tx, NEW k \in Keys, CreateRecord(x, k) \/ DeleteRecord(x, k)
        PROVE  SlotInv'
    BY <1>2, <2>3, RecordStep
  <2>4. ASSUME NEW k \in Keys, Hang(k) PROVE SlotInv'
    BY <1>2, <2>4, IdleStep DEF Hang
  <2>5. CASE Crash
    BY <1>2, <2>5, CrashStep
  <2>6. CASE UNCHANGED vars
    <3>1. hung \in BOOLEAN
      BY <1>2 DEF SlotInv, BaseInv
    <3> QED
      BY <1>2, <2>6, <3>1, IdleStep DEF vars, files
  <2> QED
    BY <1>2, <2>1, <2>2, <2>3, <2>4, <2>5, <2>6 DEF Next
<1> QED
  BY <1>1, <1>2, PTL DEF Spec

-----------------------------------------------------------------------------
(* What the invariant means for look-ups *)

\* Store st holds the slots seen and the mark and count of the type's entry.
Holds(st, seen, mark, count) ==
    /\ st.size[Heap] \in Nat
    /\ seen = [l \in Slots |-> In(st.page, st.size, l)]
    /\ mark = EntryOf(st)[TypeName] /\ count = EntryOf(st)[NumRecords]

LEMMA StoresHold ==
    ASSUME BaseInv
    PROVE  /\ Holds(Current, Seen, Mark, Count)
           /\ Holds(AfterCrash, Left, MarkLeft, CountLeft)
<1>1. PICK V : ZeroPage \in Images(V) /\ FilesInv(V)
  BY DEF BaseInv, FilesOK
<1>2. size[Heap] \in Nat
  BY <1>1, FilesParts DEF BaseInv, FilesOK
<1>3. /\ Current.page = page /\ Current.size = size
      /\ AfterCrash.page = Recovered /\ AfterCrash.size = size
  BY DEF Current, AfterCrash
<1> QED
  BY <1>2, <1>3 DEF Holds, Seen, Left, Mark, MarkLeft, Count, CountLeft,
                    EntryOf, EntryAt

LEMMA ReadHeld ==
    ASSUME NEW st, NEW seen, NEW mark, NEW count, Holds(st, seen, mark, count)
    PROVE  /\ Occupied(st) = {l \in Slots : seen[l] # Zero}
           /\ \A l \in Slots : RecordAt(st, l) = seen[l]
           /\ \A k : Hits(st, k) = {l \in Slots : seen[l] = k}
           /\ HasType(st) <=> mark # Zero
  BY OccupiedIs, ReadSlot DEF Holds, Hits, HasType

LEMMA ScanAnswers ==
    ASSUME ReadBack, strategy = "heap_scan",
           NEW st, NEW seen, NEW mark, NEW count, Holds(st, seen, mark, count),
           NEW k \in Keys
    PROVE  /\ IsLoc(Lookup(st, k)) <=> \E l \in Slots : seen[l] = k
           /\ IsLoc(Lookup(st, k)) => /\ Lookup(st, k) \in Slots
                                      /\ seen[Lookup(st, k)] = k
<1>1. Lookup(st, k) = FindByScan(st, k)
  BY DEF Lookup
<1>2. Hits(st, k) = {l \in Slots : seen[l] = k} /\ st.size[Heap] \in Nat
  BY ReadHeld DEF Holds
<1>3. /\ Hits(st, k) # {} => FindByScan(st, k) \in Hits(st, k)
      /\ IsLoc(FindByScan(st, k)) <=> Hits(st, k) # {}
  BY <1>2, ScanFinds
<1> QED
  BY <1>1, <1>2, <1>3

LEMMA PlacedIsUnique ==
    ASSUME NEW st, NEW seen, NEW mark, NEW count, Holds(st, seen, mark, count),
           Placed(seen, mark)
    PROVE  \A l, m \in Occupied(st) : RecordAt(st, l) = RecordAt(st, m) => l = m
  BY ReadHeld DEF Placed

LEMMA PlacedIsFound ==
    ASSUME ReadBack, strategy = "heap_scan",
           NEW st, NEW seen, NEW mark, NEW count, Holds(st, seen, mark, count),
           Placed(seen, mark)
    PROVE  /\ \A loc \in Occupied(st) : Lookup(st, RecordAt(st, loc)) = loc
           /\ \A k \in Keys : IsLoc(Lookup(st, k)) =>
                 RecordAt(st, Lookup(st, k)) = k
<1>1. /\ Occupied(st) = {l \in Slots : seen[l] # Zero}
      /\ \A l \in Slots : RecordAt(st, l) = seen[l]
  BY ReadHeld
<1>2. ASSUME NEW loc \in Occupied(st) PROVE Lookup(st, RecordAt(st, loc)) = loc
  <2>1. loc \in Slots /\ RecordAt(st, loc) = seen[loc] /\ seen[loc] \in Keys
    BY <1>1 DEF Placed
  <2>2. /\ Lookup(st, seen[loc]) \in Slots
        /\ seen[Lookup(st, seen[loc])] = seen[loc]
    BY <2>1, ScanAnswers
  <2> QED
    BY <1>1, <2>1, <2>2 DEF Placed
<1>3. ASSUME NEW k \in Keys, IsLoc(Lookup(st, k))
      PROVE  RecordAt(st, Lookup(st, k)) = k
  BY <1>1, <1>3, ScanAnswers
<1> QED
  BY <1>2, <1>3


-----------------------------------------------------------------------------
(* Types *)

LEMMA BaseInvariant ==
    ASSUME ReadBack
    PROVE  Spec /\ HeapScan => []BaseInv
<1>1. Init /\ HeapScan => BaseInv
  BY RecordStarts DEF SlotInv
<1>2. ASSUME BaseInv, [Next]_vars PROVE BaseInv'
  <2>1. ASSUME NEW x \in Tx, CreateType(x) PROVE BaseInv'
    BY <1>2, <2>1, TypeCreated
  <2>2. ASSUME NEW x \in Tx, Commit(x) PROVE BaseInv'
    <3>1. /\ CommitFiles(x) /\ touched' = [touched EXCEPT ![x] = {}]
          /\ strategy' = strategy /\ hung' = hung
      BY <2>2 DEF Commit
    <3>2. FilesOK'
      BY <1>2, <3>1, Committed DEF BaseInv
    <3> QED
      BY <1>2, <3>1, <3>2 DEF BaseInv
  <2>3. ASSUME NEW x \in Tx, NEW k \in Keys, CreateRecord(x, k) PROVE BaseInv'
    BY <1>2, <2>3, RecordCreated
  <2>4. ASSUME NEW x \in Tx, NEW k \in Keys, DeleteRecord(x, k) PROVE BaseInv'
    BY <1>2, <2>4, RecordDeleted
  <2>5. CASE Crash
    <3>1. /\ CrashFiles /\ touched' = [x \in Tx |-> {}]
          /\ strategy' = strategy /\ hung' = FALSE
      BY <2>5 DEF Crash
    <3>2. FilesOK'
      BY <1>2, <3>1, Crashed DEF BaseInv
    <3> QED
      BY <1>2, <3>1, <3>2 DEF BaseInv
  <2>6. ASSUME UNCHANGED <<files, strategy, touched>>, hung' \in BOOLEAN
        PROVE  BaseInv'
    <3>1. FilesOK'
      BY <1>2, <2>6, IdleFiles DEF BaseInv
    <3> QED
      BY <1>2, <2>6, <3>1 DEF BaseInv
  <2>7. ASSUME NEW k \in Keys, Hang(k) PROVE BaseInv'
    BY <2>6, <2>7 DEF Hang
  <2>8. CASE UNCHANGED vars
    BY <1>2, <2>6, <2>8 DEF vars, files, BaseInv
  <2> QED
    BY <1>2, <2>1, <2>2, <2>3, <2>4, <2>5, <2>7, <2>8 DEF Next
<1> QED
  BY <1>1, <1>2, PTL DEF Spec

\* The pages of the store are those below their file's count, no file
\* outgrows its bound, and what an undo has to put back lies in pages that
\* exist: allocate_page, the commands' page writes, commits and what recovery
\* leaves after a crash keep page counts, pages and before-images in step.
THEOREM RecordTypes ==
    ASSUME ReadBack
    PROVE  Spec /\ HeapScan => []TypeOK
<1>1. BaseInv => TypeOK
  <2> SUFFICES ASSUME BaseInv PROVE TypeOK
    OBVIOUS
  <2>1. PICK V : ZeroPage \in Images(V) /\ FilesInv(V)
    BY DEF BaseInv, FilesOK
  <2>2. /\ size \in Sizes /\ size \in sizes
        /\ \A z \in sizes, f \in FileIds : z[f] <= size[f] /\ size[f] <= MaxPages
        /\ DOMAIN page = Places(size) /\ UndoIn(V, Places(size), undo)
    BY <2>1 DEF FilesInv
  <2>3. \A f \in FileIds : size[f] \in 0 .. MaxPages
    BY <2>2, FilesConfig DEF Sizes
  <2>4. Places(size) = {at \in FileIds \X PageIds : at[2] < size[at[1]]}
    <3>1. ASSUME NEW at \in Places(size) PROVE at \in FileIds \X PageIds
      BY <2>3, FilesConfig DEF Places, PageIds
    <3>2. PageIds \subseteq Nat
      BY FilesConfig DEF PageIds
    <3> QED
      BY <3>1, <3>2 DEF Places
  <2>5. /\ DOMAIN undo \subseteq DOMAIN page
        /\ \A at \in DOMAIN undo : DOMAIN undo[at] \in (SUBSET Cells) \ {{}}
    BY <2>2 DEF UndoIn
  <2> QED
    BY <2>2, <2>3, <2>4, <2>5 DEF TypeOK, BaseInv
<1> QED
  BY <1>1, BaseInvariant, PTL

-----------------------------------------------------------------------------
(* Keys *)

\* At most one record has a primary key, now and after a crash at any
\* moment, whatever transactions insert, delete, commit or lose: the slots
\* that create_record fills, delete_record frees and a restart puts back
\* never hold a key twice. If there are deletes, no two transactions are open
\* at once: undo would take a slot back that an open delete has freed and
\* another transaction's insert has filled (place_on_page, _undo_record).
THEOREM RecordKeysAreUnique ==
    ASSUME ReadBack, SlotsApart
    PROVE  Spec /\ HeapScan => []KeysUnique
<1>1. SlotInv => KeysUnique
  <2> SUFFICES ASSUME SlotInv, NEW st \in Stores
               PROVE  \A l, m \in Occupied(st) :
                         RecordAt(st, l) = RecordAt(st, m) => l = m
    BY DEF KeysUnique
  <2>1. \E seen, mark, count : Holds(st, seen, mark, count) /\ Placed(seen, mark)
    BY StoresHold DEF Stores, SlotInv
  <2> QED
    BY <2>1, PlacedIsUnique
<1> QED
  BY <1>1, SlotInvariant, PTL

\* A look-up by primary key, which decides whether create_record refuses and
\* what search_record and delete_record work on, finds every record of the
\* heap at its place and no other, now and after a crash (_lookup_pointer,
\* find_location_by_pk).
THEOREM ScansMatchHeap ==
    ASSUME ReadBack, SlotsApart
    PROVE  Spec /\ HeapScan => []IndexMatchesHeap
<1>1. SlotInv => IndexMatchesHeap
  <2> SUFFICES ASSUME SlotInv, NEW st \in Stores
               PROVE  /\ \A loc \in Occupied(st) :
                            Lookup(st, RecordAt(st, loc)) = loc
                      /\ \A k \in Keys : IsLoc(Lookup(st, k)) =>
                            RecordAt(st, Lookup(st, k)) = k
    BY DEF IndexMatchesHeap
  <2>1. strategy = "heap_scan"
    BY DEF SlotInv, BaseInv
  <2>2. \E seen, mark, count : Holds(st, seen, mark, count) /\ Placed(seen, mark)
    BY StoresHold DEF Stores, SlotInv
  <2> QED
    BY <2>1, <2>2, PlacedIsFound
<1> QED
  BY <1>1, SlotInvariant, PTL


-----------------------------------------------------------------------------
(* The count of records *)

CountOwn == OwnersIn(undo, EntryAt, NumRecords)

HeldIn(seen) == {l \in Slots : seen[l] # Zero}
Tallied(seen, mark, count) ==
    mark # Zero => IsFiniteSet(HeldIn(seen)) /\ count = Cardinality(HeldIn(seen))

\* The count is right now and after a crash, and whoever changed it is open.
CountInv ==
    /\ Tallied(Seen, Mark, Count) /\ Tallied(Left, MarkLeft, CountLeft)
    /\ CountOwn \subseteq {y \in Tx : touched[y] # {}}

LEMMA TalliedBlank ==
    ASSUME NEW seen, NEW mark, \A l \in Slots : seen[l] = Zero
    PROVE  Tallied(seen, mark, 0)
<1>1. HeldIn(seen) = {}
  BY DEF HeldIn
<1> QED
  BY <1>1, FS_EmptySet DEF Tallied

\* Commands leave the count owned by open transactions only.
LEMMA CountOwned ==
    ASSUME SlotInv, CountInv, NEW x \in Tx, NEW thing \in Keys \cup {Relation},
           touched' = [touched EXCEPT ![x] = touched[x] \cup {thing}],
           \A at, c : OwnersIn(undo', at, c) \subseteq OwnersIn(undo, at, c) \cup {x}
    PROVE  CountOwn' \subseteq {y \in Tx : touched'[y] # {}}
<1>1. \A y \in Tx : touched[y] \subseteq touched'[y]
  BY DEF SlotInv, BaseInv
<1>2. touched'[x] # {}
  BY DEF SlotInv, BaseInv
<1>3. CountOwn' \subseteq CountOwn \cup {x}
  BY DEF CountOwn
<1> QED
  BY <1>1, <1>2, <1>3 DEF CountInv

LEMMA CountType ==
    ASSUME ReadBack, SlotInv, CountInv, NEW x \in Tx, CreateType(x)
    PROVE  CountInv'
<1>1. /\ Count' = 0 /\ Seen' = Seen /\ Left' = Left /\ MarkLeft' = MarkLeft
      /\ CountLeft' = CountLeft
      /\ \A at, c : OwnersIn(undo', at, c) \subseteq OwnersIn(undo, at, c) \cup {x}
      /\ touched' = [touched EXCEPT ![x] = touched[x] \cup {Relation}]
  BY TypeCreated DEF SlotInv
<1>2. \A l \in Slots : Seen[l] = Zero
  BY TypeStep
<1>3. Tallied(Seen', Mark', Count')
  BY <1>1, <1>2, TalliedBlank
<1>4. Tallied(Left', MarkLeft', CountLeft')
  BY <1>1 DEF CountInv
<1>5. CountOwn' \subseteq {y \in Tx : touched'[y] # {}}
  BY <1>1, CountOwned
<1> QED
  BY <1>3, <1>4, <1>5 DEF CountInv

LEMMA CountRecord ==
    ASSUME ReadBack, SlotInv, CountInv, NEW x \in Tx, NEW k \in Keys,
           CreateRecord(x, k) \/ DeleteRecord(x, k)
    PROVE  CountInv'
<1>1. /\ Mark # Zero /\ touched' = [touched EXCEPT ![x] = touched[x] \cup {k}]
      /\ \E l \in Slots, v \in Keys \cup {Zero} :
            /\ Moves(x, l, v)
            /\ \/ Seen[l] = Zero /\ v = k /\ Count' = Count + 1
               \/ Seen[l] = k /\ v = Zero /\ Count' = Max({0, Count - 1})
  BY RecordCreated, RecordDeleted DEF SlotInv
<1>2. PICK l \in Slots, v \in Keys \cup {Zero} :
         /\ Moves(x, l, v)
         /\ \/ Seen[l] = Zero /\ v = k /\ Count' = Count + 1
            \/ Seen[l] = k /\ v = Zero /\ Count' = Max({0, Count - 1})
  BY <1>1
<1>3. /\ Seen' = [Seen EXCEPT ![l] = v] /\ Left' = Left /\ MarkLeft' = MarkLeft
      /\ CountLeft' = CountLeft
      /\ \A at, c : OwnersIn(undo', at, c) \subseteq OwnersIn(undo, at, c) \cup {x}
  BY <1>2 DEF Moves
<1>4. /\ IsFiniteSet(HeldIn(Seen)) /\ Count = Cardinality(HeldIn(Seen))
      /\ Cardinality(HeldIn(Seen)) \in Nat
  BY <1>1, FS_CardinalityType DEF CountInv, Tallied
<1>5. DOMAIN Seen = Slots /\ k # Zero
  BY KeyParts DEF Seen
<1>6. IsFiniteSet(HeldIn(Seen')) /\ Count' = Cardinality(HeldIn(Seen'))
  <2>1. CASE Seen[l] = Zero /\ v = k /\ Count' = Count + 1
    <3>1. HeldIn(Seen') = HeldIn(Seen) \cup {l} /\ l \notin HeldIn(Seen)
      BY <1>3, <1>5, <2>1 DEF HeldIn
    <3>2. /\ IsFiniteSet(HeldIn(Seen) \cup {l})
          /\ Cardinality(HeldIn(Seen) \cup {l}) = Cardinality(HeldIn(Seen)) + 1
      BY <1>4, <3>1, FS_AddElement
    <3> QED
      BY <1>4, <2>1, <3>1, <3>2
  <2>2. CASE Seen[l] = k /\ v = Zero /\ Count' = Max({0, Count - 1})
    <3>1. HeldIn(Seen') = HeldIn(Seen) \ {l} /\ l \in HeldIn(Seen)
      BY <1>3, <1>5, <2>2 DEF HeldIn
    <3>2. /\ IsFiniteSet(HeldIn(Seen) \ {l})
          /\ Cardinality(HeldIn(Seen) \ {l}) = Cardinality(HeldIn(Seen)) - 1
          /\ Cardinality(HeldIn(Seen) \ {l}) \in Nat
      BY <1>4, <3>1, FS_RemoveElement, FS_CardinalityType
    <3>3. Count' = Count - 1
      BY <1>4, <2>2, <3>2, MaxIs
    <3> QED
      BY <1>4, <3>1, <3>2, <3>3
  <2> QED
    BY <1>2, <2>1, <2>2
<1>7. CountOwn' \subseteq {y \in Tx : touched'[y] # {}}
  BY <1>1, <1>3, CountOwned
<1> QED
  BY <1>3, <1>6, <1>7 DEF CountInv, Tallied

\* The transaction that commits is the only one that is open.
LEMMA CountCommit ==
    ASSUME Separate, SlotInv, CountInv, NEW x \in Tx, Commit(x)
    PROVE  CountInv'
<1>1. /\ touched[x] # {} /\ Seen' = Seen /\ Mark' = Mark /\ Count' = Count
      /\ \A l \in Slots : Left'[l] = IF x \in Own[l] THEN Seen[l] ELSE Left[l]
      /\ MarkLeft' = IF x \in MarkOwn THEN Mark ELSE MarkLeft
  BY CommitParts
<1>2. \A y \in Tx : touched[y] # {} => y = x
  BY <1>1 DEF SlotInv, Apart
<1>3. HeldIn(Left') = HeldIn(Seen) /\ MarkLeft' = Mark
  <2>1. \A l \in Slots : Left'[l] = Seen[l]
    BY <1>1, <1>2 DEF SlotInv, OwnedSlot
  <2>2. MarkLeft' = Mark
    BY <1>1, <1>2 DEF SlotInv, OwnedMark
  <2> QED
    BY <2>1, <2>2 DEF HeldIn
<1>4. CountOwn \subseteq {x}
  BY <1>2 DEF CountInv
<1>5. CountOwn' = {} /\ CountLeft' = Count
  <2>1. /\ \A c \in Cells : \A y : OwnersIn(undo, EntryAt, c) \subseteq {y} =>
             /\ OwnersIn(undo', EntryAt, c) = OwnersIn(undo, EntryAt, c) \ {x}
             /\ Recovered'[EntryAt][c]
                  = IF x \in OwnersIn(undo, EntryAt, c)
                    THEN page[EntryAt][c] ELSE Recovered[EntryAt][c]
    BY Committed DEF Commit, SlotInv, BaseInv
  <2>2. /\ CountOwn' = CountOwn \ {x}
        /\ CountLeft' = IF x \in CountOwn THEN Count ELSE CountLeft
    BY <1>4, <2>1, CellParts DEF CountOwn, Count, CountLeft
  <2>3. CountOwn = {} => CountLeft = Count
    <3>1. PICK V : ZeroPage \in Images(V) /\ FilesInv(V)
      BY DEF SlotInv, BaseInv, FilesOK
    <3>2. EntryAt \in Places(size)
      BY <3>1, FilesParts DEF SlotInv, BaseInv, FilesOK
    <3> QED
      BY <3>1, <3>2, Unowned, CellParts DEF CountOwn, Count, CountLeft
  <2> QED
    BY <1>4, <2>2, <2>3
<1>6. Tallied(Seen', Mark', Count') /\ Tallied(Left', MarkLeft', CountLeft')
  BY <1>1, <1>3, <1>5 DEF CountInv, Tallied
<1> QED
  BY <1>5, <1>6 DEF CountInv

LEMMA CountInvariant ==
    ASSUME ReadBack, Separate
    PROVE  Spec /\ HeapScan => []CountInv
<1>1. Init /\ HeapScan => CountInv
  <2> SUFFICES ASSUME Init, HeapScan PROVE CountInv
    OBVIOUS
  <2>1. Mark = Zero /\ MarkLeft = Zero /\ CountOwn = {}
    BY RecordStarts DEF CountOwn
  <2> QED
    BY <2>1 DEF CountInv, Tallied
<1>2. ASSUME SlotInv, CountInv, [Next]_vars PROVE CountInv'
  <2>1. ASSUME NEW x \in Tx, CreateType(x) PROVE CountInv'
    BY <1>2, <2>1, CountType
  <2>2. ASSUME NEW x \in Tx, Commit(x) PROVE CountInv'
    BY <1>2, <2>2, CountCommit
  <2>3. ASSUME NEW x \in Tx, NEW k \in Keys, CreateRecord(x, k) \/ DeleteRecord(x, k)
        PROVE  CountInv'
    BY <1>2, <2>3, CountRecord
  <2>4. CASE Crash
    BY <1>2, <2>4, CrashStep DEF CountInv, CountOwn
  <2>5. ASSUME UNCHANGED <<files, strategy, touched>>, hung' \in BOOLEAN
        PROVE  CountInv'
    BY <1>2, <2>5, IdleStep DEF CountInv, CountOwn
  <2>6. ASSUME NEW k \in Keys, Hang(k) PROVE CountInv'
    BY <2>5, <2>6 DEF Hang
  <2>7. CASE UNCHANGED vars
    BY <1>2, <2>5, <2>7 DEF vars, files, SlotInv, BaseInv
  <2> QED
    BY <1>2, <2>1, <2>2, <2>3, <2>4, <2>6, <2>7 DEF Next
<1>3. SlotsApart
  BY DEF SlotsApart
<1> QED
  BY <1>1, <1>2, <1>3, SlotInvariant, PTL DEF Spec


\* num_records of the catalog entry counts the records of the heap, now and
\* after a crash at any moment. create_record and delete_record write the
\* record and the count to different pages, and a crash may find one logged
\* and not the other. Transactions follow each other: two that are open at
\* once change the one count, and undo would put back the other's.
THEOREM CountsMatchHeap ==
    ASSUME ReadBack, Separate
    PROVE  Spec /\ HeapScan => []CountMatchesHeap
<1>1. SlotInv /\ CountInv => CountMatchesHeap
  <2> SUFFICES ASSUME SlotInv, CountInv, NEW st \in Stores, HasType(st)
               PROVE  EntryOf(st)[NumRecords] = Cardinality(Occupied(st))
    BY DEF CountMatchesHeap
  <2>1. \E seen, mark, count :
           Holds(st, seen, mark, count) /\ Tallied(seen, mark, count)
    BY StoresHold DEF Stores, SlotInv, CountInv
  <2>2. PICK seen, mark, count :
           Holds(st, seen, mark, count) /\ Tallied(seen, mark, count)
    BY <2>1
  <2>3. Occupied(st) = HeldIn(seen) /\ mark # Zero
    BY <2>2, ReadHeld DEF HeldIn
  <2>4. EntryOf(st)[NumRecords] = count
    BY <2>2 DEF Holds
  <2> QED
    BY <2>2, <2>3, <2>4 DEF Tallied
<1>2. SlotsApart
  BY DEF SlotsApart
<1> QED
  BY <1>1, <1>2, SlotInvariant, CountInvariant, PTL

-----------------------------------------------------------------------------
(* The map that searches show *)

\* What slots and mark stand for.
Things(seen, mark) ==
    IF mark = Zero THEN {}
    ELSE {Relation} \cup {k \in Keys : \E l \in Slots : seen[l] = k}

ShownInv == now = Things(Seen, Mark) /\ kept = Things(Left, MarkLeft)

LEMMA ServedIs ==
    ASSUME ReadBack, strategy = "heap_scan",
           NEW st, NEW seen, NEW mark, NEW count, Holds(st, seen, mark, count)
    PROVE  Served(st) = Things(seen, mark)
<1>1. ASSUME NEW k \in Keys
      PROVE  Answers(st, k) <=> \E l \in Slots : seen[l] = k
  <2>1. /\ IsLoc(Lookup(st, k)) <=> \E l \in Slots : seen[l] = k
        /\ IsLoc(Lookup(st, k)) => /\ Lookup(st, k) \in Slots
                                   /\ seen[Lookup(st, k)] = k
    BY ScanAnswers
  <2>2. \A l \in Slots : RecordAt(st, l) = seen[l]
    BY ReadHeld
  <2>3. AsStored(k) = k
    BY DEF ReadBack
  <2> QED
    BY <2>1, <2>2, <2>3 DEF Answers
<1>2. HasType(st) <=> mark # Zero
  BY ReadHeld
<1> QED
  BY <1>1, <1>2 DEF Served, Things

LEMMA ShownNow ==
    ASSUME ReadBack, BaseInv, BaseInv', Observe, strategy' = strategy
    PROVE  ShownInv'
<1>1. PICK st \in {Current'}, crashed \in {AfterCrash'} :
         now' = Served(st) /\ kept' = Served(crashed)
  BY DEF Observe
<1>2. Holds(st, Seen', Mark', Count') /\ Holds(crashed, Left', MarkLeft', CountLeft')
  <2>1. PICK V : FilesInv(V)'
    BY DEF BaseInv, FilesOK
  <2>2. size'[Heap] \in Nat
    BY <2>1, HeapConfig DEF FilesInv, Sizes
  <2>3. /\ st.page = page' /\ st.size = size'
        /\ crashed.page = Recovered' /\ crashed.size = size'
    BY <1>1 DEF Current, AfterCrash
  <2> QED
    BY <2>2, <2>3 DEF Holds, Seen, Left, Mark, MarkLeft, Count, CountLeft,
                      EntryOf, EntryAt
<1>3. strategy = "heap_scan"
  BY DEF BaseInv
<1>4. Served(st) = Things(Seen', Mark') /\ Served(crashed) = Things(Left', MarkLeft')
  BY <1>2, <1>3, ServedIs
<1> QED
  BY <1>1, <1>4 DEF ShownInv, Things


\* A record command moves what is shown by its key.
LEMMA ShownMoved ==
    ASSUME NEW seen, NEW new, NEW k \in Keys, NEW l \in Slots, NEW v,
           Placed(seen, 1), new = [seen EXCEPT ![l] = v]
    PROVE  /\ seen[l] = Zero /\ v = k => Things(new, 1) = Things(seen, 1) \cup {k}
           /\ seen[l] = k /\ v = Zero => Things(new, 1) = Things(seen, 1) \ {k}
<1>1. /\ Zero \notin Keys /\ Relation \notin Keys /\ Zero # 1
      /\ seen \in [Slots -> Keys \cup {Zero}]
      /\ \A m, n \in Slots : seen[m] = seen[n] /\ seen[m] # Zero => m = n
  BY KeyParts DEF Placed
<1>2. new[l] = v /\ \A m \in Slots : m # l => new[m] = seen[m]
  BY <1>1
<1>3. ASSUME seen[l] = Zero, v = k, NEW j \in Keys
      PROVE  (\E m \in Slots : new[m] = j) <=> j = k \/ \E m \in Slots : seen[m] = j
  BY <1>1, <1>2, <1>3
<1>4. ASSUME seen[l] = k, v = Zero, NEW j \in Keys
      PROVE  (\E m \in Slots : new[m] = j) <=> j # k /\ \E m \in Slots : seen[m] = j
  BY <1>1, <1>2, <1>4
<1> QED
  BY <1>1, <1>3, <1>4 DEF Things

LEMMA ShownRecord ==
    ASSUME ReadBack, SlotInv, ShownInv, ShownInv', NEW x \in Tx, NEW k \in Keys,
           CreateRecord(x, k) \/ DeleteRecord(x, k)
    PROVE  Map!Insert(x, k) \/ Map!Delete(x, k)
<1>1. BaseInv /\ Placed(Seen, Mark) /\ Relation \notin Keys /\ k # Zero
  BY KeyParts DEF SlotInv
<1>2. CASE CreateRecord(x, k)
  <2>1. /\ Mark # Zero /\ \A m \in Slots : Seen[m] # k
        /\ \E l \in Slots : Seen[l] = Zero /\ Moves(x, l, k)
        /\ touched' = [touched EXCEPT ![x] = touched[x] \cup {k}]
    BY <1>1, <1>2, RecordCreated
  <2>2. PICK l \in Slots : Seen[l] = Zero /\ Moves(x, l, k)
    BY <2>1
  <2>3. Mark = 1 /\ Mark' = 1 /\ Zero # 1
    BY <1>1, <2>1, <2>2, KeyParts DEF Placed, Moves
  <2>4. /\ Seen' = [Seen EXCEPT ![l] = k] /\ Left' = Left /\ MarkLeft' = MarkLeft
    BY <2>2 DEF Moves
  <2>5. now' = now \cup {k} /\ kept' = kept
    BY <1>1, <2>2, <2>3, <2>4, ShownMoved DEF ShownInv
  <2>6. Relation \in now /\ k \notin now
    BY <1>1, <2>1, <2>3 DEF ShownInv, Things
  <2> QED
    BY <2>1, <2>5, <2>6 DEF Map!Insert, Map!Touch
<1>3. CASE DeleteRecord(x, k)
  <2>1. /\ Mark # Zero /\ \E l \in Slots : Seen[l] = k /\ Moves(x, l, Zero)
        /\ touched' = [touched EXCEPT ![x] = touched[x] \cup {k}]
    BY <1>1, <1>3, RecordDeleted
  <2>2. PICK l \in Slots : Seen[l] = k /\ Moves(x, l, Zero)
    BY <2>1
  <2>3. Mark = 1 /\ Mark' = 1 /\ Zero # 1
    BY <1>1, <2>1, <2>2, KeyParts DEF Placed, Moves
  <2>4. /\ Seen' = [Seen EXCEPT ![l] = Zero] /\ Left' = Left /\ MarkLeft' = MarkLeft
    BY <2>2 DEF Moves
  <2>5. now' = now \ {k} /\ kept' = kept
    BY <1>1, <2>2, <2>3, <2>4, ShownMoved DEF ShownInv
  <2>6. k \in now
    BY <2>2, <2>3 DEF ShownInv, Things
  <2> QED
    BY <2>1, <2>5, <2>6 DEF Map!Delete, Map!Touch
<1> QED
  BY <1>2, <1>3

LEMMA ShownType ==
    ASSUME ReadBack, SlotInv, ShownInv, ShownInv', NEW x \in Tx, CreateType(x)
    PROVE  Map!Create(x)
<1>1. /\ Mark = Zero /\ Mark' = 1 /\ Seen' = Seen /\ Left' = Left
      /\ MarkLeft' = MarkLeft
      /\ touched' = [touched EXCEPT ![x] = touched[x] \cup {Relation}]
  BY TypeCreated DEF SlotInv
<1>2. (\A l \in Slots : Seen[l] = Zero) /\ Zero \notin Keys /\ Zero # 1
  BY TypeStep, KeyParts
<1>3. now = {} /\ now' = {Relation} /\ kept' = kept
  BY <1>1, <1>2 DEF ShownInv, Things
<1> QED
  BY <1>1, <1>3 DEF Map!Create, Map!Touch

\* What a commit keeps of each thing: what is shown of those it changed.
LEMMA ShownCommit ==
    ASSUME SlotInv, ShownInv, ShownInv', NEW x \in Tx, Commit(x)
    PROVE  Map!Commit(x)
<1>1. /\ touched[x] # {} /\ Seen' = Seen /\ Mark' = Mark
      /\ touched' = [touched EXCEPT ![x] = {}]
      /\ \A l \in Slots : Left'[l] = IF x \in Own[l] THEN Seen[l] ELSE Left[l]
      /\ MarkLeft' = IF x \in MarkOwn THEN Mark ELSE MarkLeft
  BY CommitParts
<1>2. now' = now
  BY <1>1 DEF ShownInv
<1>3. Placed(Seen, Mark) /\ Placed(Left, MarkLeft) /\ Placed(Left', MarkLeft')
  BY CommitStep DEF SlotInv
<1>4. Zero \notin Keys /\ Relation \notin Keys /\ Zero # 1
  BY KeyParts
<1>5. /\ \A j \in Keys : j \in now <=> \E l \in Slots : Seen[l] = j
      /\ \A j \in Keys : j \in kept <=> \E l \in Slots : Left[l] = j
      /\ \A j \in Keys : j \in kept' <=> \E l \in Slots : Left'[l] = j
  <2>1. ASSUME NEW seen, NEW mark, Placed(seen, mark), NEW j \in Keys
        PROVE  j \in Things(seen, mark) <=> \E l \in Slots : seen[l] = j
    BY <1>4, <2>1 DEF Things, Placed
  <2> QED
    BY <1>3, <2>1 DEF ShownInv
<1>6. /\ Relation \in now <=> Mark # Zero
      /\ Relation \in kept <=> MarkLeft # Zero
      /\ Relation \in kept' <=> MarkLeft' # Zero
  BY <1>4 DEF ShownInv, Things
<1>7. ASSUME NEW l \in Slots
      PROVE  \/ Own[l] = {} /\ Left[l] = Seen[l]
             \/ /\ Own[l] = {x}
                /\ {Seen[l], Left[l]} \subseteq touched[x] \cup {Zero}
             \/ /\ x \notin Own[l]
                /\ {Seen[l], Left[l]} \cap touched[x] \subseteq {Zero}
  BY DEF SlotInv, OwnedSlot, Apart
<1>8. ASSUME NEW j \in Keys
      PROVE  j \in kept' <=> j \in (kept \ touched[x]) \cup (now \cap touched[x])
  <2>1. CASE j \in touched[x]
    <3>1. \A l \in Slots : Left'[l] = j <=> Seen[l] = j
      BY <1>1, <1>4, <1>7, <2>1
    <3> QED
      BY <1>5, <2>1, <3>1
  <2>2. CASE j \notin touched[x]
    <3>1. \A l \in Slots : Left'[l] = j <=> Left[l] = j
      BY <1>1, <1>4, <1>7, <2>2
    <3> QED
      BY <1>5, <2>2, <3>1
  <2> QED
    BY <2>1, <2>2
<1>9. Relation \in kept'
        <=> Relation \in (kept \ touched[x]) \cup (now \cap touched[x])
  <2>1. \/ MarkOwn = {} /\ MarkLeft = Mark
        \/ MarkOwn = {x} /\ Relation \in touched[x]
    BY <1>1 DEF SlotInv, OwnedMark, Apart
  <2> QED
    BY <1>1, <1>6, <2>1
<1>10. kept \cup now \cup kept' \subseteq Keys \cup {Relation}
  BY DEF ShownInv, Things
<1>11. kept' = (kept \ touched[x]) \cup (now \cap touched[x])
  BY <1>8, <1>9, <1>10
<1> QED
  BY <1>1, <1>2, <1>11 DEF Map!Commit


LEMMA ShownStart ==
    ASSUME ReadBack, HeapScan, ViewInit
    PROVE  ShownInv /\ Map!Init
<1>1. SlotInv /\ Mark = Zero /\ MarkLeft = Zero
  BY RecordStarts DEF ViewInit
<1>2. Holds(Current, Seen, Mark, Count) /\ Holds(AfterCrash, Left, MarkLeft, CountLeft)
  BY <1>1, StoresHold DEF SlotInv
<1>3. now = Served(Current) /\ kept = Served(AfterCrash)
      /\ touched = [x \in Tx |-> {}]
  BY DEF ViewInit, Init
<1>4. strategy = "heap_scan"
  BY <1>1 DEF SlotInv, BaseInv
<1>5. ShownInv
  BY <1>2, <1>3, <1>4, ServedIs DEF ShownInv
<1>6. now = {} /\ kept = {}
  BY <1>1, <1>5 DEF ShownInv, Things
<1> QED
  BY <1>3, <1>5, <1>6 DEF Map!Init

LEMMA ShownStep ==
    ASSUME ReadBack, SlotInv, SlotInv', ShownInv, ViewNext
    PROVE  ShownInv' /\ [Map!Next]_Map!mapVars
<1>1. strategy' = strategy
  BY DEF SlotInv, BaseInv
<1>2. ShownInv'
  BY <1>1, ShownNow DEF SlotInv, ViewNext
<1>3. ASSUME NEW x \in Tx, CreateType(x) PROVE [Map!Next]_Map!mapVars
  BY <1>2, <1>3, ShownType DEF Map!Next
<1>4. ASSUME NEW x \in Tx, Commit(x) PROVE [Map!Next]_Map!mapVars
  BY <1>2, <1>4, ShownCommit DEF Map!Next
<1>5. ASSUME NEW x \in Tx, NEW k \in Keys, CreateRecord(x, k) \/ DeleteRecord(x, k)
      PROVE  [Map!Next]_Map!mapVars
  BY <1>2, <1>5, ShownRecord DEF Map!Next
<1>6. CASE Crash
  <2>1. Seen' = Left /\ Left' = Left /\ Mark' = MarkLeft /\ MarkLeft' = MarkLeft
    BY <1>6, CrashStep
  <2>2. now' = kept /\ kept' = kept /\ touched' = [x \in Tx |-> {}]
    BY <1>2, <1>6, <2>1 DEF ShownInv, Crash
  <2>3. Map!Crash
    BY <2>2 DEF Map!Crash
  <2> QED
    BY <1>2, <2>3 DEF Map!Next
<1>7. ASSUME NEW k \in Keys, Hang(k) PROVE [Map!Next]_Map!mapVars
  <2>1. UNCHANGED <<files, strategy, touched>> /\ hung' \in BOOLEAN
    BY <1>7 DEF Hang
  <2>2. /\ Seen' = Seen /\ Left' = Left /\ Mark' = Mark
        /\ MarkLeft' = MarkLeft /\ touched' = touched
    BY <2>1, IdleStep
  <2>3. now' = now /\ kept' = kept
    BY <1>2, <2>2 DEF ShownInv
  <2> QED
    BY <2>2, <2>3 DEF Map!mapVars
<1>8. Next
  BY DEF ViewNext
<1> QED
  BY <1>2, <1>3, <1>4, <1>5, <1>6, <1>7, <1>8 DEF Next

\* Without an index the record layer implements the map: create_type,
\* create_record and delete_record do to what searches answer what they say
\* and nothing else, a commit keeps just the keys the transaction changed,
\* as they are shown, and a crash shows what was kept. Data pages, slots,
\* page numbers, the catalog's entry and its before-images do not show.
THEOREM HeapImplementsMap ==
    ASSUME ReadBack, SlotsApart
    PROVE  ViewSpec /\ HeapScan => ImplementsMap
<1>1. [ViewNext]_<<vars, now, kept>> => [Next]_vars
  BY DEF ViewNext
<1>2. ViewSpec => Spec
  BY <1>1, PTL DEF ViewSpec, Spec, ViewInit
<1>3. ViewInit /\ HeapScan => ShownInv /\ Map!Init
  BY ShownStart
<1>4. ASSUME SlotInv, SlotInv', ShownInv, [ViewNext]_<<vars, now, kept>>
      PROVE  ShownInv' /\ [Map!Next]_Map!mapVars
  <2>1. CASE ViewNext
    BY <1>4, <2>1, ShownStep
  <2>2. CASE UNCHANGED <<vars, now, kept>>
    <3>1. UNCHANGED <<files, strategy, touched>> /\ hung' = hung
          /\ now' = now /\ kept' = kept
      BY <2>2 DEF vars, files
    <3>2. hung' \in BOOLEAN
      BY <1>4, <3>1 DEF SlotInv, BaseInv
    <3>3. /\ Seen' = Seen /\ Left' = Left /\ Mark' = Mark
          /\ MarkLeft' = MarkLeft /\ touched' = touched
      BY <1>4, <3>1, <3>2, IdleStep
    <3> QED
      BY <1>4, <3>1, <3>3 DEF ShownInv, Map!mapVars
  <2> QED
    BY <1>4, <2>1, <2>2
<1> QED
  BY <1>2, <1>3, <1>4, SlotInvariant, PTL DEF ViewSpec, ImplementsMap, Map!Spec
=============================================================================
