------------------------------- MODULE HeapFile -------------------------------
(***************************************************************************)
(* The data pages of one type (heap_scan.py): records in slots, placed on  *)
(* the first page with room and found by scanning.  A record is its        *)
(* primary key; AsStored is what encoding it into a page and back does.    *)
(***************************************************************************)
EXTENDS PagedFiles

CONSTANTS Keys,           \* primary keys the input uses
          AsStored(_),    \* decode(encode(key))
          Heap,           \* the file <type>.bin
          MaxSlots,       \* MAX_SLOTS
          MaxRecords      \* config max_records_per_page

ASSUME HeapConfig ==
    /\ Keys \subseteq Nat \ {0} /\ Heap \in FileIds
    /\ MaxSlots \in 1 .. Width /\ MaxRecords \in Nat

\* Answers of a look-up that are not a location.
NoLoc  == <<-1, -1>>      \* not found
Never  == <<-2, -2>>      \* the loop does not end
Failed == <<-3, -3>>      \* RuntimeError
IsLoc(loc) == loc[1] >= 0

Cap == Max({1, Min({MaxSlots, MaxRecords})})
FirstSlots(img, cap) == 0 .. (cap - 1)                         \* mutant
FreeSlots(img, cap) == {s \in 0 .. (cap - 1) : img[s] = Zero}
FullSlots(img) == {s \in 0 .. (MaxSlots - 1) : img[s] # Zero}

\* insert_into_heap: the store with the record in it, and where.
InsertIntoHeap(st, k) ==
    LET room == {p \in 0 .. (st.size[Heap] - 1) :
                    FreeSlots(st.page[<<Heap, p>>], Cap) # {}}
        p == IF room = {} THEN NewPage(st, Heap) ELSE Min(room)
        old == IF room = {} THEN EmptyPage("data") ELSE st.page[<<Heap, p>>]
        s == Min(FreeSlots(old, Cap))
        base == IF room = {} THEN Allocate(st, Heap) ELSE st
    IN  [st |-> Put(base, Heap, p, [old EXCEPT ![s] = AsStored(k)]),
         loc |-> <<p, s>>]

\* read_record_at: Zero when the slot is free or the page does not exist.
RecordAt(st, loc) ==
    IF Exists(st, Heap, loc[1]) THEN st.page[<<Heap, loc[1]>>][loc[2]] ELSE Zero

\* delete_at
ClearSlot(st, loc) ==
    Put(st, Heap, loc[1], [st.page[<<Heap, loc[1]>>] EXCEPT ![loc[2]] = Zero])

\* All records, and the first with key k in scan order (find_location_by_pk).
Occupied(st) ==
    {loc \in (0 .. (st.size[Heap] - 1)) \X (0 .. (MaxSlots - 1)) :
        RecordAt(st, loc) # Zero}
FindAfterFirst(st, k) ==                                       \* mutant
    LET hits == {loc \in Occupied(st) : loc[1] > 0 /\ RecordAt(st, loc) = k}
    IN  IF hits = {} THEN NoLoc ELSE CHOOSE loc \in hits : TRUE
FindByScan(st, k) ==
    LET hits == {loc \in Occupied(st) : RecordAt(st, loc) = k}
        p    == Min({loc[1] : loc \in hits})
    IN  IF hits = {} THEN NoLoc
        ELSE <<p, Min({loc[2] : loc \in {h \in hits : h[1] = p}})>>

\* range_search over the primary key
ScanRange(st, low, high) ==
    {loc \in Occupied(st) : RecordAt(st, loc) \in low .. high}
=============================================================================
