------------------------------ MODULE HashIndex ------------------------------
(***************************************************************************)
(* The static hash index (hash_index.py): bucket b starts at page b of the *)
(* index file, overflow pages are chained by next_page.                    *)
(***************************************************************************)
EXTENDS HeapFile

CONSTANTS Index,     \* the file <type>_idx.bin
          Buckets    \* config hash_num_buckets

ASSUME HashConfig == Index \in FileIds /\ Buckets \in Nat \ {0}

\* build_empty allocates the bucket pages at the end of the file.
AddBucket(st, i) ==
    Put(Allocate(st, Index), Index, NewPage(st, Index), EmptyPage("bucket"))
BuildBuckets(st) == FoldLeft(AddBucket, st, [i \in 1 .. Buckets |-> i])

\* The page after p in a chain; NullPage once the chain has ended.
NextOf(st, p) ==
    IF Exists(st, Index, p) THEN st.page[<<Index, p>>][NextCell] ELSE NullPage

\* The pages of k's bucket in the order both loops visit them.  n is
\* hash_num_buckets of the catalog.
Chain(st, n, k) ==
    LET c[i \in 0 .. MaxPages] ==
          IF i = 0 THEN k % n ELSE NextOf(st, c[i - 1])
    IN  c
Visited(st, chain) == {i \in 0 .. MaxPages : Exists(st, Index, chain[i])}

\* Slots of a bucket page whose entry has the encoded key k.
EntrySlots(img, k) ==
    {s \in FullSlots(img) : img[s][1] = AsStored(k)}

\* lookup_pointer: the first entry with the key.  A walk that has neither
\* found it nor ended after more steps than the file has pages never ends.
FirstHit(st, n, k) ==
    LET chain == Chain(st, n, k)
        hits  == {i \in Visited(st, chain) :
                     EntrySlots(st.page[<<Index, chain[i]>>], k) # {}}
    IN  IF hits # {} THEN LET p == chain[Min(hits)]
                          IN  <<p, Min(EntrySlots(st.page[<<Index, p>>], k))>>
        ELSE IF Visited(st, chain) = 0 .. MaxPages THEN Never ELSE NoLoc
HashLookup(st, n, k) ==
    LET at == FirstHit(st, n, k)
    IN  IF IsLoc(at)
        THEN <<st.page[<<Index, at[1]>>][at[2]][2],
               st.page[<<Index, at[1]>>][at[2]][3]>>
        ELSE at

HashInsertUnlinked(st, n, k, loc) ==                           \* mutant
    LET chain == Chain(st, n, k)
        entry == <<AsStored(k), loc[1], loc[2]>>
        img(i) == st.page[<<Index, chain[i]>>]
        room  == {i \in Visited(st, chain) : FreeSlots(img(i), MaxSlots) # {}}
        first == Min(room)
    IN  [ok |-> TRUE,
         st |-> IF room # {}
                THEN Put(st, Index, chain[first],
                         [img(first) EXCEPT
                            ![Min(FreeSlots(img(first), MaxSlots))] = entry])
                ELSE Put(Allocate(st, Index), Index, NewPage(st, Index),
                         [EmptyPage("bucket") EXCEPT ![0] = entry])]

\* insert: the first page of the chain with room, else a new overflow page
\* linked to the last.  A link to a page that does not exist raises.
HashInsert(st, n, k, loc) ==
    LET chain == Chain(st, n, k)
        entry == <<AsStored(k), loc[1], loc[2]>>
        img(i) == st.page[<<Index, chain[i]>>]
        room  == {i \in Visited(st, chain) : FreeSlots(img(i), MaxSlots) # {}}
        last  == Max(Visited(st, chain))
        new   == NewPage(st, Index)
        first == Min(room)
    IN  IF room # {}
        THEN [ok |-> TRUE,
              st |-> Put(st, Index, chain[first],
                         [img(first) EXCEPT
                            ![Min(FreeSlots(img(first), MaxSlots))] = entry])]
        ELSE IF Visited(st, chain) = {} \/ img(last)[NextCell] # NullPage
        THEN [ok |-> FALSE, st |-> st]
        ELSE [ok |-> TRUE,
              st |-> Put(Put(Allocate(st, Index), Index, new,
                             [EmptyPage("bucket") EXCEPT ![0] = entry]),
                         Index, chain[last],
                         [img(last) EXCEPT ![NextCell] = new])]

\* delete_key
HashDelete(st, n, k) ==
    LET at == FirstHit(st, n, k)
    IN  Put(st, Index, at[1], [st.page[<<Index, at[1]>>] EXCEPT ![at[2]] = Zero])
=============================================================================
