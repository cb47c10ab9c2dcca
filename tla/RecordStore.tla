----------------------------- MODULE RecordStore -----------------------------
(***************************************************************************)
(* FileIndexManager on one type: create_type, create_record, delete_record *)
(* over the heap and the configured index, with the type's catalog entry,  *)
(* as operations of transactions that commit or are lost in a crash.       *)
(***************************************************************************)
EXTENDS BPlusTree

CONSTANTS Strategies,  \* values of config index_strategy
          Catalog,     \* the file __catalog__.bin
          Relation,    \* the type, among the things transactions change
          MaxBatch,    \* bound: the things one transaction changes
          Deletes,     \* the keys whose records the workload deletes
          Interleaved  \* strategy and key: touched while others are open

ASSUME StoreConfig ==
    /\ Strategies \subseteq {"heap_scan", "hash_index", "bplus_tree"}
    /\ Interleaved \subseteq Strategies \X Keys /\ MaxBatch \in Nat \ {0}
    /\ Catalog \in FileIds \ {Heap} /\ Relation \notin Keys /\ Deletes \subseteq Keys
    /\ Width >= 5

VARIABLES strategy,  \* index_strategy of this directory's config
          touched,   \* open transaction -> keys, Relation: what it changed
          hung       \* the thread is in a loop that does not end
vars == <<page, size, sizes, undo, strategy, touched, hung>>

\* The type's entry in the first catalog page, one cell per stored field.
TypeName == 0
NumDataPages == 1
NumRecords == 2
RootPage == 3
NumBuckets == 4
EntryOf(st) == st.page[<<Catalog, 0>>]
HasType(st) == EntryOf(st)[TypeName] # Zero
Root(st)    == EntryOf(st)[RootPage]
BucketsOf(st) == EntryOf(st)[NumBuckets]

\* add_type, update_type: all fields at once.
WriteEntry(st, pages, records, root, buckets) ==
    Put(st, Catalog, 0,
        [EntryOf(st) EXCEPT
           ![TypeName] = 1, ![NumDataPages] = pages, ![NumRecords] = records,
           ![RootPage] = root, ![NumBuckets] = buckets])

Init ==
    /\ page = [at \in {<<Catalog, 0>>} |-> EmptyPage("catalog")]
    /\ size = [f \in FileIds |-> IF f = Catalog THEN 1 ELSE 0]
    /\ sizes = {size}
    /\ undo = << >>
    /\ strategy \in Strategies
    /\ touched = [x \in Tx |-> {}]
    /\ hung = FALSE

\* The workload: open transactions stay off each other's keys and type, and
\* Interleaved says what one may do while another has changed something.
Undisputed(x, things) ==
    \A y \in Tx \ {x} : touched[y] # {} =>
        /\ touched[y] \cap things = {}
        /\ {strategy} \X (things \ {Relation}) \subseteq Interleaved
Touch(x, thing) ==
    LET changed == touched[x] \cup {thing}
    IN  /\ Cardinality(changed) <= MaxBatch
        /\ touched' = [touched EXCEPT ![x] = changed]

\* _lookup_pointer: location of a key through the active strategy.
Lookup(st, k) ==
    CASE strategy = "heap_scan"  -> FindByScan(st, k)
      [] strategy = "hash_index" -> HashLookup(st, BucketsOf(st), k)
      [] strategy = "bplus_tree" -> TreeLookup(st, Root(st), k)

-----------------------------------------------------------------------------
CreateType(x) ==
    /\ ~hung
    /\ ~HasType(Current)
    /\ Undisputed(x, Keys \cup {Relation})
    /\ WriteAll(x,
         CASE strategy = "heap_scan" -> WriteEntry(Current, 0, 0, NullPage, 0)
           [] strategy = "hash_index" ->
                WriteEntry(BuildBuckets(Current), 0, 0, NullPage, Buckets)
           [] strategy = "bplus_tree" ->
                WriteEntry(BuildTree(Current), 0, 0, NewPage(Current, Index), 0))
    /\ Touch(x, Relation)
    /\ UNCHANGED <<strategy, hung>>

\* create_record after its look-up found no record: the heap, the index, the
\* entry.  An index that raises leaves the record in the heap.
Inserted(k) ==
    LET heap == InsertIntoHeap(Current, k)
        hash == HashInsert(heap.st, BucketsOf(Current), k, heap.loc)
        tree == TreeInsert(heap.st, Root(Current), k, heap.loc)
        entry(st, root) ==
            WriteEntry(st, Max({EntryOf(st)[NumDataPages], st.size[Heap]}),
                       EntryOf(st)[NumRecords] + 1, root, BucketsOf(st))
    IN  CASE strategy = "heap_scan" -> entry(heap.st, Root(Current))
          [] strategy = "hash_index" /\ hash.ok -> entry(hash.st, Root(Current))
          [] strategy = "hash_index" /\ ~hash.ok -> heap.st
          [] strategy = "bplus_tree" -> entry(tree.st, tree.root)
CreateRecord(x, k) ==
    /\ ~hung
    /\ HasType(Current)
    /\ Undisputed(x, {k, Relation})
    /\ Lookup(Current, k) = NoLoc
    /\ WriteAll(x, Inserted(k))
    /\ Touch(x, k)
    /\ UNCHANGED <<strategy, hung>>

DeletedUncounted(k, loc) ==                                    \* mutant
    ClearSlot(CASE strategy = "heap_scan" -> Current
                [] strategy = "hash_index" ->
                     HashDelete(Current, BucketsOf(Current), k)
                [] strategy = "bplus_tree" ->
                     TreeDelete(Current, Root(Current), k), loc)

\* delete_record: the index entry, the heap slot, the entry.  A slot that is
\* free already ends the operation after the index.
Deleted(k, loc) ==
    LET index == CASE strategy = "heap_scan" -> Current
                   [] strategy = "hash_index" ->
                        HashDelete(Current, BucketsOf(Current), k)
                   [] strategy = "bplus_tree" ->
                        TreeDelete(Current, Root(Current), k)
        records == Max({0, EntryOf(Current)[NumRecords] - 1})
    IN  IF RecordAt(index, loc) = Zero THEN index
        ELSE WriteEntry(ClearSlot(index, loc), EntryOf(index)[NumDataPages],
                        records, Root(index), BucketsOf(index))
DeleteRecord(x, k) ==
    /\ ~hung
    /\ k \in Deletes
    /\ HasType(Current)
    /\ Undisputed(x, {k, Relation})
    /\ LET loc == Lookup(Current, k)
       IN  IsLoc(loc) /\ WriteAll(x, Deleted(k, loc))
    /\ Touch(x, k)
    /\ UNCHANGED <<strategy, hung>>

\* Every record command starts with the look-up, which may not come back.
Hang(k) ==
    /\ ~hung
    /\ HasType(Current)
    /\ Lookup(Current, k) = Never
    /\ hung' = TRUE
    /\ UNCHANGED <<files, strategy, touched>>

Commit(x) ==
    /\ ~hung
    /\ touched[x] # {}
    /\ CommitFiles(x)
    /\ touched' = [touched EXCEPT ![x] = {}]
    /\ UNCHANGED <<strategy, hung>>

Crash ==
    /\ CrashFiles
    /\ touched' = [x \in Tx |-> {}]
    /\ hung' = FALSE
    /\ UNCHANGED strategy

Next ==
    \/ \E x \in Tx : CreateType(x) \/ Commit(x)
    \/ \E x \in Tx, k \in Keys : CreateRecord(x, k) \/ DeleteRecord(x, k)
    \/ \E k \in Keys : Hang(k)
    \/ Crash
Spec == Init /\ [][Next]_vars

-----------------------------------------------------------------------------
(* Properties *)

\* The store now, and the one the next crash would leave.
AfterCrash == [Current EXCEPT !.page = Recovered]
Stores == {Current, AfterCrash}

\* search_record answers a record with the key it was asked for.
Answers(st, k) ==
    LET loc == Lookup(st, k)
    IN  IsLoc(loc) /\ RecordAt(st, loc) = AsStored(k)
Served(st) == IF HasType(st) THEN {Relation} \cup {k \in Keys : Answers(st, k)}
              ELSE {}

\* The cells hold what belongs there; pages beyond the count are blank.
TypeOK ==
    /\ \A f \in FileIds : size[f] \in 0 .. MaxPages
    /\ size \in sizes
    /\ DOMAIN page = {at \in FileIds \X PageIds : at[2] < size[at[1]]}
    /\ DOMAIN undo \subseteq DOMAIN page
    /\ \A at \in DOMAIN undo : DOMAIN undo[at] \in (SUBSET Cells) \ {{}}
    /\ touched \in [Tx -> SUBSET (Keys \cup {Relation})]
    /\ strategy \in Strategies /\ hung \in BOOLEAN

\* One record per primary key: create_record refuses duplicates, and no
\* split, reuse of a slot or recovery brings a record back twice.
KeysUnique ==
    \A st \in Stores : \A l, m \in Occupied(st) :
        RecordAt(st, l) = RecordAt(st, m) => l = m

\* Index and heap agree, now and after a crash: the index knows every record
\* of the heap, at its place, and nothing else.
IndexMatchesHeap ==
    \A st \in Stores : HasType(st) =>
        /\ \A loc \in Occupied(st) : Lookup(st, RecordAt(st, loc)) = loc
        /\ \A k \in Keys : IsLoc(Lookup(st, k)) => RecordAt(st, Lookup(st, k)) = k

\* num_records of the catalog counts the heap's records, now and after a
\* crash, although the two are written to different pages.
CountMatchesHeap ==
    \A st \in Stores : HasType(st) =>
        EntryOf(st)[NumRecords] = Cardinality(Occupied(st))

\* A range search over the leaf list returns the records that a scan of the
\* heap finds in the range, in key order: no split loses or repeats one.
RangeIsExact ==
    strategy = "bplus_tree" =>
    \A st \in Stores : HasType(st) =>
    \A low \in Keys : \A high \in {k \in Keys : k >= low} :
        LET found == TreeRange(st, Root(st), low, high)
        IN  /\ Range(found) = ScanRange(st, low, high)
            /\ \A i, j \in DOMAIN found :
                  i < j => RecordAt(st, found[i]) < RecordAt(st, found[j])
=============================================================================
