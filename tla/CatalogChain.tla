----------------------------- MODULE CatalogChain -----------------------------
(***************************************************************************)
(* The system catalog as a chain of slotted pages (catalog.py): type       *)
(* entries are found by walking next_page from page 0, and the chain grows *)
(* at its end when every page is full.  An entry is a name and the         *)
(* statistics that update_type rewrites.                                   *)
(***************************************************************************)
EXTENDS PagedFiles

CONSTANTS Catalog,     \* CATALOG_FILE
          Types,       \* names of types
          Stats,       \* values of the rewritten fields
          PerPage,     \* MAX_TYPES_PER_PAGE
          FirstPages   \* what page 0 is at the start

ASSUME ChainConfig ==
    /\ Catalog \in FileIds /\ PerPage \in 1 .. Width
    /\ FirstPages \subseteq {EmptyPage("catalog"), ZeroPage}
    /\ Zero \notin Types \X Stats

PageOf(st, p) == st.page[<<Catalog, p>>]
Slots == 0 .. (PerPage - 1)

\* _iter_pages: follow next_page until it ends or returns.
Extend(st, s) ==
    LET next == PageOf(st, s[Len(s)])[NextCell]
    IN  IF next = NullPage \/ next \in Range(s) THEN s ELSE Append(s, next)
IterPages(st) ==
    LET walk[i \in 0 .. MaxPages] ==
          IF i = 0 THEN <<0>> ELSE Extend(st, walk[i - 1])
    IN  walk[MaxPages]

\* _scan_for_type: the places of a type's entry, in the order of the walk.
EntriesOf(st, t) ==
    LET walk == IterPages(st)
    IN  {at \in (DOMAIN walk) \X Slots :
            LET entry == PageOf(st, walk[at[1]])[at[2]]
            IN  entry # Zero /\ entry[1] = t}
FirstOf(places) ==
    LET i == Min({p[1] : p \in places})
    IN  <<i, Min({p[2] : p \in {q \in places : q[1] = i}})>>
HasType(st, t) == EntriesOf(st, t) # {}
Get(st, t) ==
    LET at == FirstOf(EntriesOf(st, t))
    IN  PageOf(st, IterPages(st)[at[1]])[at[2]][2]

FreeEntries(st) ==
    LET walk == IterPages(st)
    IN  {at \in (DOMAIN walk) \X Slots : PageOf(st, walk[at[1]])[at[2]] = Zero}

WriteSlot(st, p, s, t, v) ==
    Put(st, Catalog, p, [PageOf(st, p) EXCEPT ![s] = <<t, v>>])
SetNext(st, p, next) ==
    Put(st, Catalog, p, [PageOf(st, p) EXCEPT ![NextCell] = next])

AddedAfterFirst(st, t, v) ==                                   \* mutant
    LET new  == NewPage(st, Catalog)
        page1 == Put(Allocate(st, Catalog), Catalog, new, EmptyPage("catalog"))
    IN  SetNext(WriteSlot(page1, new, 0, t, v), 0, new)

\* add_type on a new page, linked from the last one of the walk.
AddedAtEnd(st, t, v) ==
    LET new  == NewPage(st, Catalog)
        last == IterPages(st)[Len(IterPages(st))]
        page1 == Put(Allocate(st, Catalog), Catalog, new, EmptyPage("catalog"))
    IN  SetNext(WriteSlot(page1, new, 0, t, v), last, new)

Init ==
    /\ \E img \in FirstPages : page = [at \in {<<Catalog, 0>>} |-> img]
    /\ size = [f \in FileIds |-> IF f = Catalog THEN 1 ELSE 0]
    /\ sizes = {size}
    /\ undo = << >>

\* add_type: the first free slot of the walk, else a new page.
AddType(x, t, v) ==
    /\ ~HasType(Current, t)
    /\ LET at == FirstOf(FreeEntries(Current))
       IN  WriteAll(x, IF FreeEntries(Current) = {}
                       THEN AddedAtEnd(Current, t, v)
                       ELSE WriteSlot(Current, IterPages(Current)[at[1]], at[2],
                                      t, v))

UpdateFirst(x, t, v) ==                                        \* mutant
    /\ HasType(Current, t)
    /\ WriteAll(x, WriteSlot(Current, 0, 0, t, v))

\* update_type writes the whole entry where the scan found it.
UpdateType(x, t, v) ==
    LET at == FirstOf(EntriesOf(Current, t))
    IN  /\ HasType(Current, t)
        /\ WriteAll(x, WriteSlot(Current, IterPages(Current)[at[1]], at[2], t, v))

Next ==
    \/ \E x \in Tx, t \in Types, v \in Stats : AddType(x, t, v) \/ UpdateType(x, t, v)
    \/ \E x \in Tx : CommitFiles(x)
    \/ CrashFiles
Spec == Init /\ [][Next]_files

-----------------------------------------------------------------------------
AfterCrash == [Current EXCEPT !.page = Recovered]
Catalogs == {Current, AfterCrash}

\* Every entry in the file, on whatever page, is found by the walk, and a
\* type has one entry: a page that is full, new, zeroed by recovery or
\* points back to page 0 neither hides nor repeats a type.
EntriesReachable ==
    \A st \in Catalogs :
        /\ \A p \in 0 .. (st.size[Catalog] - 1), s \in Slots :
              PageOf(st, p)[s] # Zero => p \in Range(IterPages(st))
        /\ \A t \in Types : Cardinality(EntriesOf(st, t)) <= 1

\* An update reaches the entry of its type and no other.
UpdatesHit ==
    [][\A x \in Tx, t \in Types, v \in Stats : UpdateType(x, t, v) =>
          \E new \in {Current'} :
             /\ Get(new, t) = v
             /\ \A u \in Types \ {t} :
                   /\ HasType(new, u) = HasType(Current, u)
                   /\ HasType(Current, u) => Get(new, u) = Get(Current, u)]_files
=============================================================================
