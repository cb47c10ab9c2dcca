------------------------------ MODULE PagedFiles ------------------------------
(***************************************************************************)
(* The files as the record layer sees them, through the buffer pool and on *)
(* top of an engine that keeps its promise: a restart keeps what committed *)
(* transactions wrote and puts the before-image of every other change back *)
(* where the bytes differ.  A command is one step: what a crash inside it  *)
(* leaves is what a crash right after it leaves, except for the number of  *)
(* pages of a file, for which sizes remembers every intermediate value.    *)
(***************************************************************************)
EXTENDS Integers, Sequences, FiniteSets, SequencesExt

CONSTANTS FileIds,    \* the files of the record layer
          MaxPages,   \* bound: pages of a file
          Width,      \* slots or entries that fit into a page
          Tx,         \* transactions that may be open at once
          Zero        \* what zero bytes in a slot or entry mean

ASSUME FilesConfig ==
    MaxPages \in Nat \ {0} /\ Width \in Nat \ {0} /\ Zero \notin Int

VARIABLES page,    \* <<file, page id>> of a page -> its cells, as in the pool
          size,    \* file -> num_pages
          sizes,   \* the values size has had since the log was last forced
          undo     \* page -> cell -> the before-images of the open
                   \* transactions that changed it, oldest first

files == <<page, size, sizes, undo>>

NullPage  == -1
KindCell  == -4      \* page_type
NextCell  == -3      \* next_page
CountCell == -2      \* record_count, which only the B+ tree reads
FirstCell == -1      \* c_0 of an internal node
Cells     == -4 .. (Width - 1)
PageIds   == 0 .. (MaxPages - 1)

\* A page nobody wrote, and empty_page.
ZeroPage == [c \in Cells |-> IF c = KindCell THEN "zero"
                             ELSE IF c \in NextCell .. FirstCell THEN 0
                             ELSE Zero]
EmptyPage(kind) == [ZeroPage EXCEPT ![KindCell] = kind, ![NextCell] = NullPage]

\* g, with f where f has a value.
Over(f, g) ==
    [a \in DOMAIN f \cup DOMAIN g |-> IF a \in DOMAIN f THEN f[a] ELSE g[a]]

\* A command computes a store from the current one: pages, sizes, and the
\* sizes on the way.
Current == [page |-> page, size |-> size, seen |-> {}]
Exists(st, f, p) == p >= 0 /\ p < st.size[f]
Put(st, f, p, img) == [st EXCEPT !.page[<<f, p>>] = img]

\* allocate_page returns NewPage(st, f) and raises the count.
NewPage(st, f) == st.size[f]
AllocateUncounted(st, f) ==                                    \* mutant
    [page |-> Over([at \in {<<f, st.size[f]>>} |-> ZeroPage], st.page),
     size |-> st.size, seen |-> st.seen]
Allocate(st, f) ==
    LET larger == [st.size EXCEPT ![f] = st.size[f] + 1]
    IN  [page |-> Over([at \in {<<f, st.size[f]>>} |-> ZeroPage], st.page),
         size |-> larger, seen |-> st.seen \cup {larger}]

-----------------------------------------------------------------------------
\* The before-images saved for a cell.
Saved(at, c) ==
    IF at \in DOMAIN undo THEN IF c \in DOMAIN undo[at] THEN undo[at][c]
                               ELSE << >>
    ELSE << >>
SavedBy(x, at, c) == \E i \in DOMAIN Saved(at, c) : Saved(at, c)[i].tx = x

\* The cells that a new image changes, and their before-images with those
\* that x saves for it: the first one of a cell is what undo ends with.
Before(at) == IF at \in DOMAIN page THEN page[at] ELSE ZeroPage
Rewritten(at, img) == {c \in Cells : Before(at)[c] # img[c]}
Resaved(x, at, img) ==
    Over([c \in Rewritten(at, img) |->
            IF SavedBy(x, at, c) THEN Saved(at, c)
            ELSE Append(Saved(at, c), [tx |-> x, was |-> Before(at)[c]])],
         IF at \in DOMAIN undo THEN undo[at] ELSE << >>)

\* The writes of a command of transaction x, logged one by one.
WriteAll(x, st) ==
    LET written == {at \in DOMAIN st.page : Rewritten(at, st.page[at]) # {}}
    IN  /\ \A f \in FileIds : st.size[f] <= MaxPages
        /\ page' = st.page
        /\ size' = st.size
        /\ sizes' = sizes \cup st.seen
        /\ undo' = Over([at \in written |-> Resaved(x, at, st.page[at])], undo)

\* The before-images of a cell without x's own, of which there is one at most.
Without(x, saved) ==
    LET own == {i \in DOMAIN saved : saved[i].tx = x}
    IN  IF own = {} THEN saved ELSE RemoveAt(saved, Min(own))

CommitFilesOfAll(x) ==                                         \* mutant
    undo' = << >> /\ sizes' = {size} /\ UNCHANGED <<page, size>>
\* commit forces the whole log; x will not be undone any more.
CommitFiles(x) ==
    LET open(at) == {c \in DOMAIN undo[at] : Without(x, undo[at][c]) # << >>}
    IN  /\ undo' = [at \in {a \in DOMAIN undo : open(a) # {}} |->
                      [c \in open(at) |-> Without(x, undo[at][c])]]
        /\ sizes' = {size}
        /\ UNCHANGED <<page, size>>

\* What a restart finds: every open transaction is undone, latest first.
Recovered ==
    [at \in DOMAIN page |->
       [c \in Cells |-> IF Saved(at, c) = << >> THEN page[at][c]
                        ELSE Head(Saved(at, c)).was]]

\* A crash and the restart after it.  Pages beyond the committed ones that
\* redo wrote and undo took back stay in their file, zeroed.
CrashFiles ==
    \E found \in sizes :
        /\ size' = found
        /\ sizes' = {found}
        /\ undo' = << >>
        /\ page' = [at \in {a \in DOMAIN page : a[2] < found[a[1]]} |->
                      Recovered[at]]
=============================================================================
