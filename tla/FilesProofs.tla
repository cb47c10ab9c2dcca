----------------------------- MODULE FilesProofs -----------------------------
(***************************************************************************)
(* What the record layer may rely on, for every instance of PagedFiles and *)
(* whatever its pages hold: a command, a commit and a crash keep FilesInv, *)
(* and a command changes nothing of what a crash right after it leaves     *)
(* except for pages that are added, which come back as zeroes.             *)
(***************************************************************************)
EXTENDS PagedFiles, SequenceTheorems, WellFoundedInduction, TLAPS

-----------------------------------------------------------------------------
(* Smallest elements *)

LEMMA MinIn ==
    ASSUME NEW S \in SUBSET Nat, S # {}
    PROVE  Min(S) \in S /\ \A i \in S : Min(S) <= i
<1>1. S \subseteq Nat
  OBVIOUS
<1>2. PICK m \in S : \A i \in S : ~(<<i, m>> \in OpToRel(<, Nat))
  BY <1>1, WFMin, NatLessThanWellFounded
<1>3. \A i \in S : ~(i < m)
  BY <1>1, <1>2, Zenon DEF OpToRel
<1>4. \A i \in S : m <= i
  BY <1>1, <1>3
<1> QED
  BY <1>4 DEF Min

-----------------------------------------------------------------------------
(* Stores *)

\* The pages of files of sizes sz, their images with contents V, and the
\* before-images that are saved for them.
Places(sz) == {at \in FileIds \X Nat : at[2] < sz[at[1]]}
Sizes      == [FileIds -> Nat]
Images(V)  == [Cells -> V]
Entries(V) == [tx : Tx, was : V]

\* A transaction saves one before-image of a cell.
SavedOK(V, saved) ==
    /\ saved \in Seq(Entries(V)) /\ saved # << >>
    /\ \A i, j \in DOMAIN saved : saved[i].tx = saved[j].tx => i = j
UndoIn(V, P, un) ==
    \A at \in DOMAIN un :
        /\ at \in P /\ DOMAIN un[at] \in (SUBSET Cells) \ {{}}
        /\ \A c \in DOMAIN un[at] : SavedOK(V, un[at][c])

\* A store that a command may reach from the current one.
Legal(V, st) ==
    /\ st = [page |-> st.page, size |-> st.size, seen |-> st.seen]
    /\ size \in Sizes /\ st.size \in Sizes
    /\ st.page \in [Places(st.size) -> Images(V)]
    /\ st.seen \subseteq Sizes
    /\ \A f \in FileIds : size[f] <= st.size[f]
    /\ \A z \in st.seen, f \in FileIds :
          size[f] <= z[f] /\ z[f] <= st.size[f]
    /\ st.size # size => st.size \in st.seen

\* Pages are images, what is saved is saved for pages that exist, and pages
\* that a crash may leave behind come back as zeroes.
FilesInv(V) ==
    /\ size \in Sizes /\ sizes \subseteq Sizes /\ size \in sizes
    /\ \A z \in sizes, f \in FileIds :
          z[f] <= size[f] /\ size[f] <= MaxPages
    /\ page \in [Places(size) -> Images(V)]
    /\ UndoIn(V, Places(size), undo)
    /\ \A z \in sizes, at \in Places(size) :
          at[2] >= z[at[1]] => Recovered[at] = ZeroPage

LEMMA LegalCurrent ==
    ASSUME NEW V, FilesInv(V)
    PROVE  /\ Legal(V, Current) /\ Current.page = page /\ Current.size = size
           /\ Current.seen = {}
  BY DEF FilesInv, Legal, Current, Sizes

LEMMA LegalPut ==
    ASSUME NEW V, NEW st, Legal(V, st), NEW f \in FileIds, NEW p \in Nat,
           p < st.size[f], NEW img \in Images(V)
    PROVE  /\ Legal(V, Put(st, f, p, img))
           /\ Put(st, f, p, img).size = st.size
           /\ Put(st, f, p, img).seen = st.seen
           /\ Put(st, f, p, img).page[<<f, p>>] = img
           /\ \A at \in Places(st.size) :
                 at # <<f, p>> => Put(st, f, p, img).page[at] = st.page[at]
<1> DEFINE pg == [st.page EXCEPT ![<<f, p>>] = img]
           new == Put(st, f, p, img)
<1>1. /\ new = [page |-> pg, size |-> st.size, seen |-> st.seen]
      /\ new.page = pg /\ new.size = st.size /\ new.seen = st.seen
  BY DEF Put, Legal
<1>2. /\ DOMAIN st.page = Places(st.size) /\ <<f, p>> \in Places(st.size)
      /\ \A at \in Places(st.size) : st.page[at] \in Images(V)
  BY DEF Places, Legal, Sizes
<1>3. DOMAIN pg = Places(st.size)
  BY <1>2
<1>4. /\ pg[<<f, p>>] = img
      /\ \A at \in Places(st.size) : at # <<f, p>> => pg[at] = st.page[at]
  BY <1>2
<1>5. pg \in [Places(st.size) -> Images(V)]
  <2>1. \A at \in Places(st.size) : pg[at] \in Images(V)
    BY <1>2, <1>4
  <2>2. pg = [at \in Places(st.size) |-> pg[at]]
    BY <1>2
  <2> QED
    BY <2>1, <2>2
<1> HIDE DEF pg, new
<1>6. Legal(V, new)
  BY <1>1, <1>5 DEF Legal
<1> QED
  BY <1>1, <1>4, <1>6 DEF new

LEMMA LegalAllocate ==
    ASSUME NEW V, ZeroPage \in Images(V), NEW st, Legal(V, st),
           NEW f \in FileIds, NEW a, a = Allocate(st, f)
    PROVE  /\ Legal(V, a)
           /\ a.size = [st.size EXCEPT ![f] = st.size[f] + 1]
           /\ a.seen = st.seen \cup {a.size}
           /\ Places(a.size) = Places(st.size) \cup {<<f, st.size[f]>>}
           /\ <<f, st.size[f]>> \notin Places(st.size)
           /\ a.page[<<f, st.size[f]>>] = ZeroPage
           /\ \A at \in Places(st.size) : a.page[at] = st.page[at]
<1> DEFINE at0 == <<f, st.size[f]>>
           pg == Over([at \in {at0} |-> ZeroPage], st.page)
           sz == [st.size EXCEPT ![f] = st.size[f] + 1]
<1>1. /\ a = [page |-> pg, size |-> sz, seen |-> st.seen \cup {sz}]
      /\ a.page = pg /\ a.size = sz /\ a.seen = st.seen \cup {sz}
  BY DEF Allocate
<1>2. /\ st.size[f] \in Nat /\ sz \in Sizes /\ sz[f] = st.size[f] + 1
      /\ \A g \in FileIds : g # f => sz[g] = st.size[g]
      /\ \A g \in FileIds : st.size[g] \in Nat /\ sz[g] \in Nat
  BY DEF Legal, Sizes
<1>3. /\ Places(sz) = Places(st.size) \cup {at0} /\ at0 \notin Places(st.size)
  BY <1>2 DEF Places
<1>4. /\ DOMAIN st.page = Places(st.size)
      /\ \A at \in Places(st.size) : st.page[at] \in Images(V)
  BY DEF Legal
<1>5. /\ DOMAIN pg = Places(sz) /\ pg[at0] = ZeroPage
      /\ \A at \in Places(st.size) : pg[at] = st.page[at]
  BY <1>3, <1>4 DEF Over
<1>6. pg \in [Places(sz) -> Images(V)]
  <2>1. \A at \in Places(sz) : pg[at] \in Images(V)
    BY <1>3, <1>4, <1>5
  <2>2. pg = [at \in Places(sz) |-> pg[at]]
    BY <1>3, <1>4 DEF Over
  <2> QED
    BY <2>1, <2>2
<1> HIDE DEF pg, sz
<1>7. Legal(V, a)
  <2>1. \A g \in FileIds : size[g] <= sz[g] /\ st.size[g] <= sz[g]
    <3> SUFFICES ASSUME NEW g \in FileIds
                 PROVE  size[g] <= sz[g] /\ st.size[g] <= sz[g]
      OBVIOUS
    <3>1. /\ size[g] <= st.size[g] /\ sz[g] \in {st.size[g], st.size[g] + 1}
          /\ size[g] \in Nat /\ st.size[g] \in Nat
      BY <1>2 DEF Legal, Sizes
    <3> QED
      BY <3>1
  <2>2. \A z \in a.seen, g \in FileIds : size[g] <= z[g] /\ z[g] <= sz[g]
    BY <1>1, <1>2, <2>1 DEF Legal, Sizes
  <2> QED
    BY <1>1, <1>2, <1>6, <2>1, <2>2 DEF Legal
<1> QED
  BY <1>1, <1>3, <1>5, <1>7 DEF sz

-----------------------------------------------------------------------------
(* What a crash leaves *)

SavedIn(un, at, c) ==
    IF at \in DOMAIN un THEN IF c \in DOMAIN un[at] THEN un[at][c] ELSE << >>
    ELSE << >>
RecoveredOf(pg, un) ==
    [at \in DOMAIN pg |->
       [c \in Cells |-> IF SavedIn(un, at, c) = << >> THEN pg[at][c]
                        ELSE Head(SavedIn(un, at, c)).was]]
KeptIn(pg, un, at, c) ==
    IF at \in DOMAIN un /\ c \in DOMAIN un[at] THEN un[at][c][1].was
    ELSE pg[at][c]

LEMMA RecoveredIs ==
    /\ Recovered = RecoveredOf(page, undo)
    /\ Recovered' = RecoveredOf(page', undo')
  BY DEF Recovered, RecoveredOf, Saved, SavedIn

\* Of the before-images the first one counts.
LEMMA RecoveredParts ==
    ASSUME NEW V, NEW P, NEW pg \in [P -> Images(V)], NEW un, UndoIn(V, P, un)
    PROVE  /\ RecoveredOf(pg, un) \in [P -> Images(V)]
           /\ \A at \in P, c \in Cells :
                 RecoveredOf(pg, un)[at][c] = KeptIn(pg, un, at, c)
<1>1. DOMAIN un \subseteq P /\ DOMAIN pg = P
  BY DEF UndoIn
<1>2. ASSUME NEW at \in P, NEW c \in Cells
      PROVE  /\ RecoveredOf(pg, un)[at][c] = KeptIn(pg, un, at, c)
             /\ KeptIn(pg, un, at, c) \in V
  <2>1. RecoveredOf(pg, un)[at][c]
          = IF SavedIn(un, at, c) = << >> THEN pg[at][c]
            ELSE Head(SavedIn(un, at, c)).was
    BY <1>1 DEF RecoveredOf
  <2>2. CASE at \in DOMAIN un /\ c \in DOMAIN un[at]
    <3>1. un[at][c] \in Seq(Entries(V)) /\ un[at][c] # << >>
      BY <2>2 DEF UndoIn, SavedOK
    <3>2. un[at][c][1] \in Entries(V) /\ Head(un[at][c]) = un[at][c][1]
      BY <3>1
    <3>3. SavedIn(un, at, c) = un[at][c]
      BY <2>2 DEF SavedIn
    <3>4. KeptIn(pg, un, at, c) = un[at][c][1].was
      BY <2>2 DEF KeptIn
    <3>5. un[at][c][1].was \in V
      BY <3>2 DEF Entries
    <3> QED
      BY <2>1, <3>1, <3>2, <3>3, <3>4, <3>5
  <2>3. CASE ~(at \in DOMAIN un /\ c \in DOMAIN un[at])
    <3>1. SavedIn(un, at, c) = << >> /\ KeptIn(pg, un, at, c) = pg[at][c]
      BY <2>3 DEF SavedIn, KeptIn
    <3>2. pg[at][c] \in V
      BY <1>1 DEF Images
    <3> QED
      BY <2>1, <3>1, <3>2
  <2> QED
    BY <2>2, <2>3
<1>3. ASSUME NEW at \in P PROVE RecoveredOf(pg, un)[at] \in Images(V)
  <2>1. RecoveredOf(pg, un)[at] = [c \in Cells |-> RecoveredOf(pg, un)[at][c]]
    BY <1>1 DEF RecoveredOf
  <2> QED
    BY <1>2, <2>1 DEF Images
<1>4. RecoveredOf(pg, un) = [at \in P |-> RecoveredOf(pg, un)[at]]
  BY <1>1 DEF RecoveredOf
<1> QED
  BY <1>2, <1>3, <1>4

\* Images are equal if their cells are.
LEMMA SameImage ==
    ASSUME NEW V, NEW a \in Images(V), NEW b \in Images(V),
           \A c \in Cells : a[c] = b[c]
    PROVE  a = b
  BY DEF Images

LEMMA NothingSaved ==
    ASSUME NEW V, NEW P, NEW pg \in [P -> Images(V)], NEW un, DOMAIN un = {}
    PROVE  RecoveredOf(pg, un) = pg
<1>1. UndoIn(V, P, un)
  BY DEF UndoIn
<1>2. RecoveredOf(pg, un) \in [P -> Images(V)]
  BY <1>1, RecoveredParts
<1>3. ASSUME NEW at \in P PROVE RecoveredOf(pg, un)[at] = pg[at]
  <2>1. \A c \in Cells : RecoveredOf(pg, un)[at][c] = pg[at][c]
    BY <1>1, RecoveredParts DEF KeptIn
  <2> QED
    BY <1>2, <2>1, SameImage
<1> QED
  BY <1>2, <1>3

LEMMA FilesRecovered ==
    ASSUME NEW V, FilesInv(V)
    PROVE  /\ Recovered \in [Places(size) -> Images(V)]
           /\ \A at \in Places(size), c \in Cells :
                 Recovered[at][c] = KeptIn(page, undo, at, c)
  BY RecoveredIs, RecoveredParts DEF FilesInv

-----------------------------------------------------------------------------
(* The steps *)

\* What WriteAll saves for a page starts with what was saved before, or with
\* the image from before.
LEMMA ResavedOK ==
    ASSUME NEW V, ZeroPage \in Images(V), FilesInv(V), NEW x \in Tx, NEW at,
           NEW img \in Images(V), NEW new, new = Resaved(x, at, img)
    PROVE  /\ DOMAIN new \in SUBSET Cells
           /\ Rewritten(at, img) \subseteq DOMAIN new
           /\ \A c \in DOMAIN new :
                 /\ SavedOK(V, new[c])
                 /\ Saved(at, c) = << >> =>
                       c \in Rewritten(at, img) /\ new[c][1].was = Before(at)[c]
                 /\ Saved(at, c) # << >> => new[c][1] = Saved(at, c)[1]
<1> DEFINE old == IF at \in DOMAIN undo THEN undo[at] ELSE << >>
           mine == [c \in Rewritten(at, img) |->
                      IF SavedBy(x, at, c) THEN Saved(at, c)
                      ELSE Append(Saved(at, c),
                                  [tx |-> x, was |-> Before(at)[c]])]
<1>1. new = Over(mine, old)
  BY DEF Resaved
<1>2. Before(at) \in Images(V)
  BY DEF Before, FilesInv
<1>3. /\ DOMAIN old \subseteq Cells
      /\ \A c \in DOMAIN old : old[c] = Saved(at, c) /\ SavedOK(V, old[c])
      /\ \A c : c \notin DOMAIN old => Saved(at, c) = << >>
  <2>1. CASE at \in DOMAIN undo
    BY <2>1 DEF FilesInv, UndoIn, Saved
  <2>2. CASE at \notin DOMAIN undo
    BY <2>2 DEF Saved
  <2> QED
    BY <2>1, <2>2
<1>4. DOMAIN mine = Rewritten(at, img) /\ Rewritten(at, img) \subseteq Cells
  BY DEF Rewritten
<1>5. DOMAIN new = Rewritten(at, img) \cup DOMAIN old
  BY <1>1, <1>4 DEF Over
<1>6. ASSUME NEW c \in Rewritten(at, img)
      PROVE  /\ SavedOK(V, mine[c])
             /\ Saved(at, c) = << >> => mine[c][1].was = Before(at)[c]
             /\ Saved(at, c) # << >> => mine[c][1] = Saved(at, c)[1]
  <2> DEFINE s == Saved(at, c)
             e == [tx |-> x, was |-> Before(at)[c]]
  <2>1. s \in Seq(Entries(V))
        /\ \A i, j \in DOMAIN s : s[i].tx = s[j].tx => i = j
    <3>1. CASE c \in DOMAIN old
      BY <1>3, <3>1 DEF SavedOK
    <3>2. CASE c \notin DOMAIN old
      <4>1. s = << >>
        BY <1>3, <3>2
      <4> HIDE DEF s
      <4> QED
        BY <4>1
    <3> QED
      BY <3>1, <3>2
  <2>2. e \in Entries(V)
    BY <1>2, <1>4 DEF Entries, Images
  <2>3. CASE SavedBy(x, at, c)
    <3>1. s # << >>
      BY <2>3 DEF SavedBy
    <3> QED
      BY <2>1, <2>3, <3>1 DEF SavedOK
  <2>4. CASE ~SavedBy(x, at, c)
    <3> DEFINE t == Append(s, e)
    <3>1. mine[c] = t
      BY <2>4
    <3>2. /\ t \in Seq(Entries(V)) /\ Len(t) = Len(s) + 1
          /\ \A i \in DOMAIN s : t[i] = s[i]
          /\ t[Len(s) + 1] = e /\ Len(s) \in Nat /\ t # << >>
      BY <2>1, <2>2
    <3>3. \A i \in DOMAIN s : s[i].tx # x
      BY <2>4 DEF SavedBy
    <3>4. e.tx = x /\ e.was = Before(at)[c]
      OBVIOUS
    <3>5. DOMAIN s = 1 .. Len(s) /\ DOMAIN t = 1 .. (Len(s) + 1)
      BY <2>1, <3>2
    <3> HIDE DEF t, e, s
    <3>6. \A i, j \in DOMAIN t : t[i].tx = t[j].tx => i = j
      BY <2>1, <3>2, <3>3, <3>4, <3>5
    <3>7. s = << >> => t[1] = e
      BY <3>2, <3>5
    <3>8. s # << >> => t[1] = s[1]
      BY <2>1, <3>2, <3>5
    <3> QED
      BY <3>1, <3>2, <3>4, <3>6, <3>7, <3>8 DEF SavedOK, s
  <2> QED
    BY <2>3, <2>4
<1>7. ASSUME NEW c \in DOMAIN new
      PROVE  /\ SavedOK(V, new[c])
             /\ Saved(at, c) = << >> =>
                   c \in Rewritten(at, img) /\ new[c][1].was = Before(at)[c]
             /\ Saved(at, c) # << >> => new[c][1] = Saved(at, c)[1]
  <2>1. CASE c \in Rewritten(at, img)
    <3>1. new[c] = mine[c]
      BY <1>1, <1>4, <2>1 DEF Over
    <3> QED
      BY <1>6, <2>1, <3>1
  <2>2. CASE c \notin Rewritten(at, img)
    <3>1. c \in DOMAIN old /\ new[c] = old[c]
      BY <1>1, <1>4, <1>5, <2>2 DEF Over
    <3>2. Saved(at, c) # << >>
      BY <1>3, <3>1 DEF SavedOK
    <3> QED
      BY <1>3, <3>1, <3>2
  <2> QED
    BY <2>1, <2>2
<1> QED
  BY <1>3, <1>4, <1>5, <1>7

\* A command keeps the files in order, changes nothing of what a crash right
\* after it leaves of the pages there were, and adds pages of zeroes to it.
LEMMA WriteAllFiles ==
    ASSUME NEW V, ZeroPage \in Images(V), FilesInv(V), NEW x \in Tx, NEW st,
           Legal(V, st), WriteAll(x, st)
    PROVE  /\ FilesInv(V)'
           /\ page' = st.page /\ size' = st.size /\ sizes' = sizes \cup st.seen
           /\ Places(size) \subseteq Places(size')
           /\ \A at \in Places(size) : Recovered'[at] = Recovered[at]
           /\ \A at \in Places(size') :
                 at \notin Places(size) => Recovered'[at] = ZeroPage
<1> DEFINE written == {at \in DOMAIN st.page : Rewritten(at, st.page[at]) # {}}
           re == [at \in written |-> Resaved(x, at, st.page[at])]
<1>1. /\ page' = st.page /\ size' = st.size /\ sizes' = sizes \cup st.seen
      /\ \A f \in FileIds : st.size[f] <= MaxPages
      /\ undo' = Over(re, undo)
  BY DEF WriteAll
<1>2. /\ size \in Sizes /\ size' \in Sizes
      /\ \A f \in FileIds : size[f] <= size'[f]
      /\ page' \in [Places(size') -> Images(V)]
      /\ DOMAIN page' = Places(size') /\ DOMAIN st.page = Places(size')
  BY <1>1 DEF Legal
<1>3. Places(size) \subseteq Places(size')
  <2> SUFFICES ASSUME NEW at \in Places(size) PROVE at \in Places(size')
    OBVIOUS
  <2>1. /\ at \in FileIds \X Nat /\ at[2] < size[at[1]]
        /\ at[1] \in FileIds /\ at[2] \in Nat
    BY DEF Places
  <2>2. size[at[1]] \in Nat /\ size'[at[1]] \in Nat
    BY <1>2, <2>1 DEF Sizes
  <2>3. at[2] < size'[at[1]]
    BY <1>2, <2>1, <2>2
  <2> QED
    BY <2>1, <2>3 DEF Places
<1>4. DOMAIN undo \subseteq Places(size) /\ DOMAIN page = Places(size)
  BY DEF FilesInv, UndoIn
<1>5. /\ DOMAIN undo' = written \cup DOMAIN undo
      /\ \A at \in written : undo'[at] = Resaved(x, at, page'[at])
      /\ \A at \in DOMAIN undo : at \notin written => undo'[at] = undo[at]
  BY <1>1 DEF Over
<1>6. \A at \in DOMAIN undo : /\ DOMAIN undo[at] \in (SUBSET Cells) \ {{}}
                             /\ \A c \in DOMAIN undo[at] : SavedOK(V, undo[at][c])
  BY DEF FilesInv, UndoIn
<1>7. UndoIn(V, Places(size'), undo')
  <2> SUFFICES ASSUME NEW at \in DOMAIN undo'
               PROVE  /\ at \in Places(size')
                      /\ DOMAIN undo'[at] \in (SUBSET Cells) \ {{}}
                      /\ \A c \in DOMAIN undo'[at] : SavedOK(V, undo'[at][c])
    BY DEF UndoIn
  <2>1. CASE at \in written
    <3>1. at \in Places(size') /\ page'[at] \in Images(V)
          /\ Rewritten(at, page'[at]) # {}
      BY <1>1, <1>2, <2>1
    <3> DEFINE new == Resaved(x, at, page'[at])
    <3>2. /\ DOMAIN new \in SUBSET Cells
          /\ Rewritten(at, page'[at]) \subseteq DOMAIN new
          /\ \A c \in DOMAIN new : SavedOK(V, new[c])
      BY <3>1, ResavedOK
    <3>3. undo'[at] = new
      BY <1>5, <2>1
    <3> HIDE DEF new, written, re
    <3>4. DOMAIN new \in (SUBSET Cells) \ {{}}
      BY <3>1, <3>2
    <3> QED
      BY <3>1, <3>2, <3>3, <3>4
  <2>2. CASE at \notin written
    BY <1>3, <1>4, <1>5, <1>6, <2>2
  <2> QED
    BY <2>1, <2>2
<1>8. ASSUME NEW at \in Places(size'), NEW c \in Cells
      PROVE  KeptIn(page', undo', at, c)
               = IF at \in Places(size) THEN KeptIn(page, undo, at, c)
                 ELSE ZeroPage[c]
  <2> DEFINE was == IF at \in Places(size) THEN KeptIn(page, undo, at, c)
                    ELSE ZeroPage[c]
             saved == at \in DOMAIN undo /\ c \in DOMAIN undo[at]
  <2>1. /\ saved => /\ Saved(at, c) = undo[at][c] /\ Saved(at, c) # << >>
                    /\ was = undo[at][c][1].was
        /\ ~saved => Saved(at, c) = << >> /\ was = Before(at)[c]
    BY <1>4, <1>6 DEF Saved, SavedOK, KeptIn, Before
  <2>2. c \notin Rewritten(at, page'[at]) => page'[at][c] = Before(at)[c]
    BY DEF Rewritten
  <2>3. CASE at \in written
    <3> DEFINE new == Resaved(x, at, page'[at])
    <3>1. page'[at] \in Images(V)
      BY <1>2
    <3>2. /\ Rewritten(at, page'[at]) \subseteq DOMAIN new
          /\ \A d \in DOMAIN new :
                /\ Saved(at, d) = << >> => new[d][1].was = Before(at)[d]
                /\ Saved(at, d) # << >> => new[d][1] = Saved(at, d)[1]
      BY <3>1, ResavedOK
    <3>3. undo'[at] = new /\ at \in DOMAIN undo'
      BY <1>5, <2>3
    <3>4. saved => c \in DOMAIN new
      BY DEF Resaved, Over
    <3> HIDE DEF new, was, saved
    <3>5. CASE c \in DOMAIN new
      <4>1. KeptIn(page', undo', at, c) = new[c][1].was
        BY <3>3, <3>5 DEF KeptIn
      <4> QED
        BY <2>1, <3>2, <3>5, <4>1 DEF was, saved
    <3>6. CASE c \notin DOMAIN new
      <4>1. KeptIn(page', undo', at, c) = page'[at][c]
        BY <3>3, <3>6 DEF KeptIn
      <4> QED
        BY <2>1, <2>2, <3>2, <3>4, <3>6, <4>1 DEF was
    <3> QED
      BY <3>5, <3>6
  <2>4. CASE at \notin written
    <3>1. Rewritten(at, page'[at]) = {}
      BY <1>1, <1>2, <2>4
    <3>2. CASE saved
      <4>1. at \in DOMAIN undo' /\ undo'[at] = undo[at]
        BY <1>5, <2>4, <3>2
      <4> QED
        BY <2>1, <3>2, <4>1 DEF KeptIn
    <3>3. CASE ~saved
      <4>1. KeptIn(page', undo', at, c) = page'[at][c]
        BY <1>5, <2>4, <3>3 DEF KeptIn
      <4> QED
        BY <2>1, <2>2, <3>1, <3>3, <4>1
    <3> QED
      BY <3>2, <3>3
  <2> QED
    BY <2>3, <2>4
<1>9. /\ Recovered' \in [Places(size') -> Images(V)]
      /\ \A at \in Places(size'), c \in Cells :
            Recovered'[at][c] = KeptIn(page', undo', at, c)
  BY <1>2, <1>7, RecoveredIs, RecoveredParts
<1>10. ASSUME NEW at \in Places(size) PROVE Recovered'[at] = Recovered[at]
  <2>1. /\ Recovered'[at] \in Images(V) /\ Recovered[at] \in Images(V)
        /\ at \in Places(size')
    BY <1>3, <1>9, FilesRecovered
  <2>2. \A c \in Cells : Recovered'[at][c] = Recovered[at][c]
    BY <1>8, <1>9, <2>1, FilesRecovered
  <2> QED
    BY <2>1, <2>2, SameImage
<1>11. ASSUME NEW at \in Places(size'), at \notin Places(size)
       PROVE  Recovered'[at] = ZeroPage
  <2>1. Recovered'[at] \in Images(V)
    BY <1>9
  <2>2. \A c \in Cells : Recovered'[at][c] = ZeroPage[c]
    BY <1>8, <1>9, <1>11
  <2> QED
    BY <2>1, <2>2, SameImage
<1>12. ASSUME NEW z \in sizes', NEW at \in Places(size'), at[2] >= z[at[1]]
       PROVE  Recovered'[at] = ZeroPage
  <2>1. CASE at \notin Places(size)
    BY <1>11, <2>1
  <2>2. CASE at \in Places(size)
    <3>1. at[1] \in FileIds /\ at[2] \in Nat /\ at[2] < size[at[1]]
      BY <2>2 DEF Places
    <3>2. z \in sizes
      <4> SUFFICES ASSUME z \in st.seen PROVE FALSE
        BY <1>1
      <4>1. size[at[1]] <= z[at[1]] /\ z \in Sizes
        BY <3>1 DEF Legal
      <4>2. size[at[1]] \in Nat /\ z[at[1]] \in Nat
        BY <1>2, <3>1, <4>1 DEF Sizes
      <4> QED
        BY <1>12, <3>1, <4>1, <4>2
    <3>3. Recovered[at] = ZeroPage
      BY <1>12, <2>2, <3>2 DEF FilesInv
    <3> QED
      BY <1>10, <2>2, <3>3
  <2> QED
    BY <2>1, <2>2
<1>13. /\ sizes' \subseteq Sizes /\ size' \in sizes'
       /\ \A z \in sizes', f \in FileIds :
             z[f] <= size'[f] /\ size'[f] <= MaxPages
  <2>1. sizes' \subseteq Sizes
    BY <1>1 DEF FilesInv, Legal
  <2>2. size' \in sizes'
    BY <1>1 DEF FilesInv, Legal
  <2>3. ASSUME NEW z \in sizes', NEW f \in FileIds
        PROVE  z[f] <= size'[f] /\ size'[f] <= MaxPages
    <3>1. z[f] \in Nat /\ size[f] \in Nat /\ size'[f] \in Nat
      BY <1>2, <2>1 DEF Sizes
    <3>2. z[f] <= size[f] \/ z[f] <= size'[f]
      BY <1>1 DEF FilesInv, Legal
    <3>3. size[f] <= size'[f] /\ size'[f] <= MaxPages
      BY <1>1, <1>2
    <3> QED
      BY <3>1, <3>2, <3>3
  <2> QED
    BY <2>1, <2>2, <2>3
<1>14. FilesInv(V)'
  BY <1>2, <1>7, <1>12, <1>13 DEF FilesInv
<1> QED
  BY <1>1, <1>3, <1>10, <1>11, <1>14

LEMMA WithoutOK ==
    ASSUME NEW V, NEW saved, SavedOK(V, saved), NEW x,
           Without(x, saved) # << >>
    PROVE  SavedOK(V, Without(x, saved))
<1> DEFINE own == {i \in DOMAIN saved : saved[i].tx = x}
<1>1. /\ saved \in Seq(Entries(V)) /\ Len(saved) \in Nat
      /\ DOMAIN saved = 1 .. Len(saved)
      /\ \A i, j \in DOMAIN saved : saved[i].tx = saved[j].tx => i = j
  BY DEF SavedOK
<1>2. CASE own = {}
  BY <1>2 DEF Without
<1>3. CASE own # {}
  <2> DEFINE k == Min(own)
             a == SubSeq(saved, 1, k - 1)
             b == SubSeq(saved, k + 1, Len(saved))
             w == a \o b
  <2>1. own \in SUBSET Nat
    BY <1>1
  <2>2. k \in own
    BY <1>3, <2>1, MinIn
  <2>3. k \in 1 .. Len(saved)
    BY <1>1, <2>2
  <2>4. Without(x, saved) = w
    BY <1>3 DEF Without, RemoveAt
  <2> HIDE DEF k
  <2>5. /\ a \in Seq(Entries(V)) /\ Len(a) = k - 1
        /\ \A i \in 1 .. (k - 1) : a[i] = saved[i]
    <3>1. \A i \in 1 .. (k - 1) : saved[i] \in Entries(V)
      BY <1>1, <2>3
    <3> QED
      BY <1>1, <2>3, <3>1, SubSeqProperties
  <2>5a. /\ b \in Seq(Entries(V)) /\ Len(b) = Len(saved) - k
         /\ \A i \in 1 .. (Len(saved) - k) : b[i] = saved[i + k]
    <3>1. \A i \in (k + 1) .. Len(saved) : saved[i] \in Entries(V)
      BY <1>1, <2>3
    <3>2. /\ b \in Seq(Entries(V))
          /\ Len(b) = IF k + 1 <= Len(saved) THEN Len(saved) - (k + 1) + 1 ELSE 0
          /\ \A i \in 1 .. (Len(saved) - (k + 1) + 1) : b[i] = saved[(k + 1) + i - 1]
      BY <1>1, <2>3, <3>1, SubSeqProperties
    <3> HIDE DEF b
    <3>3. /\ Len(b) = Len(saved) - k
          /\ Len(saved) - (k + 1) + 1 = Len(saved) - k
      <4>1. k \in Nat /\ Len(saved) \in Nat /\ k <= Len(saved)
        BY <1>1, <2>3
      <4>2. Len(saved) - (k + 1) + 1 = Len(saved) - k
        BY <4>1
      <4>3. CASE k + 1 <= Len(saved)
        <5>1. Len(b) = Len(saved) - (k + 1) + 1
          BY <3>2, <4>3
        <5> QED
          BY <4>2, <5>1
      <4>4. CASE ~(k + 1 <= Len(saved))
        <5>1. Len(b) = 0
          BY <3>2, <4>4
        <5>2. Len(saved) - k = 0
          BY <4>1, <4>4
        <5> QED
          BY <4>2, <5>1, <5>2
      <4> QED
        BY <4>3, <4>4
    <3>4. \A i \in 1 .. (Len(saved) - k) : (k + 1) + i - 1 = i + k
      BY <1>1, <2>3
    <3> QED
      BY <3>2, <3>3, <3>4
  <2> HIDE DEF a, b
  <2> DEFINE from(i) == IF i < k THEN i ELSE i + 1
  <2>6. /\ w \in Seq(Entries(V)) /\ DOMAIN w = 1 .. (Len(saved) - 1)
        /\ \A i \in 1 .. (Len(saved) - 1) : w[i] = saved[from(i)]
    <3>1. /\ w \in Seq(Entries(V)) /\ Len(w) = Len(a) + Len(b)
          /\ \A i \in 1 .. Len(a) + Len(b) :
                w[i] = IF i <= Len(a) THEN a[i] ELSE b[i - Len(a)]
      BY <2>5, <2>5a, ConcatProperties
    <3> HIDE DEF w
    <3>2. DOMAIN w = 1 .. (Len(saved) - 1)
      BY <1>1, <2>3, <2>5, <2>5a, <3>1
    <3>3. ASSUME NEW i \in 1 .. (Len(saved) - 1) PROVE w[i] = saved[from(i)]
      <4>1. CASE i < k
        <5>1. /\ Len(a) = k - 1 /\ Len(b) = Len(saved) - k
              /\ k \in 1 .. Len(saved) /\ Len(saved) \in Nat
          BY <1>1, <2>3, <2>5, <2>5a
        <5>2. i \in 1 .. Len(a) + Len(b) /\ i <= Len(a) /\ i \in 1 .. (k - 1)
          BY <4>1, <5>1
        <5>3. w[i] = a[i]
          BY <3>1, <5>2
        <5> QED
          BY <2>5, <4>1, <5>2, <5>3
      <4>2. CASE ~(i < k)
        <5>1. w[i] = b[i - (k - 1)] /\ i - (k - 1) \in 1 .. (Len(saved) - k)
          <6>1. /\ Len(a) = k - 1 /\ Len(b) = Len(saved) - k
                /\ k \in 1 .. Len(saved) /\ Len(saved) \in Nat
            BY <1>1, <2>3, <2>5, <2>5a
          <6>2. i \in 1 .. Len(a) + Len(b) /\ ~(i <= Len(a))
            BY <4>2, <6>1
          <6>3. w[i] = b[i - Len(a)]
            BY <3>1, <6>2
          <6> QED
            BY <4>2, <6>1, <6>3
        <5>2. b[i - (k - 1)] = saved[i - (k - 1) + k]
          BY <2>5a, <5>1
        <5>3. i - (k - 1) + k = i + 1
          BY <2>3
        <5> QED
          BY <4>2, <5>1, <5>2, <5>3
      <4> QED
        BY <4>1, <4>2
    <3> QED
      BY <3>1, <3>2, <3>3
  <2> HIDE DEF w
  <2>7. \A i, j \in DOMAIN w : w[i].tx = w[j].tx => i = j
    <3> SUFFICES ASSUME NEW i \in DOMAIN w, NEW j \in DOMAIN w,
                        w[i].tx = w[j].tx
                 PROVE  i = j
      OBVIOUS
    <3>1. from(i) \in DOMAIN saved /\ from(j) \in DOMAIN saved
      BY <1>1, <2>3, <2>6
    <3>2. from(i) = from(j)
      BY <1>1, <2>6, <3>1
    <3> QED
      BY <2>3, <2>6, <3>2
  <2> QED
    BY <2>4, <2>6, <2>7 DEF SavedOK
<1> QED
  BY <1>2, <1>3

\* A commit keeps the files in order.  Alone, it leaves nothing to undo.
LEMMA CommitFilesOK ==
    ASSUME NEW V, FilesInv(V), NEW x \in Tx, CommitFiles(x)
    PROVE  /\ FilesInv(V)' /\ UNCHANGED <<page, size>> /\ sizes' = {size}
           /\ (\A y \in Tx : y = x) => Recovered' = page'
<1> DEFINE open(at) == {c \in DOMAIN undo[at] : Without(x, undo[at][c]) # << >>}
<1>1. /\ page' = page /\ size' = size /\ sizes' = {size}
      /\ undo' = [at \in {a \in DOMAIN undo : open(a) # {}} |->
                    [c \in open(at) |-> Without(x, undo[at][c])]]
  BY DEF CommitFiles
<1>2. UndoIn(V, Places(size'), undo')
  <2> SUFFICES ASSUME NEW at \in DOMAIN undo'
               PROVE  /\ at \in Places(size)
                      /\ DOMAIN undo'[at] \in (SUBSET Cells) \ {{}}
                      /\ \A c \in DOMAIN undo'[at] : SavedOK(V, undo'[at][c])
    BY <1>1 DEF UndoIn
  <2>1. /\ at \in DOMAIN undo /\ open(at) # {}
        /\ undo'[at] = [c \in open(at) |-> Without(x, undo[at][c])]
    BY <1>1
  <2>2. at \in Places(size) /\ DOMAIN undo[at] \subseteq Cells
    BY <2>1 DEF FilesInv, UndoIn
  <2>3. \A c \in open(at) : SavedOK(V, Without(x, undo[at][c]))
    BY <2>1, WithoutOK DEF FilesInv, UndoIn
  <2> HIDE DEF open
  <2>4. DOMAIN undo'[at] = open(at)
    BY <2>1
  <2>5. open(at) \subseteq Cells
    BY <2>2 DEF open
  <2> QED
    BY <2>1, <2>2, <2>3, <2>4, <2>5
<1>3. /\ size \in Sizes
      /\ \A f \in FileIds : size[f] \in Nat /\ size[f] <= MaxPages
  BY DEF FilesInv, Sizes
<1>4. \A at \in Places(size) : ~(at[2] >= size[at[1]])
  BY <1>3 DEF Places
<1>5. FilesInv(V)'
  BY <1>1, <1>2, <1>3, <1>4 DEF FilesInv
<1>6. ASSUME \A y \in Tx : y = x PROVE Recovered' = page'
  <2>1. ASSUME NEW at \in DOMAIN undo, NEW c \in DOMAIN undo[at]
        PROVE  Without(x, undo[at][c]) = << >>
    <3> DEFINE s == undo[at][c]
    <3>1. /\ s \in Seq(Entries(V)) /\ s # << >>
          /\ \A i, j \in DOMAIN s : s[i].tx = s[j].tx => i = j
      BY DEF FilesInv, UndoIn, SavedOK
    <3> HIDE DEF s
    <3>2. \A i \in DOMAIN s : s[i].tx = x
      <4>1. \A i \in DOMAIN s : s[i] \in Entries(V)
        BY <3>1
      <4>2. \A i \in DOMAIN s : s[i].tx \in Tx
        BY <4>1 DEF Entries
      <4> QED
        BY <1>6, <4>2
    <3>3. Len(s) = 1 /\ DOMAIN s = {1}
      <4>1. Len(s) \in Nat /\ DOMAIN s = 1 .. Len(s) /\ Len(s) # 0
        BY <3>1
      <4>2. ~(Len(s) >= 2)
        BY <3>1, <3>2, <4>1
      <4> QED
        BY <4>1, <4>2
    <3>4. {i \in DOMAIN s : s[i].tx = x} = {1}
      BY <3>2, <3>3
    <3>5. Min({1}) = 1
      BY MinIn
    <3>6. Without(x, s) = RemoveAt(s, 1)
      BY <3>4, <3>5 DEF Without
    <3>7. RemoveAt(s, 1) = << >>
      <4>1. /\ SubSeq(s, 1, 0) \in Seq(Entries(V)) /\ Len(SubSeq(s, 1, 0)) = 0
            /\ SubSeq(s, 2, 1) \in Seq(Entries(V)) /\ Len(SubSeq(s, 2, 1)) = 0
        BY <3>1
      <4>2. SubSeq(s, 1, 0) = << >> /\ SubSeq(s, 2, 1) = << >>
        BY <4>1
      <4> QED
        BY <3>3, <4>2 DEF RemoveAt
    <3> QED
      BY <3>6, <3>7 DEF s
  <2>2. DOMAIN undo' = {}
    BY <1>1, <2>1
  <2>3. page' \in [Places(size) -> Images(V)]
    BY <1>1 DEF FilesInv
  <2>4. RecoveredOf(page', undo') = page'
    BY <2>2, <2>3, NothingSaved
  <2> QED
    BY <2>4, RecoveredIs
<1> QED
  BY <1>1, <1>5, <1>6

\* After a crash nothing is left to undo, and what is there is what was kept,
\* of one of the sizes there were since the log was last forced.
LEMMA CrashFilesOK ==
    ASSUME NEW V, FilesInv(V), CrashFiles
    PROVE  /\ FilesInv(V)' /\ size' \in sizes /\ sizes' = {size'}
           /\ Recovered' = page' /\ Places(size') \subseteq Places(size)
           /\ \A at \in Places(size') : page'[at] = Recovered[at]
<1>1. PICK found \in sizes :
        /\ size' = found /\ sizes' = {found} /\ undo' = << >>
        /\ page' = [at \in {a \in DOMAIN page : a[2] < found[a[1]]} |->
                      Recovered[at]]
  BY DEF CrashFiles
<1>2. /\ found \in Sizes /\ size \in Sizes /\ DOMAIN page = Places(size)
      /\ \A f \in FileIds : found[f] <= size[f] /\ size[f] <= MaxPages
  BY DEF FilesInv
<1>3. \A f \in FileIds : found[f] \in Nat /\ size[f] \in Nat
  BY <1>2 DEF Sizes
<1>4. /\ {a \in DOMAIN page : a[2] < found[a[1]]} = Places(found)
      /\ Places(found) \subseteq Places(size)
  <2>1. \A a \in FileIds \X Nat :
           a[1] \in FileIds /\ a[2] \in Nat
           /\ (a[2] < found[a[1]] => a[2] < size[a[1]])
    BY <1>2, <1>3
  <2> QED
    BY <1>2, <2>1 DEF Places
<1>5. page' = [at \in Places(found) |-> Recovered[at]]
  BY <1>1, <1>4
<1>6. \A at \in Places(found) : Recovered[at] \in Images(V)
  BY <1>4, FilesRecovered
<1>7. page' \in [Places(size') -> Images(V)]
  BY <1>1, <1>5, <1>6
<1>8. Recovered' = page'
  <2>1. RecoveredOf(page', undo') = page'
    BY <1>1, <1>7, NothingSaved
  <2> QED
    BY <1>7, <2>1, RecoveredIs
<1>9. UndoIn(V, Places(size'), undo')
  BY <1>1 DEF UndoIn
<1>10. \A f \in FileIds : found[f] <= MaxPages
  BY <1>2, <1>3, FilesConfig
<1>11. \A at \in Places(found) : ~(at[2] >= found[at[1]])
  BY <1>3 DEF Places
<1>12. FilesInv(V)'
  BY <1>1, <1>2, <1>3, <1>7, <1>9, <1>10, <1>11 DEF FilesInv
<1> QED
  BY <1>1, <1>4, <1>5, <1>8, <1>12

-----------------------------------------------------------------------------
(* Contents and owners                                                     *)

\* More values may be allowed in pages than there are.
LEMMA FilesWider ==
    ASSUME NEW V, NEW W, V \subseteq W, FilesInv(V)
    PROVE  FilesInv(W)
<1>1. Images(V) \subseteq Images(W) /\ Entries(V) \subseteq Entries(W)
  BY DEF Images, Entries
<1>2. \A s : SavedOK(V, s) => SavedOK(W, s)
  BY <1>1 DEF SavedOK
<1>3. UndoIn(W, Places(size), undo)
  BY <1>2 DEF FilesInv, UndoIn
<1>4. page \in [Places(size) -> Images(W)]
  BY <1>1 DEF FilesInv
<1> QED
  BY <1>3, <1>4 DEF FilesInv

\* The open transactions with a before-image of a cell.
OwnersIn(un, at, c) ==
    {SavedIn(un, at, c)[i].tx : i \in DOMAIN SavedIn(un, at, c)}

LEMMA SavedIsOK ==
    ASSUME NEW V, FilesInv(V), NEW at, NEW c
    PROVE  /\ SavedIn(undo, at, c) = Saved(at, c)
           /\ Saved(at, c) = << >> \/ SavedOK(V, Saved(at, c))
           /\ Saved(at, c) \in Seq(Entries(V))
  BY DEF FilesInv, UndoIn, SavedIn, Saved, SavedOK

\* A cell without owners comes back as it is.
LEMMA Unowned ==
    ASSUME NEW V, FilesInv(V), NEW at \in Places(size), NEW c \in Cells,
           OwnersIn(undo, at, c) = {}
    PROVE  Recovered[at][c] = page[at][c]
<1> DEFINE s == Saved(at, c)
<1>1. s \in Seq(Entries(V)) /\ DOMAIN s = {}
  BY SavedIsOK DEF OwnersIn
<1>2. s = << >>
  BY <1>1
<1>3. at \in DOMAIN page
  BY DEF FilesInv
<1> QED
  BY <1>2, <1>3 DEF Recovered

\* A command becomes an owner of the cells that it changes.
LEMMA OwnersWrite ==
    ASSUME NEW V, ZeroPage \in Images(V), FilesInv(V), NEW x \in Tx, NEW st,
           Legal(V, st), WriteAll(x, st), NEW at \in Places(size'),
           NEW c \in Cells
    PROVE  OwnersIn(undo', at, c)
             = OwnersIn(undo, at, c)
               \cup (IF page'[at][c] = Before(at)[c] THEN {} ELSE {x})
<1> DEFINE written == {a \in DOMAIN st.page : Rewritten(a, st.page[a]) # {}}
           re == [a \in written |-> Resaved(x, a, st.page[a])]
           s == Saved(at, c)
           e == [tx |-> x, was |-> Before(at)[c]]
           new == SavedIn(undo', at, c)
           changed == Before(at)[c] # page'[at][c]
<1>1. page' = st.page /\ undo' = Over(re, undo)
  BY DEF WriteAll
<1>2. DOMAIN st.page = Places(size')
  BY DEF WriteAll, Legal
<1>3. DOMAIN re = written
  OBVIOUS
<1>4. /\ at \in written => at \in DOMAIN undo' /\ undo'[at] = Resaved(x, at, page'[at])
      /\ at \notin written =>
            /\ at \in DOMAIN undo' <=> at \in DOMAIN undo
            /\ at \in DOMAIN undo => undo'[at] = undo[at]
  <2> HIDE DEF written
  <2> QED
    BY <1>1, <1>3 DEF Over
<1>5. c \in Rewritten(at, page'[at]) <=> changed
  BY DEF Rewritten
<1>6. new = IF changed /\ ~SavedBy(x, at, c) THEN Append(s, e) ELSE s
  <2>1. CASE at \in written
    <3> DEFINE img == page'[at]
               mine == [d \in Rewritten(at, img) |->
                          IF SavedBy(x, at, d) THEN Saved(at, d)
                          ELSE Append(Saved(at, d),
                                      [tx |-> x, was |-> Before(at)[d]])]
               old == IF at \in DOMAIN undo THEN undo[at] ELSE << >>
    <3>1. undo'[at] = Over(mine, old)
      BY <1>4, <2>1 DEF Resaved
    <3>2. DOMAIN mine = Rewritten(at, img)
      OBVIOUS
    <3>3. changed => mine[c] = IF SavedBy(x, at, c) THEN s ELSE Append(s, e)
      BY <1>5
    <3>4. /\ c \in DOMAIN old => s = old[c]
          /\ c \notin DOMAIN old => s = << >>
      BY DEF Saved
    <3>5. new = IF c \in DOMAIN Over(mine, old) THEN Over(mine, old)[c] ELSE << >>
      BY <1>4, <2>1, <3>1 DEF SavedIn
    <3> HIDE DEF mine, old, s, e
    <3>6. CASE changed
      BY <1>5, <3>2, <3>3, <3>5, <3>6 DEF Over
    <3>7. CASE ~changed
      BY <1>5, <3>2, <3>4, <3>5, <3>7 DEF Over
    <3> QED
      BY <3>6, <3>7
  <2>2. CASE at \notin written
    <3>1. Rewritten(at, page'[at]) = {}
      BY <1>1, <1>2, <2>2
    <3>2. ~changed
      BY <1>5, <3>1
    <3>3. new = s
      BY <1>4, <2>2 DEF SavedIn, Saved
    <3> QED
      BY <3>2, <3>3
  <2> QED
    BY <2>1, <2>2
<1>7. /\ s \in Seq(Entries(V)) /\ SavedIn(undo, at, c) = s
      /\ SavedBy(x, at, c) <=> x \in OwnersIn(undo, at, c)
  BY SavedIsOK DEF SavedBy, OwnersIn
<1>8. CASE changed /\ ~SavedBy(x, at, c)
  <2> DEFINE t == Append(s, e)
  <2>1. /\ DOMAIN s = 1 .. Len(s) /\ Len(s) \in Nat
        /\ DOMAIN t = 1 .. (Len(s) + 1)
        /\ \A i \in 1 .. Len(s) : t[i] = s[i]
        /\ t[Len(s) + 1] = e /\ e.tx = x
    BY <1>7
  <2>2. new = t
    BY <1>6, <1>8
  <2> HIDE DEF t, s, e, new
  <2>3. \A y : (\E i \in DOMAIN t : y = t[i].tx)
                  <=> y = x \/ \E i \in DOMAIN s : y = s[i].tx
    BY <2>1
  <2>4. /\ OwnersIn(undo', at, c) = {t[i].tx : i \in DOMAIN t}
        /\ OwnersIn(undo, at, c) = {s[i].tx : i \in DOMAIN s}
    BY <1>7, <2>2 DEF OwnersIn, new
  <2>5. OwnersIn(undo', at, c) = OwnersIn(undo, at, c) \cup {x}
    BY <2>3, <2>4
  <2>6. page'[at][c] # Before(at)[c]
    BY <1>8
  <2> QED
    BY <2>5, <2>6
<1>9. CASE ~(changed /\ ~SavedBy(x, at, c))
  <2>1. OwnersIn(undo', at, c) = OwnersIn(undo, at, c)
    BY <1>6, <1>7, <1>9 DEF OwnersIn
  <2> QED
    BY <1>7, <1>9, <2>1
<1> QED
  BY <1>8, <1>9

\* What a commit does to a cell that one transaction owns at most.
LEMMA OwnersCommit ==
    ASSUME NEW V, FilesInv(V), NEW x \in Tx, CommitFiles(x),
           NEW at \in Places(size), NEW c \in Cells,
           NEW y, OwnersIn(undo, at, c) \subseteq {y}
    PROVE  /\ OwnersIn(undo', at, c) = OwnersIn(undo, at, c) \ {x}
           /\ Recovered'[at][c] = IF x \in OwnersIn(undo, at, c)
                                  THEN page[at][c] ELSE Recovered[at][c]
<1> DEFINE open(a) == {d \in DOMAIN undo[a] : Without(x, undo[a][d]) # << >>}
           s == Saved(at, c)
           new == SavedIn(undo', at, c)
<1>1. /\ page' = page
      /\ undo' = [a \in {b \in DOMAIN undo : open(b) # {}} |->
                    [d \in open(a) |-> Without(x, undo[a][d])]]
  BY DEF CommitFiles
<1>2. new = IF at \in DOMAIN undo THEN IF c \in DOMAIN undo[at]
               THEN Without(x, undo[at][c]) ELSE << >> ELSE << >>
  <2>1. at \in DOMAIN undo' <=> at \in DOMAIN undo /\ open(at) # {}
    BY <1>1
  <2>2. at \in DOMAIN undo' => undo'[at] = [d \in open(at) |-> Without(x, undo[at][d])]
    BY <1>1
  <2>3. c \in open(at) <=> c \in DOMAIN undo[at] /\ Without(x, undo[at][c]) # << >>
    OBVIOUS
  <2>4. new = IF at \in DOMAIN undo' /\ c \in DOMAIN undo'[at]
              THEN undo'[at][c] ELSE << >>
    BY DEF SavedIn
  <2> HIDE DEF open, new
  <2>5. CASE at \in DOMAIN undo'
    <3>1. DOMAIN undo'[at] = open(at)
      BY <2>2, <2>5
    <3> QED
      BY <2>1, <2>2, <2>3, <2>4, <2>5, <3>1
  <2>6. CASE at \notin DOMAIN undo'
    <3>1. new = << >>
      BY <2>4, <2>6
    <3>2. at \in DOMAIN undo => c \notin open(at)
      BY <2>1, <2>6
    <3> QED
      BY <2>3, <3>1, <3>2
  <2> QED
    BY <2>5, <2>6
<1>3. /\ s \in Seq(Entries(V))
      /\ s = << >> \/ SavedOK(V, s)
      /\ SavedIn(undo, at, c) = s /\ OwnersIn(undo, at, c) = {s[i].tx : i \in DOMAIN s}
  BY SavedIsOK DEF OwnersIn
<1>4. at \in DOMAIN page
  BY DEF FilesInv
<1>5. /\ Recovered'[at][c] = IF new = << >> THEN page[at][c] ELSE Head(new).was
      /\ Recovered[at][c] = IF s = << >> THEN page[at][c] ELSE Head(s).was
  <2>1. Recovered'[at][c] = IF new = << >> THEN page[at][c] ELSE Head(new).was
    BY <1>1, <1>4, RecoveredIs DEF RecoveredOf
  <2>2. Recovered[at][c] = IF s = << >> THEN page[at][c] ELSE Head(s).was
    BY <1>4 DEF Recovered
  <2> QED
    BY <2>1, <2>2
<1>6. CASE s = << >>
  <2>1. new = << >>
    <3>1. ~(at \in DOMAIN undo /\ c \in DOMAIN undo[at])
      BY <1>6 DEF Saved, FilesInv, UndoIn, SavedOK
    <3> QED
      BY <1>2, <3>1
  <2>2. OwnersIn(undo, at, c) = {} /\ OwnersIn(undo', at, c) = {}
    BY <1>3, <1>6, <2>1 DEF OwnersIn
  <2> QED
    BY <1>5, <1>6, <2>1, <2>2
<1>7. CASE s # << >>
  <2>1. new = Without(x, s)
    BY <1>2, <1>7 DEF Saved
  <2>2. /\ Len(s) = 1 /\ DOMAIN s = {1} /\ s[1].tx = y
        /\ OwnersIn(undo, at, c) = {y}
    <3>1. Len(s) \in Nat /\ DOMAIN s = 1 .. Len(s) /\ Len(s) # 0
      BY <1>3, <1>7
    <3>2. \A i \in DOMAIN s : s[i].tx = y
      BY <1>3
    <3>3. ~(Len(s) >= 2)
      BY <1>3, <1>7, <3>1, <3>2 DEF SavedOK
    <3>4. Len(s) = 1 /\ DOMAIN s = {1}
      BY <3>1, <3>3
    <3> HIDE DEF s
    <3> QED
      BY <1>3, <3>2, <3>4
  <2>3. CASE x = y
    <3>1. {i \in DOMAIN s : s[i].tx = x} = {1}
      BY <2>2, <2>3
    <3>2. Min({1}) = 1
      BY MinIn
    <3>3. Without(x, s) = RemoveAt(s, 1)
      BY <3>1, <3>2 DEF Without
    <3>4. RemoveAt(s, 1) = << >>
      <4>1. /\ SubSeq(s, 1, 0) \in Seq(Entries(V)) /\ Len(SubSeq(s, 1, 0)) = 0
            /\ SubSeq(s, 2, 1) \in Seq(Entries(V)) /\ Len(SubSeq(s, 2, 1)) = 0
        BY <1>3
      <4>2. SubSeq(s, 1, 0) = << >> /\ SubSeq(s, 2, 1) = << >>
        BY <4>1
      <4> QED
        BY <2>2, <4>2 DEF RemoveAt
    <3>5. new = << >>
      BY <2>1, <3>3, <3>4
    <3>6. OwnersIn(undo', at, c) = {}
      BY <3>5 DEF OwnersIn
    <3> QED
      BY <1>5, <2>2, <2>3, <3>5, <3>6
  <2>4. CASE x # y
    <3>1. {i \in DOMAIN s : s[i].tx = x} = {}
      BY <2>2, <2>4
    <3>2. new = s
      BY <2>1, <3>1 DEF Without
    <3>3. OwnersIn(undo', at, c) = OwnersIn(undo, at, c)
      BY <1>3, <3>2 DEF OwnersIn
    <3> QED
      BY <1>5, <2>2, <2>4, <3>2, <3>3
  <2> QED
    BY <2>3, <2>4
<1> QED
  BY <1>6, <1>7

LEMMA OwnersCrash ==
    ASSUME CrashFiles, NEW at, NEW c
    PROVE  OwnersIn(undo', at, c) = {}
  BY DEF CrashFiles, OwnersIn, SavedIn
=============================================================================
