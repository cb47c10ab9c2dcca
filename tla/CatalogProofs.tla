----------------------------- MODULE CatalogProofs -----------------------------
(***************************************************************************)
(* The catalog's chain, for every instance of CatalogChain in which one    *)
(* transaction writes at a time: the walk from page 0 passes every page    *)
(* that holds an entry, now and after a crash.  The pages of the chain are *)
(* kept as a sequence; that _iter_pages walks exactly this sequence is the *)
(* first lemma, and the only place where the recursion matters.            *)
(***************************************************************************)
EXTENDS CatalogChain, FilesProofs, FiniteSetTheorems

-----------------------------------------------------------------------------
(* The chain as a sequence *)

Img(pg, p) == pg[<<Catalog, p>>]

\* ch is the chain among the first n pages of pg.
IsChain(pg, ch, n) ==
    /\ ch \in Seq(0 .. (n - 1)) /\ Len(ch) \in 1 .. n /\ ch[1] = 0
    /\ \A i, j \in DOMAIN ch : ch[i] = ch[j] => i = j
    /\ \A i \in DOMAIN ch :
          i < Len(ch) => Img(pg, ch[i])[NextCell] = ch[i + 1]
    /\ Img(pg, ch[Len(ch)])[NextCell] \in {NullPage, 0}

\* Entries are on pages of the chain, and each type has one.
Listed(pg, ch, n) ==
    \A p \in 0 .. (n - 1), s \in Slots :
        Img(pg, p)[s] # Zero => \E i \in DOMAIN ch : ch[i] = p
OneEach(pg, n) ==
    \A p, q \in 0 .. (n - 1), s, r \in Slots :
        (/\ Img(pg, p)[s] # Zero /\ Img(pg, q)[r] # Zero
         /\ Img(pg, p)[s][1] = Img(pg, q)[r][1])
        => p = q /\ s = r
Sound(pg, ch, n) == IsChain(pg, ch, n) /\ Listed(pg, ch, n) /\ OneEach(pg, n)

Prefix(ch, m) == [i \in 1 .. m |-> ch[i]]
Shorter(ch, i) == IF i + 1 <= Len(ch) THEN i + 1 ELSE Len(ch)

\* One step of the walk along the chain.
LEMMA ExtendChain ==
    ASSUME NEW st, NEW n \in Nat, NEW ch, IsChain(st.page, ch, n),
           NEW m \in 1 .. Len(ch)
    PROVE  Extend(st, Prefix(ch, m)) = Prefix(ch, Shorter(ch, m))
<1> DEFINE s == Prefix(ch, m)
           next == PageOf(st, s[Len(s)])[NextCell]
<1>1. /\ ch \in Seq(0 .. (n - 1)) /\ Len(ch) \in 1 .. n /\ DOMAIN ch = 1 .. Len(ch)
      /\ \A i \in DOMAIN ch : ch[i] \in 0 .. (n - 1)
  BY DEF IsChain
<1>1a. Len(ch) \in Nat /\ m \in Nat /\ m >= 1 /\ m <= Len(ch)
  BY <1>1
<1>2. /\ s \in Seq(0 .. (n - 1)) /\ Len(s) = m /\ DOMAIN s = 1 .. m
      /\ \A i \in 1 .. m : s[i] = ch[i]
  BY <1>1 DEF Prefix
<1>3. next = Img(st.page, ch[m])[NextCell]
  BY <1>2 DEF PageOf, Img
<1> HIDE DEF next
<1>4. Extend(st, s) = IF next = NullPage \/ next \in Range(s) THEN s
                      ELSE Append(s, next)
  BY DEF Extend, next
<1>5. Range(s) = {ch[i] : i \in 1 .. m}
  BY <1>2 DEF Range
<1> HIDE DEF s
<1>6. CASE m = Len(ch)
  <2>1. next \in {NullPage, 0}
    BY <1>3, <1>6 DEF IsChain
  <2>2. 0 \in Range(s)
    BY <1>1, <1>5 DEF IsChain
  <2>3. Extend(st, s) = s
    BY <1>4, <2>1, <2>2
  <2>4. Shorter(ch, m) = m
    BY <1>1a, <1>6 DEF Shorter
  <2> QED
    BY <2>3, <2>4 DEF s
<1>7. CASE m # Len(ch)
  <2>1. /\ m \in DOMAIN ch /\ m + 1 \in DOMAIN ch /\ m < Len(ch)
        /\ Shorter(ch, m) = m + 1
    <3>1. m < Len(ch) /\ m + 1 <= Len(ch) /\ m + 1 >= 1 /\ m + 1 \in Nat
      BY <1>1a, <1>7
    <3>2. m \in 1 .. Len(ch) /\ m + 1 \in 1 .. Len(ch)
      BY <1>1a, <3>1
    <3> QED
      BY <1>1, <3>1, <3>2 DEF Shorter
  <2>2. next = ch[m + 1]
    BY <1>3, <2>1 DEF IsChain
  <2>3. next # NullPage /\ next \in 0 .. (n - 1)
    <3>1. next \in 0 .. (n - 1)
      BY <1>1, <2>1, <2>2
    <3> QED
      BY <3>1 DEF NullPage
  <2>4. next \notin Range(s)
    <3>1. ASSUME NEW i \in 1 .. m PROVE ch[i] # ch[m + 1]
      <4>1. i \in DOMAIN ch /\ i # m + 1
        BY <1>1, <2>1
      <4> QED
        BY <2>1, <4>1 DEF IsChain
    <3> QED
      BY <1>5, <2>2, <3>1
  <2>5. Extend(st, s) = Append(s, next)
    BY <1>4, <2>3, <2>4
  <2>6. Append(s, next) = Prefix(ch, m + 1)
    BY <1>1, <1>2, <2>1, <2>2, <2>3 DEF Prefix
  <2> QED
    BY <2>1, <2>5, <2>6 DEF s
<1> QED
  BY <1>6, <1>7

\* _iter_pages walks the chain.
LEMMA WalkIs ==
    ASSUME NEW st, NEW n \in 1 .. MaxPages, NEW ch, IsChain(st.page, ch, n)
    PROVE  IterPages(st) = ch
<1> DEFINE steps == 0 .. MaxPages
           Walks(w) == w = [i \in steps |-> IF i = 0 THEN <<0>>
                                            ELSE Extend(st, w[i - 1])]
           w0 == [i \in steps |-> Prefix(ch, Shorter(ch, i))]
<1>1. IterPages(st) = (CHOOSE w : Walks(w))[MaxPages]
  BY DEF IterPages
<1>2. /\ ch \in Seq(0 .. (n - 1)) /\ Len(ch) \in 1 .. n /\ DOMAIN ch = 1 .. Len(ch)
      /\ Len(ch) \in Nat /\ Len(ch) >= 1 /\ Len(ch) <= MaxPages
      /\ MaxPages \in Nat /\ ch[1] = 0
  BY FilesConfig DEF IsChain
<1>3. Prefix(ch, Shorter(ch, 0)) = <<0>>
  BY <1>2 DEF Prefix, Shorter
<1>4. ASSUME NEW i \in steps, i # 0
      PROVE  Prefix(ch, Shorter(ch, i))
               = Extend(st, Prefix(ch, Shorter(ch, i - 1)))
  <2>1. i - 1 \in Nat /\ i \in Nat /\ i >= 1
    BY <1>2, <1>4
  <2>2. Shorter(ch, i - 1) \in 1 .. Len(ch)
    BY <1>2, <2>1 DEF Shorter
  <2>3. Shorter(ch, Shorter(ch, i - 1)) = Shorter(ch, i)
    BY <1>2, <2>1 DEF Shorter
  <2> QED
    BY <2>2, <2>3, ExtendChain
<1>5. Walks(w0)
  <2>1. \A i \in steps : i # 0 => i - 1 \in steps
    BY <1>2
  <2>2. \A i \in steps : w0[i] = IF i = 0 THEN <<0>> ELSE Extend(st, w0[i - 1])
    BY <1>3, <1>4, <2>1
  <2> QED
    BY <2>2
<1>6. ASSUME NEW w, Walks(w) PROVE w = w0
  <2> DEFINE bad == {i \in steps : w[i] # w0[i]}
  <2>1. /\ DOMAIN w = steps /\ w = [i \in steps |-> w[i]]
        /\ \A i \in steps : w[i] = IF i = 0 THEN <<0>> ELSE Extend(st, w[i - 1])
    BY <1>6
  <2>2. CASE bad = {}
    BY <2>1, <2>2
  <2>3. CASE bad # {}
    <3>1. bad \in SUBSET Nat
      BY <1>2
    <3>2. PICK m \in bad : \A i \in bad : m <= i
      BY <2>3, <3>1, MinIn
    <3>3. m \in steps /\ m \in Nat /\ w[m] # w0[m]
      BY <3>1, <3>2
    <3>4. m # 0
      BY <1>3, <2>1, <3>3
    <3>5. m - 1 \in steps /\ m - 1 \notin bad
      BY <1>2, <3>1, <3>2, <3>3, <3>4
    <3>6. w[m - 1] = w0[m - 1]
      BY <3>5
    <3>7. w0[m - 1] = Prefix(ch, Shorter(ch, m - 1))
      BY <3>5
    <3>8. w[m] = Prefix(ch, Shorter(ch, m))
      BY <1>4, <2>1, <3>3, <3>4, <3>6, <3>7
    <3> QED
      BY <3>3, <3>8
  <2> QED
    BY <2>2, <2>3
<1>7. (CHOOSE w : Walks(w)) = w0
  <2> HIDE DEF Walks, w0
  <2>1. Walks(CHOOSE w : Walks(w))
    BY <1>5
  <2> QED
    BY <1>6, <2>1
<1>8. w0[MaxPages] = Prefix(ch, Len(ch))
  BY <1>2 DEF Shorter
<1>9. Prefix(ch, Len(ch)) = ch
  BY <1>2 DEF Prefix
<1> QED
  BY <1>1, <1>7, <1>8, <1>9

-----------------------------------------------------------------------------
(* What the walk finds *)

LEMMA SlotParts ==
    /\ Slots \in SUBSET Nat /\ 0 \in Slots /\ Slots \subseteq Cells
    /\ NextCell \notin Slots /\ NextCell \in Cells
<1>1. PerPage \in Nat /\ PerPage >= 1 /\ Width \in Nat /\ PerPage <= Width
  BY ChainConfig, FilesConfig
<1> QED
  BY <1>1 DEF Slots, Cells, NextCell

LEMMA ChainParts ==
    ASSUME NEW pg, NEW ch, NEW n \in Nat, IsChain(pg, ch, n)
    PROVE  /\ ch \in Seq(0 .. (n - 1)) /\ DOMAIN ch = 1 .. Len(ch)
           /\ Len(ch) \in Nat /\ Len(ch) >= 1 /\ Len(ch) <= n
           /\ Len(ch) \in DOMAIN ch /\ 1 \in DOMAIN ch /\ ch[1] = 0
           /\ \A i \in DOMAIN ch : ch[i] \in 0 .. (n - 1) /\ ch[i] \in Nat
<1>1. /\ ch \in Seq(0 .. (n - 1)) /\ Len(ch) \in 1 .. n /\ ch[1] = 0
      /\ Len(ch) \in Nat /\ DOMAIN ch = 1 .. Len(ch)
  BY DEF IsChain
<1>2. Len(ch) >= 1 /\ Len(ch) <= n
  BY <1>1
<1>3. Len(ch) \in 1 .. Len(ch) /\ 1 \in 1 .. Len(ch)
  BY <1>1, <1>2
<1> QED
  BY <1>1, <1>2, <1>3

\* The places of a type's entry in the chain.
EntryPlaces(pg, ch, t) ==
    {at \in (DOMAIN ch) \X Slots :
        Img(pg, ch[at[1]])[at[2]] # Zero /\ Img(pg, ch[at[1]])[at[2]][1] = t}

LEMMA EntriesAre ==
    ASSUME NEW st, NEW n \in 1 .. MaxPages, NEW ch, IsChain(st.page, ch, n),
           NEW t
    PROVE  EntriesOf(st, t) = EntryPlaces(st.page, ch, t)
  BY WalkIs DEF EntriesOf, EntryPlaces, PageOf, Img

\* A type has one entry, and it is in the chain.
LEMMA OnePlace ==
    ASSUME NEW pg, NEW ch, NEW n \in Nat, Sound(pg, ch, n), NEW t
    PROVE  /\ \A a, b \in EntryPlaces(pg, ch, t) : a = b
           /\ EntryPlaces(pg, ch, t) = {} =>
                 \A p \in 0 .. (n - 1), s \in Slots :
                    Img(pg, p)[s] # Zero => Img(pg, p)[s][1] # t
<1>1. /\ \A i \in DOMAIN ch : ch[i] \in 0 .. (n - 1)
      /\ \A i, j \in DOMAIN ch : ch[i] = ch[j] => i = j
  BY ChainParts DEF Sound, IsChain
<1>2. ASSUME NEW a \in EntryPlaces(pg, ch, t), NEW b \in EntryPlaces(pg, ch, t)
      PROVE  a = b
  <2>1. /\ a = <<a[1], a[2]>> /\ a[1] \in DOMAIN ch /\ a[2] \in Slots
        /\ b = <<b[1], b[2]>> /\ b[1] \in DOMAIN ch /\ b[2] \in Slots
    BY DEF EntryPlaces
  <2>2. ch[a[1]] = ch[b[1]] /\ a[2] = b[2]
    BY <1>1, <2>1 DEF Sound, OneEach, EntryPlaces
  <2> QED
    BY <1>1, <2>1, <2>2
<1>3. ASSUME EntryPlaces(pg, ch, t) = {}, NEW p \in 0 .. (n - 1),
             NEW s \in Slots, Img(pg, p)[s] # Zero
      PROVE  Img(pg, p)[s][1] # t
  <2>1. PICK i \in DOMAIN ch : ch[i] = p
    BY <1>3 DEF Sound, Listed
  <2>2. <<i, s>> \in (DOMAIN ch) \X Slots
    OBVIOUS
  <2> QED
    BY <1>3, <2>1, <2>2 DEF EntryPlaces
<1> QED
  BY <1>2, <1>3

LEMMA FirstOfIn ==
    ASSUME NEW ch, DOMAIN ch \subseteq Nat,
           NEW places \in SUBSET ((DOMAIN ch) \X Slots), places # {}
    PROVE  FirstOf(places) \in places
<1> DEFINE pages == {p[1] : p \in places}
           i == Min(pages)
           slots == {p[2] : p \in {q \in places : q[1] = i}}
<1>1. pages \in SUBSET Nat /\ pages # {}
  OBVIOUS
<1>2. i \in pages
  BY <1>1, MinIn
<1>3. slots \in SUBSET Nat /\ slots # {}
  BY <1>2, SlotParts
<1>4. Min(slots) \in slots
  BY <1>3, MinIn
<1>5. PICK p \in places : p[1] = i /\ p[2] = Min(slots)
  BY <1>4
<1>6. p = <<i, Min(slots)>>
  BY <1>5
<1>7. FirstOf(places) = <<i, Min(slots)>>
  BY DEF FirstOf
<1> QED
  BY <1>5, <1>6, <1>7

\* What EntriesReachable says of a store.
LEMMA SoundIsReachable ==
    ASSUME NEW st, NEW n \in 1 .. MaxPages, NEW ch, Sound(st.page, ch, n)
    PROVE  /\ \A p \in 0 .. (n - 1), s \in Slots :
                 PageOf(st, p)[s] # Zero => p \in Range(IterPages(st))
           /\ \A t \in Types : Cardinality(EntriesOf(st, t)) <= 1
<1>1. IterPages(st) = ch /\ n \in Nat /\ IsChain(st.page, ch, n)
  BY WalkIs, FilesConfig DEF Sound
<1>2. ASSUME NEW p \in 0 .. (n - 1), NEW s \in Slots, PageOf(st, p)[s] # Zero
      PROVE  p \in Range(IterPages(st))
  <2>1. \E i \in DOMAIN ch : ch[i] = p
    BY <1>2 DEF Sound, Listed, PageOf, Img
  <2> QED
    BY <1>1, <2>1 DEF Range
<1>3. ASSUME NEW t \in Types PROVE Cardinality(EntriesOf(st, t)) <= 1
  <2> DEFINE E == EntryPlaces(st.page, ch, t)
  <2>1. EntriesOf(st, t) = E
    BY <1>1, EntriesAre
  <2>2. \A a, b \in E : a = b
    BY <1>1, OnePlace
  <2> HIDE DEF E
  <2>3. CASE E = {}
    BY <2>1, <2>3, FS_EmptySet
  <2>4. CASE E # {}
    <3>1. PICK a \in E : TRUE
      BY <2>4
    <3>2. E = {a}
      BY <2>2, <3>1
    <3>3. Cardinality({a}) = 1
      BY FS_Singleton
    <3> QED
      BY <2>1, <3>2, <3>3
  <2> QED
    BY <2>3, <2>4
<1> QED
  BY <1>2, <1>3

-----------------------------------------------------------------------------
(* What the commands make of the chain *)

Content == Int \cup {"zero", "catalog"} \cup {Zero} \cup (Types \X Stats)

LEMMA BlankPages ==
    /\ ZeroPage \in Images(Content) /\ EmptyPage("catalog") \in Images(Content)
    /\ \A s \in Slots : ZeroPage[s] = Zero /\ EmptyPage("catalog")[s] = Zero
    /\ ZeroPage[NextCell] = 0 /\ EmptyPage("catalog")[NextCell] = NullPage
<1>1. \A c \in Cells : ZeroPage[c] \in Content
  <2> SUFFICES ASSUME NEW c \in Cells PROVE ZeroPage[c] \in Content
    OBVIOUS
  <2>1. KindCell \notin NextCell .. FirstCell
    BY DEF KindCell, NextCell, FirstCell
  <2>2. CASE c = KindCell
    <3>1. ZeroPage[c] = "zero"
      BY <2>1, <2>2 DEF ZeroPage
    <3> QED
      BY <3>1 DEF Content
  <2>3. CASE c \in NextCell .. FirstCell
    <3>1. ZeroPage[c] = 0
      BY <2>1, <2>3 DEF ZeroPage
    <3> QED
      BY <3>1 DEF Content
  <2>4. CASE c # KindCell /\ c \notin NextCell .. FirstCell
    <3>1. ZeroPage[c] = Zero
      BY <2>4 DEF ZeroPage
    <3> QED
      BY <3>1 DEF Content
  <2> QED
    BY <2>2, <2>3, <2>4
<1>2. ZeroPage \in Images(Content)
  BY <1>1 DEF ZeroPage, Images
<1>3. \A s \in Slots : s # KindCell /\ s \notin NextCell .. FirstCell /\ s # NextCell
  BY SlotParts DEF KindCell, NextCell, FirstCell
<1>4. \A s \in Slots : ZeroPage[s] = Zero
  BY <1>3, SlotParts DEF ZeroPage
<1>5. NextCell # KindCell /\ NextCell \in NextCell .. FirstCell
  BY DEF KindCell, NextCell, FirstCell
<1>6. ZeroPage[NextCell] = 0
  <2>1. KindCell \notin NextCell .. FirstCell
    BY DEF KindCell, NextCell, FirstCell
  <2> QED
    BY <1>5, <2>1, SlotParts DEF ZeroPage
<1>7. "catalog" \in Content /\ NullPage \in Content
  BY DEF Content, NullPage
<1>8. EmptyPage("catalog") \in Images(Content)
  BY <1>2, <1>7 DEF EmptyPage, Images
<1>9. EmptyPage("catalog")[NextCell] = NullPage
  BY <1>2, <1>5, SlotParts DEF EmptyPage, Images
<1>10. \A s \in Slots : EmptyPage("catalog")[s] = Zero
  BY <1>2, <1>3, <1>4, SlotParts DEF EmptyPage, Images
<1> QED
  BY <1>2, <1>4, <1>6, <1>8, <1>9, <1>10

\* The same pages, and blank ones after them.
LEMMA SoundGrows ==
    ASSUME NEW pg, NEW new, NEW ch, NEW n \in Nat, NEW m \in Nat, n <= m,
           Sound(pg, ch, n),
           \A p \in 0 .. (n - 1) : Img(new, p) = Img(pg, p),
           \A p \in 0 .. (m - 1) : p >= n => Img(new, p) = ZeroPage
    PROVE  Sound(new, ch, m)
<1>1. /\ ch \in Seq(0 .. (n - 1)) /\ DOMAIN ch = 1 .. Len(ch)
      /\ Len(ch) \in Nat /\ Len(ch) >= 1 /\ Len(ch) <= n
      /\ Len(ch) \in DOMAIN ch /\ 1 \in DOMAIN ch /\ ch[1] = 0
      /\ \A i \in DOMAIN ch : ch[i] \in 0 .. (n - 1)
  BY ChainParts DEF Sound
<1>2. IsChain(new, ch, m)
  <2>1. \A i \in DOMAIN ch : Img(new, ch[i]) = Img(pg, ch[i])
    BY <1>1
  <2>2. /\ \A i, j \in DOMAIN ch : ch[i] = ch[j] => i = j
        /\ \A i \in DOMAIN ch :
              i < Len(ch) => Img(new, ch[i])[NextCell] = ch[i + 1]
        /\ Img(new, ch[Len(ch)])[NextCell] \in {NullPage, 0}
    BY <1>1, <2>1 DEF Sound, IsChain
  <2>3. ch \in Seq(0 .. (m - 1))
    <3>1. \A i \in DOMAIN ch : ch[i] \in 0 .. (m - 1)
      BY <1>1
    <3> QED
      BY <1>1, <3>1
  <2>4. Len(ch) \in 1 .. m
    BY <1>1
  <2> QED
    BY <1>1, <2>2, <2>3, <2>4 DEF IsChain
<1>3. ASSUME NEW p \in 0 .. (m - 1), NEW s \in Slots, Img(new, p)[s] # Zero
      PROVE  p \in 0 .. (n - 1) /\ Img(new, p) = Img(pg, p)
  <2>1. ~(p >= n)
    BY <1>3, BlankPages
  <2>2. p \in 0 .. (n - 1)
    BY <2>1
  <2> QED
    BY <2>2
<1>4. Listed(new, ch, m)
  BY <1>3 DEF Sound, Listed
<1>5. OneEach(new, m)
  BY <1>3 DEF Sound, OneEach
<1> QED
  BY <1>2, <1>4, <1>5 DEF Sound

\* An entry is written into a slot of a page of the chain that no other page
\* has an entry for.
LEMMA SlotWritten ==
    ASSUME NEW pg, NEW new, NEW ch, NEW n \in Nat, Sound(pg, ch, n),
           NEW i \in DOMAIN ch, NEW s \in Slots, NEW e,
           Img(pg, ch[i]) \in Images(Content),
           Img(new, ch[i]) = [Img(pg, ch[i]) EXCEPT ![s] = e],
           \A p \in 0 .. (n - 1) : p # ch[i] => Img(new, p) = Img(pg, p),
           \A p \in 0 .. (n - 1), r \in Slots :
              Img(pg, p)[r] # Zero /\ Img(pg, p)[r][1] = e[1]
              => p = ch[i] /\ r = s
    PROVE  Sound(new, ch, n)
<1>1. /\ ch \in Seq(0 .. (n - 1)) /\ DOMAIN ch = 1 .. Len(ch)
      /\ Len(ch) \in DOMAIN ch
      /\ \A j \in DOMAIN ch : ch[j] \in 0 .. (n - 1)
  BY ChainParts DEF Sound
<1>2. /\ Img(new, ch[i])[s] = e
      /\ \A c \in Cells : c # s => Img(new, ch[i])[c] = Img(pg, ch[i])[c]
  BY SlotParts DEF Images
<1>3. \A p \in 0 .. (n - 1), c \in Cells :
         ~(p = ch[i] /\ c = s) => Img(new, p)[c] = Img(pg, p)[c]
  BY <1>2
<1>4. \A j \in DOMAIN ch : Img(new, ch[j])[NextCell] = Img(pg, ch[j])[NextCell]
  BY <1>1, <1>3, SlotParts
<1>5. IsChain(new, ch, n)
  BY <1>1, <1>4 DEF Sound, IsChain
<1>6. Listed(new, ch, n)
  <2> SUFFICES ASSUME NEW p \in 0 .. (n - 1), NEW r \in Slots,
                      Img(new, p)[r] # Zero
               PROVE  \E j \in DOMAIN ch : ch[j] = p
    BY DEF Listed
  <2>1. CASE p = ch[i] /\ r = s
    BY <2>1
  <2>2. CASE ~(p = ch[i] /\ r = s)
    BY <1>3, <2>2, SlotParts DEF Sound, Listed
  <2> QED
    BY <2>1, <2>2
<1>7. OneEach(new, n)
  <2> SUFFICES ASSUME NEW p \in 0 .. (n - 1), NEW q \in 0 .. (n - 1),
                      NEW r \in Slots, NEW u \in Slots,
                      Img(new, p)[r] # Zero, Img(new, q)[u] # Zero,
                      Img(new, p)[r][1] = Img(new, q)[u][1]
               PROVE  p = q /\ r = u
    BY DEF OneEach
  <2>1. CASE (p = ch[i] /\ r = s) /\ (q = ch[i] /\ u = s)
    BY <2>1
  <2>2. CASE (p = ch[i] /\ r = s) /\ ~(q = ch[i] /\ u = s)
    <3>1. Img(new, p)[r] = e /\ Img(new, q)[u] = Img(pg, q)[u]
      BY <1>2, <1>3, <2>2, SlotParts
    <3>2. Img(pg, q)[u] # Zero /\ Img(pg, q)[u][1] = e[1]
      BY <3>1
    <3> QED
      BY <2>2, <3>2
  <2>3. CASE ~(p = ch[i] /\ r = s) /\ (q = ch[i] /\ u = s)
    <3>1. Img(new, q)[u] = e /\ Img(new, p)[r] = Img(pg, p)[r]
      BY <1>2, <1>3, <2>3, SlotParts
    <3>2. Img(pg, p)[r] # Zero /\ Img(pg, p)[r][1] = e[1]
      BY <3>1
    <3> QED
      BY <2>3, <3>2
  <2>4. CASE ~(p = ch[i] /\ r = s) /\ ~(q = ch[i] /\ u = s)
    BY <1>3, <2>4, SlotParts DEF Sound, OneEach
  <2> QED
    BY <2>1, <2>2, <2>3, <2>4
<1> QED
  BY <1>5, <1>6, <1>7 DEF Sound

\* A page with one entry is linked behind the last page of the chain.
LEMMA PageLinked ==
    ASSUME NEW pg, NEW new, NEW ch, NEW n \in Nat, Sound(pg, ch, n),
           NEW e, NEW last, last = ch[Len(ch)],
           Img(pg, last) \in Images(Content),
           Img(new, last) = [Img(pg, last) EXCEPT ![NextCell] = n],
           Img(new, n) = [EmptyPage("catalog") EXCEPT ![0] = e],
           \A p \in 0 .. (n - 1) : p # last => Img(new, p) = Img(pg, p),
           \A p \in 0 .. (n - 1), r \in Slots :
              Img(pg, p)[r] # Zero => Img(pg, p)[r][1] # e[1]
    PROVE  Sound(new, Append(ch, n), n + 1)
<1> DEFINE ext == Append(ch, n)
           k == Len(ch)
<1>1. /\ ch \in Seq(0 .. (n - 1)) /\ DOMAIN ch = 1 .. k
      /\ k \in DOMAIN ch /\ k \in Nat /\ k >= 1 /\ k <= n /\ ch[1] = 0
      /\ \A j \in DOMAIN ch : ch[j] \in 0 .. (n - 1)
      /\ \A i, j \in DOMAIN ch : ch[i] = ch[j] => i = j
  BY ChainParts DEF Sound, IsChain
<1>2. /\ last \in 0 .. (n - 1) /\ n \notin 0 .. (n - 1)
      /\ 0 .. n = (0 .. (n - 1)) \cup {n} /\ n + 1 - 1 = n
  BY <1>1
<1>3. /\ \A c \in Cells : c # NextCell => Img(new, last)[c] = Img(pg, last)[c]
      /\ Img(new, last)[NextCell] = n
  BY SlotParts DEF Images
<1>4. /\ Img(new, n)[0] = e /\ Img(new, n)[NextCell] = NullPage
      /\ \A s \in Slots : s # 0 => Img(new, n)[s] = Zero
  BY BlankPages, SlotParts DEF Images
<1>5. /\ ext \in Seq(0 .. n) /\ Len(ext) = k + 1 /\ DOMAIN ext = 1 .. (k + 1)
      /\ \A i \in DOMAIN ch : ext[i] = ch[i]
      /\ ext[k + 1] = n /\ 1 .. (k + 1) = (1 .. k) \cup {k + 1}
  <2>1. ch \in Seq(0 .. n)
    <3>1. \A i \in DOMAIN ch : ch[i] \in 0 .. n
      BY <1>1, <1>2
    <3> QED
      BY <1>1, <3>1
  <2>2. n \in 0 .. n
    OBVIOUS
  <2> QED
    BY <1>1, <2>1, <2>2
<1> HIDE DEF ext, k
<1>6. \A p \in 0 .. (n - 1), s \in Slots : Img(new, p)[s] = Img(pg, p)[s]
  BY <1>3, SlotParts
<1>7. IsChain(new, ext, n + 1)
  <2>1. \A i, j \in DOMAIN ext : ext[i] = ext[j] => i = j
    BY <1>1, <1>2, <1>5
  <2>2. ASSUME NEW i \in DOMAIN ext, i < Len(ext)
        PROVE  Img(new, ext[i])[NextCell] = ext[i + 1]
    <3>1. i \in DOMAIN ch /\ i \in Nat
      BY <1>1, <1>5, <2>2
    <3>2. CASE i = k
      BY <1>1, <1>3, <1>5, <3>2 DEF k
    <3>3. CASE i # k
      <4>1. i < k /\ i + 1 \in DOMAIN ch
        BY <1>1, <3>1, <3>3
      <4>2. ch[i] # last
        BY <1>1, <3>1, <3>3 DEF k
      <4>3. Img(new, ch[i]) = Img(pg, ch[i])
        BY <1>1, <3>1, <4>2
      <4>4. Img(pg, ch[i])[NextCell] = ch[i + 1]
        BY <3>1, <4>1 DEF Sound, IsChain, k
      <4> QED
        BY <1>5, <3>1, <4>1, <4>3, <4>4
    <3> QED
      BY <3>2, <3>3
  <2>3. Img(new, ext[Len(ext)])[NextCell] \in {NullPage, 0}
    BY <1>4, <1>5
  <2>4. Len(ext) \in 1 .. (n + 1) /\ ext[1] = 0
    BY <1>1, <1>5
  <2> QED
    BY <1>2, <1>5, <2>1, <2>2, <2>3, <2>4 DEF IsChain
<1>8. Listed(new, ext, n + 1)
  <2> SUFFICES ASSUME NEW p \in 0 .. n, NEW r \in Slots,
                      Img(new, p)[r] # Zero
               PROVE  \E j \in DOMAIN ext : ext[j] = p
    BY <1>2 DEF Listed
  <2>1. CASE p = n
    BY <1>1, <1>5, <2>1
  <2>2. CASE p \in 0 .. (n - 1)
    <3>1. PICK j \in DOMAIN ch : ch[j] = p
      BY <1>6, <2>2 DEF Sound, Listed
    <3> QED
      BY <1>1, <1>5, <3>1
  <2> QED
    BY <1>2, <2>1, <2>2
<1>9. OneEach(new, n + 1)
  <2> SUFFICES ASSUME NEW p \in 0 .. n, NEW q \in 0 .. n,
                      NEW r \in Slots, NEW u \in Slots,
                      Img(new, p)[r] # Zero, Img(new, q)[u] # Zero,
                      Img(new, p)[r][1] = Img(new, q)[u][1]
               PROVE  p = q /\ r = u
    BY <1>2 DEF OneEach
  <2>1. CASE p = n /\ q = n
    BY <1>4, <2>1
  <2>2. CASE p = n /\ q \in 0 .. (n - 1)
    <3>1. Img(new, p)[r] = e /\ Img(new, q)[u] = Img(pg, q)[u]
      BY <1>4, <1>6, <2>2
    <3>2. Img(pg, q)[u] # Zero /\ Img(pg, q)[u][1] = e[1]
      BY <3>1
    <3> QED
      BY <2>2, <3>2
  <2>3. CASE p \in 0 .. (n - 1) /\ q = n
    <3>1. Img(new, q)[u] = e /\ Img(new, p)[r] = Img(pg, p)[r]
      BY <1>4, <1>6, <2>3
    <3>2. Img(pg, p)[r] # Zero /\ Img(pg, p)[r][1] = e[1]
      BY <3>1
    <3> QED
      BY <2>3, <3>2
  <2>4. CASE p \in 0 .. (n - 1) /\ q \in 0 .. (n - 1)
    BY <1>6, <2>4 DEF Sound, OneEach
  <2> QED
    BY <1>2, <2>1, <2>2, <2>3, <2>4
<1> QED
  BY <1>7, <1>8, <1>9 DEF Sound, ext

-----------------------------------------------------------------------------
(* The invariant *)

\* Now and after a crash the catalog is a sound chain; a crash leaves the
\* same chain whatever number of pages the file had when the log was forced.
CatalogInv ==
    /\ FilesInv(Content)
    /\ \E ch : Sound(page, ch, size[Catalog])
    /\ \E ch : \A z \in sizes : Sound(Recovered, ch, z[Catalog])

LEMMA CatalogParts ==
    ASSUME CatalogInv
    PROVE  /\ size \in Sizes /\ size[Catalog] \in 1 .. MaxPages
           /\ sizes \subseteq Sizes /\ size \in sizes
           /\ Catalog \in FileIds /\ Legal(Content, Current)
           /\ Current.page = page /\ Current.size = size /\ Current.seen = {}
           /\ \A p \in 0 .. (size[Catalog] - 1) : <<Catalog, p>> \in Places(size)
           /\ \A p \in 0 .. (size[Catalog] - 1) : Img(page, p) \in Images(Content)
<1>1. /\ size \in Sizes /\ sizes \subseteq Sizes /\ size \in sizes
      /\ Catalog \in FileIds /\ page \in [Places(size) -> Images(Content)]
      /\ size[Catalog] \in Nat /\ size[Catalog] <= MaxPages
  BY ChainConfig DEF CatalogInv, FilesInv, Sizes
<1>2. size[Catalog] >= 1
  <2>1. PICK ch : IsChain(page, ch, size[Catalog])
    BY DEF CatalogInv, Sound
  <2> QED
    BY <1>1, <2>1, ChainParts
<1>3. size[Catalog] \in 1 .. MaxPages
  BY <1>1, <1>2, FilesConfig
<1>4. \A p \in 0 .. (size[Catalog] - 1) : <<Catalog, p>> \in Places(size)
  BY <1>1 DEF Places
<1>5. \A p \in 0 .. (size[Catalog] - 1) : Img(page, p) \in Images(Content)
  BY <1>1, <1>4 DEF Img
<1>6. /\ Legal(Content, Current) /\ Current.page = page
      /\ Current.size = size /\ Current.seen = {}
  BY LegalCurrent DEF CatalogInv
<1> QED
  BY <1>1, <1>3, <1>4, <1>5, <1>6

-----------------------------------------------------------------------------
(* The commands *)

LEMMA EntryIsContent ==
    ASSUME NEW t \in Types, NEW v \in Stats
    PROVE  /\ <<t, v>> \in Content /\ <<t, v>> # Zero
           /\ <<t, v>>[1] = t /\ <<t, v>>[2] = v
  BY ChainConfig DEF Content

\* No entry of a type but the one at a place, and an image of the catalog
\* that differs from the current one in this place.
OnlyAt(t, p0, s0) ==
    \A p \in 0 .. (size[Catalog] - 1), r \in Slots :
        Img(page, p)[r] # Zero /\ Img(page, p)[r][1] = t => p = p0 /\ r = s0
SameBut(pg, p0, s0) ==
    \A p \in 0 .. (size[Catalog] - 1), r \in Slots :
        ~(p = p0 /\ r = s0) => Img(pg, p)[r] = Img(page, p)[r]

\* Writing an entry into the chain, where no other entry of the type is.
LEMMA EntryWritten ==
    ASSUME CatalogInv, NEW ch, Sound(page, ch, size[Catalog]),
           NEW t \in Types, NEW v \in Stats, NEW i \in DOMAIN ch,
           NEW s \in Slots, OnlyAt(t, ch[i], s),
           NEW st, st = WriteSlot(Current, ch[i], s, t, v)
    PROVE  /\ Legal(Content, st) /\ st.size = size
           /\ Sound(st.page, ch, size[Catalog])
           /\ Img(st.page, ch[i])[s] = <<t, v>>
           /\ SameBut(st.page, ch[i], s)
<1> DEFINE n == size[Catalog]
           img == [Img(page, ch[i]) EXCEPT ![s] = <<t, v>>]
<1>1. /\ n \in Nat /\ ch[i] \in 0 .. (n - 1) /\ ch[i] \in Nat /\ ch[i] < n
      /\ Img(page, ch[i]) \in Images(Content)
  BY CatalogParts, ChainParts DEF Sound
<1>2. img \in Images(Content)
  BY <1>1, EntryIsContent, SlotParts DEF Images
<1>3. /\ img[s] = <<t, v>>
      /\ \A r \in Slots : r # s => img[r] = Img(page, ch[i])[r]
  BY <1>1, SlotParts DEF Images
<1>4. st = Put(Current, Catalog, ch[i], img)
  BY CatalogParts DEF WriteSlot, PageOf, Img
<1> HIDE DEF img
<1>5. /\ Legal(Content, st) /\ st.size = size
      /\ st.page[<<Catalog, ch[i]>>] = img
      /\ \A at \in Places(size) :
            at # <<Catalog, ch[i]>> => st.page[at] = page[at]
  BY <1>1, <1>2, <1>4, CatalogParts, LegalPut
<1>6. /\ Img(st.page, ch[i]) = img
      /\ \A p \in 0 .. (n - 1) : p # ch[i] => Img(st.page, p) = Img(page, p)
  BY <1>5, CatalogParts DEF Img
<1>7. Sound(st.page, ch, n)
  <2> DEFINE e == <<t, v>>
  <2>1. Img(st.page, ch[i]) = [Img(page, ch[i]) EXCEPT ![s] = e]
    BY <1>6 DEF img
  <2>2. \A p \in 0 .. (n - 1), r \in Slots :
           Img(page, p)[r] # Zero /\ Img(page, p)[r][1] = e[1]
           => p = ch[i] /\ r = s
    BY EntryIsContent DEF OnlyAt
  <2>3. Sound(page, ch, n)
    OBVIOUS
  <2> HIDE DEF e, n
  <2> QED
    BY <1>1, <1>6, <2>1, <2>2, <2>3, SlotWritten
<1>8. SameBut(st.page, ch[i], s)
  BY <1>3, <1>6 DEF SameBut
<1> QED
  BY <1>3, <1>5, <1>6, <1>7, <1>8

\* The chain when a type is added on a new page.
LEMMA AddedIsSound ==
    ASSUME CatalogInv, NEW ch, Sound(page, ch, size[Catalog]),
           NEW t \in Types, NEW v \in Stats,
           \A p \in 0 .. (size[Catalog] - 1), r \in Slots :
              Img(page, p)[r] # Zero => Img(page, p)[r][1] # t,
           NEW st, st = AddedAtEnd(Current, t, v)
    PROVE  /\ Legal(Content, st) /\ st.size[Catalog] = size[Catalog] + 1
           /\ Sound(st.page, Append(ch, size[Catalog]), size[Catalog] + 1)
<1> DEFINE n == size[Catalog]
           last == ch[Len(ch)]
           a == Allocate(Current, Catalog)
           blank == EmptyPage("catalog")
           b == Put(a, Catalog, n, blank)
           img == [blank EXCEPT ![0] = <<t, v>>]
           c == Put(b, Catalog, n, img)
           linked == [Img(page, last) EXCEPT ![NextCell] = n]
<1>1. /\ n \in Nat /\ n \in 1 .. MaxPages /\ Catalog \in FileIds
      /\ last \in 0 .. (n - 1) /\ last \in Nat /\ last < n /\ last # n
      /\ Img(page, last) \in Images(Content)
  BY CatalogParts, ChainParts DEF Sound
<1>2. IterPages(Current) = ch
  BY <1>1, CatalogParts, WalkIs DEF Sound
<1>3. blank \in Images(Content) /\ ZeroPage \in Images(Content)
  BY BlankPages
<1>4. img \in Images(Content)
  BY <1>3, EntryIsContent, SlotParts DEF Images
<1>5. linked \in Images(Content)
  <2>1. n \in Content
    BY <1>1 DEF Content
  <2> QED
    BY <1>1, <2>1, SlotParts DEF Images
<1> HIDE DEF n, last, a, blank, b, img, c, linked
<1>6. /\ Legal(Content, a) /\ a.size[Catalog] = n + 1
      /\ Places(a.size) = Places(size) \cup {<<Catalog, n>>}
      /\ <<Catalog, n>> \notin Places(size)
      /\ \A at \in Places(size) : a.page[at] = page[at]
  <2>1. Legal(Content, Current) /\ Current.size = size /\ Current.page = page
    BY CatalogParts
  <2>2. /\ Legal(Content, a)
        /\ a.size = [size EXCEPT ![Catalog] = size[Catalog] + 1]
        /\ Places(a.size) = Places(size) \cup {<<Catalog, size[Catalog]>>}
        /\ <<Catalog, size[Catalog]>> \notin Places(size)
        /\ \A at \in Places(size) : a.page[at] = page[at]
    BY <1>1, <1>3, <2>1, LegalAllocate DEF a
  <2>3. a.size[Catalog] = size[Catalog] + 1
    BY <1>1, <2>2, CatalogParts DEF Sizes
  <2> QED
    BY <2>2, <2>3 DEF n
<1>7. /\ Legal(Content, b) /\ b.size = a.size
      /\ b.page[<<Catalog, n>>] = blank
      /\ \A at \in Places(size) : b.page[at] = page[at]
  BY <1>1, <1>3, <1>6, LegalPut DEF b
<1>8. st = Put(c, Catalog, last, [PageOf(c, last) EXCEPT ![NextCell] = n])
  <2>1. NewPage(Current, Catalog) = n
    BY CatalogParts DEF NewPage, n
  <2>2. WriteSlot(b, n, 0, t, v) = c
    BY <1>7 DEF WriteSlot, PageOf, c, img
  <2>3. b = Put(Allocate(Current, Catalog), Catalog, NewPage(Current, Catalog),
                EmptyPage("catalog"))
    BY <2>1 DEF b, a, blank
  <2>4. st = SetNext(WriteSlot(b, n, 0, t, v), last, n)
    BY <1>2, <2>1, <2>3 DEF AddedAtEnd, last
  <2> QED
    BY <2>2, <2>4 DEF SetNext
<1>9. /\ Legal(Content, c) /\ c.size = a.size
      /\ c.page[<<Catalog, n>>] = img
      /\ \A at \in Places(size) : c.page[at] = page[at]
  BY <1>1, <1>4, <1>6, <1>7, LegalPut DEF c
<1>10. \A p \in 0 .. (n - 1) : <<Catalog, p>> \in Places(size)
  BY CatalogParts DEF n
<1>11. st = Put(c, Catalog, last, linked)
  BY <1>1, <1>8, <1>9, <1>10 DEF PageOf, Img, linked
<1>12. /\ Legal(Content, st) /\ st.size = a.size
       /\ st.page[<<Catalog, last>>] = linked
       /\ \A at \in Places(a.size) :
             at # <<Catalog, last>> => st.page[at] = c.page[at]
  BY <1>1, <1>5, <1>6, <1>9, <1>11, LegalPut
<1>13. /\ Img(st.page, last) = linked /\ Img(st.page, n) = img
       /\ \A p \in 0 .. (n - 1) : p # last => Img(st.page, p) = Img(page, p)
  BY <1>1, <1>6, <1>9, <1>10, <1>12 DEF Img
<1>14. Sound(st.page, Append(ch, n), n + 1)
  <2>1. \A p \in 0 .. (n - 1), r \in Slots :
           Img(page, p)[r] # Zero => Img(page, p)[r][1] # <<t, v>>[1]
    BY DEF n
  <2>2. Sound(page, ch, n)
    BY DEF n
  <2> QED
    BY <1>1, <1>13, <2>1, <2>2, PageLinked DEF linked, img, blank, last
<1> QED
  BY <1>6, <1>12, <1>14 DEF n

\* What a command writes is a sound chain, and so is what a crash after it
\* leaves.
LEMMA CommandKeeps ==
    ASSUME CatalogInv, NEW x \in Tx, NEW st, Legal(Content, st),
           WriteAll(x, st), NEW ch, Sound(st.page, ch, st.size[Catalog])
    PROVE  CatalogInv'
<1>1. /\ FilesInv(Content)' /\ page' = st.page /\ size' = st.size
      /\ sizes' = sizes \cup st.seen
      /\ Places(size) \subseteq Places(size')
      /\ \A at \in Places(size) : Recovered'[at] = Recovered[at]
      /\ \A at \in Places(size') :
            at \notin Places(size) => Recovered'[at] = ZeroPage
  BY BlankPages, WriteAllFiles DEF CatalogInv
<1>2. \E k : Sound(page', k, size'[Catalog])
  BY <1>1
<1>3. \E k : \A z \in sizes' : Sound(Recovered', k, z[Catalog])
  <2>1. PICK k : \A z \in sizes : Sound(Recovered, k, z[Catalog])
    BY DEF CatalogInv
  <2>2. /\ size \in sizes /\ size[Catalog] \in Nat
        /\ Catalog \in FileIds /\ size' \in Sizes /\ sizes \subseteq Sizes
        /\ \A z \in sizes : z[Catalog] \in Nat /\ z[Catalog] <= size[Catalog]
        /\ \A z \in st.seen : /\ z[Catalog] \in Nat
                              /\ size[Catalog] <= z[Catalog]
                              /\ z[Catalog] <= size'[Catalog]
        /\ size'[Catalog] \in Nat
    BY <1>1, CatalogParts DEF CatalogInv, FilesInv, Legal, Sizes
  <2>3. ASSUME NEW p \in Nat, p < size[Catalog]
        PROVE  Img(Recovered', p) = Img(Recovered, p)
    BY <1>1, <2>2, <2>3, CatalogParts DEF Img
  <2>4. ASSUME NEW p \in Nat, p >= size[Catalog], p < size'[Catalog]
        PROVE  Img(Recovered', p) = ZeroPage
    <3>1. <<Catalog, p>> \in Places(size') /\ <<Catalog, p>> \notin Places(size)
      BY <2>2, <2>4 DEF Places
    <3> QED
      BY <1>1, <3>1 DEF Img
  <2>5. ASSUME NEW z \in sizes PROVE Sound(Recovered', k, z[Catalog])
    <3> DEFINE n == z[Catalog]
    <3>1. n \in Nat /\ n <= n /\ Sound(Recovered, k, n)
      BY <2>1, <2>2
    <3>2. /\ \A p \in 0 .. (n - 1) : Img(Recovered', p) = Img(Recovered, p)
          /\ \A p \in 0 .. (n - 1) : p >= n => Img(Recovered', p) = ZeroPage
      BY <2>2, <2>3, <3>1
    <3> HIDE DEF n
    <3>3. Sound(Recovered', k, n)
      BY <3>1, <3>2, SoundGrows
    <3> QED
      BY <3>3 DEF n
  <2>6. ASSUME NEW z \in st.seen PROVE Sound(Recovered', k, z[Catalog])
    <3> DEFINE n == size[Catalog]
               m == z[Catalog]
    <3>1. n \in Nat /\ m \in Nat /\ n <= m /\ Sound(Recovered, k, n)
      BY <2>1, <2>2
    <3>2. /\ \A p \in 0 .. (n - 1) : Img(Recovered', p) = Img(Recovered, p)
          /\ \A p \in 0 .. (m - 1) : p >= n => Img(Recovered', p) = ZeroPage
      BY <2>2, <2>3, <2>4, <3>1
    <3> HIDE DEF n, m
    <3>3. Sound(Recovered', k, m)
      BY <3>1, <3>2, SoundGrows
    <3> QED
      BY <3>3 DEF m
  <2> QED
    BY <1>1, <2>5, <2>6
<1> QED
  BY <1>1, <1>2, <1>3 DEF CatalogInv

LEMMA AddTypeKeeps ==
    ASSUME CatalogInv, NEW x \in Tx, NEW t \in Types, NEW v \in Stats,
           AddType(x, t, v)
    PROVE  CatalogInv'
<1>1. PICK ch : Sound(page, ch, size[Catalog])
  BY DEF CatalogInv
<1> DEFINE at == FirstOf(FreeEntries(Current))
           n == size[Catalog]
<1>2. /\ n \in 1 .. MaxPages /\ n \in Nat /\ Current.page = page
      /\ Current.size = size /\ IsChain(page, ch, n) /\ DOMAIN ch \subseteq Nat
  BY <1>1, CatalogParts, ChainParts DEF Sound
<1>3. IterPages(Current) = ch
  BY <1>2, WalkIs
<1>4. EntryPlaces(page, ch, t) = {}
  BY <1>2, EntriesAre DEF AddType, HasType
<1>5. \A p \in 0 .. (n - 1), r \in Slots :
         Img(page, p)[r] # Zero => Img(page, p)[r][1] # t
  BY <1>1, <1>2, <1>4, OnePlace
<1>6. CASE FreeEntries(Current) = {}
  <2> DEFINE st == AddedAtEnd(Current, t, v)
  <2>1. WriteAll(x, st)
    BY <1>6 DEF AddType
  <2>2. /\ Legal(Content, st) /\ st.size[Catalog] = n + 1
        /\ Sound(st.page, Append(ch, n), n + 1)
    BY <1>1, <1>5, AddedIsSound
  <2> HIDE DEF st
  <2> QED
    BY <2>1, <2>2, CommandKeeps
<1>7. CASE FreeEntries(Current) # {}
  <2>1. at \in (DOMAIN ch) \X Slots
    <3>1. FreeEntries(Current) \in SUBSET ((DOMAIN ch) \X Slots)
      BY <1>3 DEF FreeEntries
    <3> QED
      BY <1>2, <1>7, <3>1, FirstOfIn
  <2> DEFINE st == WriteSlot(Current, ch[at[1]], at[2], t, v)
  <2>2. WriteAll(x, st)
    BY <1>3, <1>7 DEF AddType
  <2>3. Legal(Content, st) /\ st.size = size /\ Sound(st.page, ch, n)
    <3>1. at[1] \in DOMAIN ch /\ at[2] \in Slots
      BY <2>1
    <3>2. OnlyAt(t, ch[at[1]], at[2])
      BY <1>5 DEF OnlyAt
    <3> HIDE DEF at
    <3> QED
      BY <1>1, <3>1, <3>2, EntryWritten
  <2> HIDE DEF st
  <2> QED
    BY <2>2, <2>3, CommandKeeps
<1> QED
  BY <1>6, <1>7

\* What update_type writes, and where.
LEMMA UpdateWrites ==
    ASSUME CatalogInv, NEW ch, Sound(page, ch, size[Catalog]),
           NEW t \in Types, NEW v \in Stats, HasType(Current, t),
           NEW at, at = FirstOf(EntriesOf(Current, t)),
           NEW st, st = WriteSlot(Current, IterPages(Current)[at[1]], at[2], t, v)
    PROVE  /\ at \in EntryPlaces(page, ch, t)
           /\ Legal(Content, st) /\ st.size = size
           /\ Sound(st.page, ch, size[Catalog])
           /\ Img(st.page, ch[at[1]])[at[2]] = <<t, v>>
           /\ SameBut(st.page, ch[at[1]], at[2])
<1> DEFINE n == size[Catalog]
           places == EntryPlaces(page, ch, t)
<1>1. /\ n \in 1 .. MaxPages /\ n \in Nat /\ Current.page = page
      /\ IsChain(page, ch, n) /\ DOMAIN ch \subseteq Nat
  BY CatalogParts, ChainParts DEF Sound
<1>2. IterPages(Current) = ch /\ EntriesOf(Current, t) = places
  BY <1>1, WalkIs, EntriesAre
<1>3. places \in SUBSET ((DOMAIN ch) \X Slots) /\ places # {}
  BY <1>2 DEF EntryPlaces, HasType
<1>4. at \in places
  BY <1>1, <1>2, <1>3, FirstOfIn
<1>5. at[1] \in DOMAIN ch /\ at[2] \in Slots /\ at = <<at[1], at[2]>>
  BY <1>3, <1>4
<1>6. OnlyAt(t, ch[at[1]], at[2])
  <2> SUFFICES ASSUME NEW p \in 0 .. (n - 1), NEW r \in Slots,
                      Img(page, p)[r] # Zero, Img(page, p)[r][1] = t
               PROVE  p = ch[at[1]] /\ r = at[2]
    BY DEF OnlyAt
  <2>1. PICK j \in DOMAIN ch : ch[j] = p
    BY DEF Sound, Listed
  <2>2. <<j, r>> \in places
    BY <2>1 DEF EntryPlaces
  <2>3. <<j, r>> = at
    BY <1>1, <1>4, <2>2, OnePlace
  <2> QED
    BY <1>5, <2>1, <2>3
<1>7. st = WriteSlot(Current, ch[at[1]], at[2], t, v)
  BY <1>2
<1> QED
  BY <1>4, <1>5, <1>6, <1>7, EntryWritten

LEMMA UpdateTypeKeeps ==
    ASSUME CatalogInv, NEW x \in Tx, NEW t \in Types, NEW v \in Stats,
           UpdateType(x, t, v)
    PROVE  CatalogInv'
<1>1. PICK ch : Sound(page, ch, size[Catalog])
  BY DEF CatalogInv
<1> DEFINE at == FirstOf(EntriesOf(Current, t))
           st == WriteSlot(Current, IterPages(Current)[at[1]], at[2], t, v)
<1>2. HasType(Current, t) /\ WriteAll(x, st)
  BY DEF UpdateType
<1> HIDE DEF at
<1>3. /\ Legal(Content, st) /\ st.size = size
      /\ Sound(st.page, ch, size[Catalog])
  BY <1>1, <1>2, UpdateWrites DEF at
<1> HIDE DEF st
<1> QED
  BY <1>2, <1>3, CommandKeeps

-----------------------------------------------------------------------------
(* The invariant holds *)

LEMMA CatalogStart ==
    ASSUME Init PROVE CatalogInv
<1>1. PICK img \in FirstPages : page = [at \in {<<Catalog, 0>>} |-> img]
  BY DEF Init
<1>2. /\ size = [f \in FileIds |-> IF f = Catalog THEN 1 ELSE 0]
      /\ sizes = {size} /\ undo = << >> /\ Catalog \in FileIds
      /\ size \in Sizes /\ size[Catalog] = 1
  BY ChainConfig DEF Init, Sizes
<1>3. /\ img \in Images(Content) /\ img[NextCell] \in {NullPage, 0}
      /\ \A s \in Slots : img[s] = Zero
  BY BlankPages, ChainConfig
<1>4. Places(size) = {<<Catalog, 0>>}
  <2>1. \A at \in Places(size) : at = <<Catalog, 0>>
    <3> SUFFICES ASSUME NEW at \in Places(size) PROVE at = <<Catalog, 0>>
      OBVIOUS
    <3>1. /\ at = <<at[1], at[2]>> /\ at[1] \in FileIds /\ at[2] \in Nat
          /\ at[2] < size[at[1]]
      BY DEF Places
    <3>2. at[1] = Catalog /\ at[2] = 0
      BY <1>2, <3>1
    <3> QED
      BY <3>1, <3>2
  <2>2. <<Catalog, 0>> \in Places(size)
    BY <1>2 DEF Places
  <2> QED
    BY <2>1, <2>2
<1>5. page \in [Places(size) -> Images(Content)]
  BY <1>1, <1>3, <1>4
<1>6. UndoIn(Content, Places(size), undo)
  BY <1>2 DEF UndoIn
<1>7. FilesInv(Content)
  <2>1. \A z \in sizes, f \in FileIds : z[f] <= size[f] /\ size[f] <= MaxPages
    BY <1>2, FilesConfig
  <2>2. ASSUME NEW z \in sizes, NEW at \in Places(size)
        PROVE  ~(at[2] >= z[at[1]])
    BY <1>2, <1>4
  <2> QED
    BY <1>2, <1>5, <1>6, <2>1, <2>2 DEF FilesInv
<1>8. Recovered = page
  <2>1. Recovered = [at \in Places(size) |-> Recovered[at]]
        /\ page = [at \in Places(size) |-> page[at]]
    BY <1>5, <1>7, FilesRecovered
  <2>2. ASSUME NEW at \in Places(size) PROVE Recovered[at] = page[at]
    <3>1. Recovered[at] \in Images(Content) /\ page[at] \in Images(Content)
      BY <1>5, <1>7, FilesRecovered
    <3>2. \A c \in Cells : Recovered[at][c] = page[at][c]
      BY <1>2, <1>7, FilesRecovered DEF KeptIn
    <3> QED
      BY <3>1, <3>2, SameImage
  <2> QED
    BY <2>1, <2>2
<1> DEFINE ch == <<0>>
<1>9. Sound(page, ch, 1)
  <2>1. Img(page, 0) = img
    BY <1>1 DEF Img
  <2>2. IsChain(page, ch, 1)
    <3>1. ch \in Seq(0 .. 0) /\ Len(ch) = 1 /\ DOMAIN ch = {1} /\ ch[1] = 0
      OBVIOUS
    <3> HIDE DEF ch
    <3> QED
      BY <1>3, <2>1, <3>1 DEF IsChain
  <2>3. Listed(page, ch, 1) /\ OneEach(page, 1)
    <3>1. \A p \in 0 .. (1 - 1), s \in Slots : Img(page, p)[s] = Zero
      BY <1>3, <2>1
    <3> QED
      BY <3>1 DEF Listed, OneEach
  <2> QED
    BY <2>2, <2>3 DEF Sound
<1> HIDE DEF ch
<1> QED
  BY <1>2, <1>7, <1>8, <1>9 DEF CatalogInv

LEMMA CatalogStep ==
    ASSUME \A x, y \in Tx : x = y, CatalogInv, [Next]_files
    PROVE  CatalogInv'
<1>1. ASSUME NEW x \in Tx, NEW t \in Types, NEW v \in Stats,
             AddType(x, t, v) \/ UpdateType(x, t, v)
      PROVE  CatalogInv'
  BY <1>1, AddTypeKeeps, UpdateTypeKeeps
<1>2. ASSUME NEW x \in Tx, CommitFiles(x) PROVE CatalogInv'
  <2>1. /\ FilesInv(Content)' /\ page' = page /\ size' = size
        /\ sizes' = {size} /\ Recovered' = page'
    BY <1>2, CommitFilesOK DEF CatalogInv
  <2> QED
    BY <2>1 DEF CatalogInv
<1>3. ASSUME CrashFiles PROVE CatalogInv'
  <2>1. /\ FilesInv(Content)' /\ size' \in sizes /\ sizes' = {size'}
        /\ Recovered' = page'
        /\ \A at \in Places(size') : page'[at] = Recovered[at]
    BY <1>3, CrashFilesOK DEF CatalogInv
  <2>2. PICK ch : Sound(Recovered, ch, size'[Catalog])
    BY <2>1 DEF CatalogInv
  <2> DEFINE n == size'[Catalog]
  <2>3. n \in Nat /\ Catalog \in FileIds
    BY <2>1, CatalogParts DEF Sizes
  <2>4. \A p \in 0 .. (n - 1) : Img(page', p) = Img(Recovered, p)
    <3>1. \A p \in 0 .. (n - 1) : <<Catalog, p>> \in Places(size')
      BY <2>3 DEF Places
    <3> QED
      BY <2>1, <3>1 DEF Img
  <2>5. Sound(page', ch, n)
    <3>1. /\ n <= n /\ Sound(Recovered, ch, n)
          /\ \A p \in 0 .. (n - 1) : p >= n => Img(page', p) = ZeroPage
      BY <2>2, <2>3
    <3> HIDE DEF n
    <3> QED
      BY <2>3, <2>4, <3>1, SoundGrows
  <2> QED
    BY <2>1, <2>5 DEF CatalogInv
<1>4. CASE UNCHANGED files
  <2>1. page' = page /\ size' = size /\ sizes' = sizes /\ undo' = undo
    BY <1>4 DEF files
  <2>2. Recovered' = Recovered
    BY <2>1, RecoveredIs
  <2>3. FilesInv(Content)'
    BY <2>1, <2>2 DEF CatalogInv, FilesInv
  <2> QED
    BY <2>1, <2>2, <2>3 DEF CatalogInv
<1> QED
  BY <1>1, <1>2, <1>3, <1>4 DEF Next

\* As long as one transaction is open at a time, the pages of the catalog
\* form a chain that every crash leaves sound: page 0 first, no page twice,
\* its end marked by NULL_PAGE or by the zero of a page that recovery made,
\* every entry on a page of it and no type twice (add_type, update_type,
\* _iter_pages, and the crash between allocate_page and the link).
THEOREM CatalogIsSound ==
    ASSUME \A x, y \in Tx : x = y PROVE Spec => []CatalogInv
<1>1. Init => CatalogInv
  BY CatalogStart
<1>2. CatalogInv /\ [Next]_files => CatalogInv'
  BY CatalogStep
<1> QED
  BY <1>1, <1>2, PTL DEF Spec

\* No entry is hidden and no type found twice, now and after a crash
\* (_iter_pages, _scan_for_type), for catalogs of any length, any number of
\* types and whatever page 0 is after its own recovery.
THEOREM EntriesAreReachable ==
    ASSUME \A x, y \in Tx : x = y PROVE Spec => []EntriesReachable
<1>1. CatalogInv => EntriesReachable
  <2> SUFFICES ASSUME CatalogInv, NEW st \in {Current, AfterCrash}
               PROVE  /\ \A p \in 0 .. (st.size[Catalog] - 1), s \in Slots :
                            PageOf(st, p)[s] # Zero => p \in Range(IterPages(st))
                      /\ \A t \in Types : Cardinality(EntriesOf(st, t)) <= 1
    BY DEF EntriesReachable, Catalogs
  <2>1. /\ size[Catalog] \in 1 .. MaxPages /\ size \in sizes
        /\ Current.page = page /\ Current.size = size
        /\ AfterCrash.page = Recovered /\ AfterCrash.size = size
    BY CatalogParts DEF AfterCrash, Current
  <2>2. PICK ch : Sound(st.page, ch, size[Catalog])
    BY <2>1 DEF CatalogInv
  <2>3. st.size = size
    BY <2>1
  <2> QED
    BY <2>1, <2>2, <2>3, SoundIsReachable
<1> QED
  BY <1>1, CatalogIsSound, PTL

\* What an update makes of the answers of get_type.
Hit(x, t, v) ==
    \E new \in {Current'} :
       /\ Get(new, t) = v
       /\ \A u \in Types \ {t} :
             /\ HasType(new, u) = HasType(Current, u)
             /\ HasType(Current, u) => Get(new, u) = Get(Current, u)

LEMMA UpdateHits ==
    ASSUME CatalogInv, NEW x \in Tx, NEW t \in Types, NEW v \in Stats,
           UpdateType(x, t, v)
    PROVE  Hit(x, t, v)
<1>1. PICK ch : Sound(page, ch, size[Catalog])
  BY DEF CatalogInv
<1> SUFFICES ASSUME NEW new, new = Current'
             PROVE  /\ Get(new, t) = v
                    /\ \A u \in Types \ {t} :
                          /\ HasType(new, u) = HasType(Current, u)
                          /\ HasType(Current, u) => Get(new, u) = Get(Current, u)
  BY DEF Hit
<1> DEFINE at == FirstOf(EntriesOf(Current, t))
           st == WriteSlot(Current, IterPages(Current)[at[1]], at[2], t, v)
           n == size[Catalog]
           Cell(pg, b) == Img(pg, ch[b[1]])[b[2]]
<1>2. HasType(Current, t) /\ WriteAll(x, st)
  BY DEF UpdateType
<1> HIDE DEF at
<1>3. /\ at \in EntryPlaces(page, ch, t) /\ Sound(st.page, ch, n)
      /\ Img(st.page, ch[at[1]])[at[2]] = <<t, v>>
      /\ SameBut(st.page, ch[at[1]], at[2])
  <2>1. at = FirstOf(EntriesOf(Current, t))
    BY DEF at
  <2> QED
    BY <1>1, <1>2, <2>1, UpdateWrites
<1>4. new.page = st.page /\ Current.page = page
  <2>1. page' = st.page
    BY <1>2 DEF WriteAll
  <2> QED
    BY <2>1 DEF Current
<1> HIDE DEF st
<1>5. /\ n \in 1 .. MaxPages /\ n \in Nat
      /\ IsChain(page, ch, n) /\ IsChain(new.page, ch, n)
      /\ DOMAIN ch \subseteq Nat /\ \A i \in DOMAIN ch : ch[i] \in 0 .. (n - 1)
      /\ \A i, j \in DOMAIN ch : ch[i] = ch[j] => i = j
  BY <1>1, <1>3, <1>4, CatalogParts, ChainParts DEF Sound, IsChain
<1> HIDE DEF n
<1>6. /\ IterPages(Current) = ch /\ IterPages(new) = ch
      /\ \A u : EntriesOf(Current, u) = EntryPlaces(page, ch, u)
      /\ \A u : EntriesOf(new, u) = EntryPlaces(new.page, ch, u)
  BY <1>4, <1>5, WalkIs, EntriesAre
<1>7. /\ at \in (DOMAIN ch) \X Slots /\ Cell(new.page, at) = <<t, v>>
      /\ \A b \in (DOMAIN ch) \X Slots :
            b # at => Cell(new.page, b) = Cell(page, b)
  <2>1. at \in (DOMAIN ch) \X Slots
    BY <1>3 DEF EntryPlaces
  <2>2. ASSUME NEW b \in (DOMAIN ch) \X Slots, b # at
        PROVE  Cell(new.page, b) = Cell(page, b)
    <3>1. /\ b = <<b[1], b[2]>> /\ at = <<at[1], at[2]>>
          /\ b[1] \in DOMAIN ch /\ b[2] \in Slots /\ at[1] \in DOMAIN ch
      BY <2>1
    <3>2. ~(ch[b[1]] = ch[at[1]] /\ b[2] = at[2])
      BY <1>5, <2>2, <3>1
    <3> QED
      BY <1>3, <1>4, <1>5, <3>1, <3>2 DEF SameBut, n
  <2> QED
    BY <1>3, <1>4, <2>1, <2>2
<1>8. \A s, u : /\ Get(Current, u)
                     = Cell(page, FirstOf(EntryPlaces(page, ch, u)))[2]
                /\ Get(new, u)
                     = Cell(new.page, FirstOf(EntryPlaces(new.page, ch, u)))[2]
  BY <1>4, <1>6 DEF Get, PageOf, Img
<1>9. \A u, pg : EntryPlaces(pg, ch, u)
         = {b \in (DOMAIN ch) \X Slots : Cell(pg, b) # Zero /\ Cell(pg, b)[1] = u}
  BY DEF EntryPlaces
<1>10. \A u, pg : EntryPlaces(pg, ch, u) # {}
          => FirstOf(EntryPlaces(pg, ch, u)) \in EntryPlaces(pg, ch, u)
  <2> SUFFICES ASSUME NEW u, NEW pg, EntryPlaces(pg, ch, u) # {}
               PROVE  FirstOf(EntryPlaces(pg, ch, u)) \in EntryPlaces(pg, ch, u)
    OBVIOUS
  <2>1. EntryPlaces(pg, ch, u) \in SUBSET ((DOMAIN ch) \X Slots)
    BY DEF EntryPlaces
  <2> QED
    BY <1>5, <2>1, FirstOfIn
<1> HIDE DEF Cell
<1>11. <<t, v>> # Zero /\ <<t, v>>[1] = t /\ <<t, v>>[2] = v
  BY EntryIsContent
<1>12. Get(new, t) = v
  <2> DEFINE E == EntryPlaces(new.page, ch, t)
  <2>1. at \in E
    BY <1>7, <1>9, <1>11
  <2>2. FirstOf(E) \in E
    BY <1>10, <2>1
  <2>3. FirstOf(E) = at
    <3>1. Sound(new.page, ch, n)
      BY <1>3, <1>4
    <3> QED
      BY <1>5, <2>1, <2>2, <3>1, OnePlace
  <2> QED
    BY <1>7, <1>8, <1>11, <2>3
<1>13. ASSUME NEW u \in Types \ {t}
       PROVE  /\ HasType(new, u) = HasType(Current, u)
              /\ HasType(Current, u) => Get(new, u) = Get(Current, u)
  <2> DEFINE E == EntryPlaces(page, ch, u)
  <2>1. Cell(page, at)[1] = t
    BY <1>3, <1>9
  <2>2. at \notin EntryPlaces(new.page, ch, u) /\ at \notin E
    BY <1>7, <1>9, <1>11, <1>13, <2>1
  <2>3. \A b \in (DOMAIN ch) \X Slots :
           b \in EntryPlaces(new.page, ch, u) <=> b \in E
    BY <1>7, <1>9, <2>2
  <2>4. EntryPlaces(new.page, ch, u) = E
    BY <1>9, <2>3
  <2>5. HasType(new, u) = HasType(Current, u)
    BY <1>6, <2>4 DEF HasType
  <2>6. ASSUME HasType(Current, u) PROVE Get(new, u) = Get(Current, u)
    <3>1. FirstOf(E) \in E
      BY <1>6, <1>10, <2>6 DEF HasType
    <3>2. FirstOf(E) \in (DOMAIN ch) \X Slots /\ FirstOf(E) # at
      BY <1>9, <2>2, <3>1
    <3> QED
      BY <1>7, <1>8, <2>4, <3>2
  <2> QED
    BY <2>5, <2>6
<1> QED
  BY <1>12, <1>13

\* An update of a type's entry is what get_type answers for the type from
\* then on, and the answers for all others stay the same: update_type never
\* writes over another entry, wherever the walk found the page
\* (update_type, _scan_for_type).
THEOREM UpdatesHitTheirEntry ==
    ASSUME \A x, y \in Tx : x = y PROVE Spec => UpdatesHit
<1>1. CatalogInv /\ [Next]_files
      => [\A x \in Tx, t \in Types, v \in Stats : UpdateType(x, t, v) =>
            \E new \in {Current'} :
               /\ Get(new, t) = v
               /\ \A u \in Types \ {t} :
                     /\ HasType(new, u) = HasType(Current, u)
                     /\ HasType(Current, u) => Get(new, u) = Get(Current, u)]_files
  BY UpdateHits DEF Hit
<1> QED
  BY <1>1, CatalogIsSound, PTL DEF Spec, UpdatesHit
================================================================================
