-------------------------- MODULE QuerySessionProofs --------------------------
(***************************************************************************)
(* log.csv explains the data, for any number of names, keys and            *)
(* transactions: SessionInv is inductive and implies what is claimed.      *)
(***************************************************************************)
EXTENDS QuerySessionInv, TLAPS

-----------------------------------------------------------------------------
(* The reader of log.csv *)

Audit == [kept : SUBSET Things, ops : [Names -> Ops]]

\* A refused line, or one that changes no record, tells the reader nothing.
LEMMA HeardNothing ==
    ASSUME NEW a \in Audit, NEW line \in Lines,
           ~line.ok \/ line.what \notin NamedLines
    PROVE  Heard(a, line) = a
  BY DEF Heard, NamedLines, Lines

\* Every line keeps the types.
LEMMA HeardTyped ==
    ASSUME NEW a \in Audit, NEW line \in Lines,
           line.what \in {"begin", "commit"} => line.name \in Names
    PROVE  Heard(a, line) \in Audit
<1>1. CASE ~line.ok \/ line.what \notin NamedLines
  BY <1>1, HeardNothing
<1>2. CASE line.ok /\ line.what = "begin"
  BY <1>2 DEF Heard, Audit, NoOps, Ops, NamedLines
<1>3. CASE line.ok /\ line.what \in {"in", "out"} /\ line.name # NoTx
  BY <1>3 DEF Heard, Audit, Ops, Lines, NamedLines
<1>4. CASE line.ok /\ line.what \in {"in", "out"} /\ line.name = NoTx
  BY <1>4 DEF Heard, Audit, Lines
<1>5. CASE line.ok /\ line.what = "commit"
  BY <1>5 DEF Heard, Audit, NoOps, Ops, NamedLines, Applied
<1> QED
  BY <1>1, <1>2, <1>3, <1>4, <1>5 DEF NamedLines

-----------------------------------------------------------------------------
(* Steps that leave the records alone *)

LEMMA NoLineSays == NoLine \in Lines /\ ~NoLine.ok /\ NoLine.what = "none"
  BY DEF NoLine, Line, Lines, Things

LEMMA Quiet ==
    ASSUME LoggedInv, SessionTypes', AnswerInv',
           UNCHANGED <<records, openTx, doubt>>, Heeded' = Heeded,
           pc' = "down" <=> pc = "down"
    PROVE  LoggedInv'
<1>1. KnownInv'
  BY DEF LoggedInv, KnownInv, Mine, Open, records
<1>2. ApartInv' /\ RelationInv'
  BY DEF LoggedInv, ApartInv, RelationInv, records
<1> QED
  BY <1>1, <1>2 DEF LoggedInv

\* Before a command the reader has heard everything.
LEMMA Heedful ==
    ASSUME LoggedInv, pc # "answer"
    PROVE  answer = NoLine /\ audit \in Audit /\ Heeded = audit
  BY NoLineSays, HeardNothing
     DEF LoggedInv, AnswerInv, SessionTypes, Audit, Heeded

LEMMA Refused ==
    ASSUME LoggedInv, pc = "input",
           UNCHANGED <<records, openTx, doubt, unlogged, audit>>,
           NEW what \in NamedLines \cup {"search", "other"},
           NEW n \in Names \cup {NoTx}, NEW t \in Things, NEW ok \in BOOLEAN,
           Say(what, n, t, ok),
           what \in NamedLines => n \in Names /\ ~ok,
           what = "search" => (ok <=> Found(t))
    PROVE  LoggedInv'
<1> DEFINE line == Line(what, n, t, ok)
<1>1. /\ line \in Lines /\ answer' = line /\ pc' = "answer"
      /\ line.what = what /\ line.name = n /\ line.ok = ok /\ line.thing = t
  BY DEF Say, Line, Lines
<1>2. audit \in Audit /\ Heeded = audit
  BY Heedful
<1>3. Heard(audit, line) = audit
  BY <1>1, <1>2, HeardNothing
<1>4. SessionTypes'
  BY <1>1 DEF LoggedInv, SessionTypes, records
<1>5. AnswerInv'
  BY <1>1 DEF AnswerInv, NamedLines, Found, records
<1>6. Heeded' = Heeded
  BY <1>1, <1>2, <1>3 DEF Heeded
<1> QED
  BY <1>1, <1>4, <1>5, <1>6, Quiet

-----------------------------------------------------------------------------
(* Steps that change them *)

\* One successful command: create type, create record, delete record.
LEMMA Changed ==
    ASSUME LoggedInv, pc = "input", UNCHANGED <<openTx, doubt, unlogged, audit>>,
           NEW n \in Names, n \in Open, NEW k \in Things,
           NEW w \in {"in", "out"}, Say(w, n, k, TRUE),
           Undisputed(XidOf(n), {k, Relation}),
           touched' = [touched EXCEPT ![XidOf(n)] =
                          touched[XidOf(n)] \cup {k}],
           kept' = kept,
           now' = IF w = "in" THEN now \cup {k} ELSE now \ {k},
           IF k = Relation THEN w = "in" ELSE Relation \in now
    PROVE  LoggedInv'
<1> DEFINE x == openTx[n]
           line == Line(w, n, k, TRUE)
           h == Heard(audit, line)
<1>1. audit \in Audit /\ Heeded = audit
  BY Heedful
<1>2. x \in Tx /\ XidOf(n) = x
  BY DEF Open, XidOf, LoggedInv, SessionTypes
<1>3. /\ line \in Lines /\ answer' = line /\ pc' = "answer"
      /\ line.what = w /\ line.name = n
  BY DEF Say, Line, Lines, NamedLines
<1>4. /\ h \in Audit /\ h.kept = audit.kept
      /\ h.ops[n] \in Ops /\ h.ops[n][k] = w
      /\ \A s \in Things \ {k} : h.ops[n][s] = audit.ops[n][s]
      /\ \A m \in Names \ {n} : h.ops[m] = audit.ops[m]
  BY <1>1, SessionConfig DEF Heard, Line, Audit, Ops
<1>5. Heeded' = h
  BY <1>3 DEF Heeded
<1>6. SessionTypes'
  BY <1>2, <1>3 DEF LoggedInv, SessionTypes, Things
<1>7. AnswerInv'
  BY <1>3 DEF AnswerInv, NamedLines
<1>8. /\ touched'[x] = touched[x] \cup {k}
      /\ \A y \in Tx \ {x} : /\ touched'[y] = touched[y]
                             /\ k \notin touched[y] /\ Relation \notin touched[y]
  BY <1>2 DEF LoggedInv, SessionTypes, Undisputed
<1>9. KnownInv'
  <2>1. kept' = Heeded'.kept
    BY <1>1, <1>4, <1>5 DEF LoggedInv, KnownInv
  <2>2. ASSUME NEW m \in Open PROVE Mine(openTx[m], h.ops[m])'
    <3>1. Mine(openTx[m], audit.ops[m])
      BY <1>1 DEF LoggedInv, KnownInv
    <3>2. CASE m = n
      BY <1>4, <1>8, <3>1, <3>2 DEF Mine
    <3>3. CASE m # n
      <4>1. openTx[m] \in Tx \ {x}
        BY <3>3 DEF LoggedInv, SessionTypes, KnownInv, Open
      <4>2. m \in Names \ {n}
        BY <3>3 DEF Open
      <4> QED
        BY <1>4, <1>8, <3>1, <4>1, <4>2 DEF Mine
    <3> QED
      BY <3>2, <3>3
  <2>3. ASSUME NEW y \in Tx, \A m \in Names : openTx[m] # y
        PROVE  Mine(y, doubt[y])'
    <3>1. Mine(y, doubt[y]) /\ y # x
      BY <2>3 DEF LoggedInv, KnownInv
    <3> QED
      BY <1>8, <3>1 DEF Mine
  <2> QED
    BY <1>3, <1>5, <2>1, <2>2, <2>3 DEF LoggedInv, KnownInv, Open, Mine
<1>10. ApartInv'
  BY <1>2, <1>8 DEF LoggedInv, ApartInv
<1>11. RelationInv'
  <2>1. Relation \in now'
    BY DEF Things
  <2>2. Relation \in kept \cup touched'[x]
    <3>1. CASE k = Relation
      BY <1>8, <3>1
    <3>2. CASE k # Relation /\ Relation \notin touched[x]
      <4>1. \A y \in Tx : Relation \notin touched[y]
        BY <1>8, <3>2
      <4> QED
        BY <3>2, <4>1 DEF LoggedInv, ApartInv, Things
    <3> QED
      BY <1>8, <3>1, <3>2
  <2> QED
    BY <1>2, <1>8, <2>1, <2>2 DEF LoggedInv, RelationInv
<1> QED
  BY <1>6, <1>7, <1>9, <1>10, <1>11 DEF LoggedInv

\* A transaction's commit keeps what its reported operations amount to.
LEMMA KeptByCommit ==
    ASSUME NEW x \in Tx, NEW ops \in Ops, SessionTypes, Mine(x, ops),
           Records!Commit(x)
    PROVE  kept' = Applied(kept, ops)
  BY DEF Records!Commit, Applied, Mine, SessionTypes, Ops

\* What a commit does to the records, whoever reports it.
LEMMA CommitApart ==
    ASSUME LoggedInv, NEW x \in Tx, Records!Commit(x)
    PROVE  /\ ApartInv' /\ RelationInv'
           /\ kept' \subseteq Things /\ now' = now
           /\ touched' \in [Tx -> SUBSET Things] /\ touched'[x] = {}
           /\ \A y \in Tx \ {x} : touched'[y] = touched[y]
<1>1. /\ kept' \subseteq Things /\ now' = now
      /\ touched' \in [Tx -> SUBSET Things] /\ touched'[x] = {}
      /\ \A y \in Tx \ {x} : touched'[y] = touched[y]
      /\ kept' = (kept \ touched[x]) \cup (now \cap touched[x])
  BY DEF Records!Commit, LoggedInv, SessionTypes
<1>2. ApartInv'
  <2>1. \A y, z \in Tx : y # z => touched'[y] \cap touched'[z] = {}
    BY <1>1 DEF LoggedInv, ApartInv
  <2>2. ASSUME NEW t \in Things, \A y \in Tx : t \notin touched'[y]
        PROVE  t \in now' <=> t \in kept'
    <3>1. CASE t \in touched[x]
      BY <1>1, <3>1
    <3>2. CASE t \notin touched[x]
      <4>1. \A y \in Tx : t \notin touched[y]
        BY <1>1, <2>2, <3>2
      <4> QED
        BY <1>1, <3>2, <4>1 DEF LoggedInv, ApartInv
    <3> QED
      BY <3>1, <3>2
  <2> QED
    BY <2>1, <2>2 DEF ApartInv
<1>3. RelationInv'
  <2>1. touched[x] # {} => Relation \in kept'
    BY <1>1 DEF LoggedInv, RelationInv
  <2>2. touched[x] = {} => kept' = kept
    BY <1>1
  <2>3. Relation \in kept => Relation \in kept'
    BY <1>1, <2>1, <2>2
  <2>4. kept' # {} => Relation \in kept'
    BY <1>1, <2>1, <2>2 DEF LoggedInv, RelationInv
  <2>5. Relation \in kept' => Relation \in now'
    BY <1>1 DEF LoggedInv, RelationInv
  <2> QED
    BY <1>1, <2>3, <2>4, <2>5 DEF LoggedInv, RelationInv
<1> QED
  BY <1>1, <1>2, <1>3

-----------------------------------------------------------------------------
(* One lemma for each action *)

LEMMA BeginStep ==
    ASSUME LoggedInv, NEW n \in Names, TxBegin(n)
    PROVE  LoggedInv'
<1>1. audit \in Audit /\ Heeded = audit
  BY Heedful DEF TxBegin
<1>2. CASE n \in Open /\ UNCHANGED openTx
  <2>1. Say("begin", n, Relation, FALSE)
    BY <1>2 DEF TxBegin, Say, Open, Unused, Line
  <2> QED
    BY <1>2, <2>1, Refused DEF TxBegin, NamedLines, Things, records
<1>3. ASSUME NEW x \in Unused, n \notin Open,
             openTx' = [openTx EXCEPT ![n] = x],
             Say("begin", n, Relation, TRUE)
      PROVE  LoggedInv'
  <2> DEFINE line == Line("begin", n, Relation, TRUE)
             h == Heard(audit, line)
  <2>1. /\ line \in Lines /\ answer' = line /\ pc' = "answer"
        /\ line.what = "begin" /\ line.name = n
    BY <1>3 DEF Say, Line, Lines, NamedLines, Things
  <2>2. /\ h \in Audit /\ h.kept = audit.kept /\ h.ops[n] = NoOps
        /\ \A m \in Names \ {n} : h.ops[m] = audit.ops[m]
    BY <1>1 DEF Heard, Line, Audit, NoOps, Ops
  <2>3. Heeded' = h
    BY <2>1 DEF Heeded, TxBegin
  <2>4. /\ x \in Tx /\ x # NoTx /\ touched[x] = {} /\ doubt[x] = NoOps
        /\ \A m \in Names : openTx[m] # x
        /\ openTx' \in [Names -> Tx \cup {NoTx}]
        /\ openTx[n] = NoTx /\ openTx'[n] = x
        /\ \A m \in Names \ {n} : openTx'[m] = openTx[m]
    BY <1>3, SessionConfig DEF Unused, Open, LoggedInv, SessionTypes
  <2>5. UNCHANGED <<now, kept, touched, doubt, unlogged, audit>> /\ pc = "input"
    BY DEF TxBegin, records
  <2>6. SessionTypes'
    BY <2>1, <2>4, <2>5 DEF LoggedInv, SessionTypes
  <2>7. AnswerInv'
    BY <2>1 DEF AnswerInv, NamedLines
  <2>8. KnownInv'
    <3>1. kept' = Heeded'.kept
      BY <1>1, <2>2, <2>3, <2>5 DEF LoggedInv, KnownInv
    <3>2. ASSUME NEW m \in Open'
          PROVE  Mine(openTx[m], h.ops[m])' /\ doubt'[openTx'[m]] = NoOps
      <4>1. CASE m = n
        BY <2>2, <2>4, <2>5, <4>1 DEF Mine, NoOps
      <4>2. CASE m # n
        <5>1. m \in Names \ {n} /\ m \in Open
          BY <2>4, <4>2 DEF Open
        <5>2. Mine(openTx[m], audit.ops[m]) /\ doubt[openTx[m]] = NoOps
          BY <1>1, <5>1 DEF LoggedInv, KnownInv
        <5> QED
          BY <2>2, <2>4, <2>5, <5>1, <5>2 DEF Mine
      <4> QED
        BY <4>1, <4>2
    <3>3. ASSUME NEW y \in Tx, \A m \in Names : openTx'[m] # y
          PROVE  Mine(y, doubt[y])'
      <4>1. \A m \in Names : openTx[m] # y
        BY <2>4, <3>3, SessionConfig
      <4> QED
        BY <2>5, <4>1 DEF LoggedInv, KnownInv, Mine
    <3>4. \A l, m \in Open' : openTx'[l] = openTx'[m] => l = m
      BY <2>4 DEF LoggedInv, KnownInv, Open
    <3> QED
      BY <2>1, <2>3, <2>5, <3>1, <3>2, <3>3, <3>4 DEF KnownInv, Mine
  <2>9. ApartInv' /\ RelationInv'
    BY <2>5 DEF LoggedInv, ApartInv, RelationInv
  <2> QED
    BY <2>6, <2>7, <2>8, <2>9 DEF LoggedInv
<1> QED
  BY <1>2, <1>3 DEF TxBegin

\* A command that reads, inside or outside a transaction.
LEMMA Looked ==
    ASSUME LoggedInv, pc = "input", UNCHANGED <<openTx, doubt, unlogged, audit>>,
           NEW n \in Names \cup {NoTx},
           \/ \E k \in Keys : HandleSearch(n, k)
           \/ HandleRangeSearch(n)
           \/ HandleStats(n)
    PROVE  LoggedInv'
<1>1. ASSUME NEW what \in {"search", "other"},
             NEW t \in Things, NEW ok \in BOOLEAN,
             Say(what, n, t, ok), UNCHANGED records,
             what = "search" => (ok <=> Found(t))
      PROVE  LoggedInv'
  BY <1>1, Refused DEF NamedLines
<1>2. ASSUME NEW k \in Keys, HandleSearch(n, k)
      PROVE  LoggedInv'
  BY <1>1, <1>2 DEF HandleSearch, Things, Found
<1>3. CASE HandleRangeSearch(n)
  <2>1. CASE Relation \in now
    <3>1. Say("search", n, Relation, TRUE) /\ UNCHANGED records
      BY <1>3, <2>1 DEF HandleRangeSearch, Say, Line
    <3> QED
      BY <1>1, <2>1, <3>1 DEF Things, Found
  <2>2. CASE Relation \notin now
    <3>0. (Relation \in now) = FALSE
      BY <2>2
    <3>1. Say("search", n, Relation, FALSE) /\ UNCHANGED records
      BY <1>3, <3>0, Zenon DEF HandleRangeSearch
    <3> QED
      BY <1>1, <2>2, <3>1 DEF Things, Found
  <2> QED
    BY <2>1, <2>2
<1>4. ASSUME NEW ok \in BOOLEAN, Say("other", n, Relation, ok),
             UNCHANGED records
      PROVE  LoggedInv'
  BY <1>1, <1>4 DEF Things
<1>5. CASE HandleStats(n)
  BY <1>4, <1>5 DEF HandleStats
<1> QED
  BY <1>2, <1>3, <1>5

LEMMA OperationStep ==
    ASSUME LoggedInv, NEW n \in Names, TxOp(n)
    PROVE  LoggedInv'
<1>1. pc = "input" /\ UNCHANGED <<openTx, doubt, unlogged, audit>>
  BY DEF TxOp
<1>2. ASSUME NEW what \in {"in", "out", "other"}, NEW t \in Things,
             Say(what, n, t, FALSE), UNCHANGED records
      PROVE  LoggedInv'
  BY <1>1, <1>2, Refused DEF NamedLines
<1>3. CASE n \in Open /\ HandleCreateType(n)
  <2>1. CASE /\ Undisputed(XidOf(n), Things)
             /\ Records!Create(XidOf(n))
             /\ Say("in", n, Relation, TRUE)
    <3>1. Undisputed(XidOf(n), {Relation, Relation})
      BY <2>1 DEF Undisputed, Things
    <3> QED
      BY <1>1, <1>3, <2>1, <3>1, Changed
         DEF Records!Create, Records!Touch, Things
  <2> QED
    BY <1>2, <1>3, <2>1 DEF HandleCreateType, Things
<1>4. ASSUME n \in Open, NEW k \in Keys, HandleCreateRecord(n, k)
      PROVE  LoggedInv'
  <2>1. CASE /\ Undisputed(XidOf(n), {k, Relation})
             /\ Records!Insert(XidOf(n), k)
             /\ Say("in", n, k, TRUE)
    BY <1>1, <1>4, <2>1, Changed, SessionConfig
       DEF Records!Insert, Records!Touch, Things
  <2> QED
    BY <1>2, <1>4, <2>1 DEF HandleCreateRecord, Things
<1>5. ASSUME n \in Open, NEW k \in Keys, HandleDelete(n, k)
      PROVE  LoggedInv'
  <2>1. CASE /\ Undisputed(XidOf(n), {k, Relation})
             /\ Records!Delete(XidOf(n), k)
             /\ Say("out", n, k, TRUE)
    <3>1. Relation \in now
      BY <2>1 DEF Records!Delete, LoggedInv, RelationInv
    <3> QED
      BY <1>1, <1>5, <2>1, <3>1, Changed, SessionConfig
         DEF Records!Delete, Records!Touch, Things
  <2> QED
    BY <1>2, <1>5, <2>1 DEF HandleDelete, Things
<1>6. ASSUME (\E k \in Keys : HandleSearch(n, k)) \/ HandleRangeSearch(n)
                                                     \/ HandleStats(n)
      PROVE  LoggedInv'
  BY <1>1, <1>6, Looked
<1>7. ASSUME Say("other", n, Relation, FALSE), UNCHANGED records
      PROVE  LoggedInv'
  BY <1>2, <1>7 DEF Things
<1>8. CASE n \in Open /\ HandleExplain(n)
  BY <1>4, <1>5, <1>6, <1>7, <1>8 DEF HandleExplain
<1> QED
  BY <1>3, <1>4, <1>5, <1>6, <1>7, <1>8 DEF TxOp, Dispatch

LEMMA CommitStep ==
    ASSUME LoggedInv, NEW n \in Names, TxCommit(n)
    PROVE  LoggedInv'
<1> DEFINE x == openTx[n]
<1>1. audit \in Audit /\ Heeded = audit /\ pc = "input"
      /\ UNCHANGED unlogged
  BY Heedful DEF TxCommit
<1>2. CASE n \notin Open
  <2>1. /\ Say("commit", n, Relation, FALSE)
        /\ UNCHANGED <<records, openTx, doubt, audit>>
    BY <1>2 DEF TxCommit
  <2> QED
    BY <1>1, <2>1, Refused DEF NamedLines, Things
<1>3. CASE n \in Open
  <2>0. openTx' = [openTx EXCEPT ![n] = NoTx]
    BY <1>3 DEF TxCommit
  <2>1. /\ x \in Tx /\ XidOf(n) = x /\ x # NoTx
        /\ openTx' \in [Names -> Tx \cup {NoTx}] /\ openTx'[n] = NoTx
        /\ \A m \in Names \ {n} : openTx'[m] = openTx[m]
        /\ \A m \in Open \ {n} : openTx[m] \in Tx \ {x}
        /\ Open' = Open \ {n}
    BY <1>1, <1>3, <2>0, SessionConfig
       DEF Open, XidOf, LoggedInv, SessionTypes, KnownInv
  <2>2. /\ Mine(x, audit.ops[n]) /\ audit.ops[n] \in Ops /\ doubt[x] = NoOps
        /\ \A m \in Names \ {n} : audit.ops[m] \in Ops
    BY <1>1, <1>3 DEF LoggedInv, KnownInv, Audit, Open
  <2>3. ASSUME Records!Commit(x), UNCHANGED <<doubt, unlogged>>,
               NEW ok \in BOOLEAN, Say("commit", n, Relation, ok),
               audit' \in Audit,
               Heeded'.kept = Applied(audit.kept, audit.ops[n]),
               \A m \in Names \ {n} : Heeded'.ops[m] = audit.ops[m]
        PROVE  LoggedInv'
    <3>1. /\ answer' \in Lines /\ pc' = "answer"
          /\ answer'.what = "commit" /\ answer'.name = n
      BY <2>3 DEF Say, Line, Lines, NamedLines, Things
    <3>4. kept' = Heeded'.kept
      <4>1. kept' = Applied(kept, audit.ops[n])
        BY <2>1, <2>2, <2>3, KeptByCommit DEF LoggedInv
      <4> QED
        BY <1>1, <2>3, <4>1 DEF LoggedInv, KnownInv
    <3>5. /\ ApartInv' /\ RelationInv'
          /\ kept' \subseteq Things /\ now' = now
          /\ touched' \in [Tx -> SUBSET Things] /\ touched'[x] = {}
          /\ \A y \in Tx \ {x} : touched'[y] = touched[y]
      BY <2>1, <2>3, CommitApart
    <3>6. SessionTypes' /\ AnswerInv'
      BY <1>1, <2>1, <2>3, <3>1, <3>5
         DEF LoggedInv, SessionTypes, AnswerInv, NamedLines, Audit
    <3>7. ASSUME NEW m \in Open'
          PROVE  Mine(openTx[m], Heeded.ops[m])' /\ doubt'[openTx'[m]] = NoOps
      <4>1. m \in Open \ {n} /\ m \in Names \ {n} /\ openTx[m] \in Tx \ {x}
        BY <2>1 DEF Open
      <4>2. Mine(openTx[m], audit.ops[m]) /\ doubt[openTx[m]] = NoOps
        BY <1>1, <4>1 DEF LoggedInv, KnownInv
      <4> QED
        BY <1>1, <2>1, <2>3, <3>5, <4>1, <4>2 DEF Mine
    <3>8. ASSUME NEW y \in Tx, \A m \in Names : openTx'[m] # y
          PROVE  Mine(y, doubt[y])'
      <4>1. CASE y = x
        BY <2>2, <2>3, <3>5, <4>1 DEF Mine, NoOps
      <4>2. CASE y # x
        <5>1. \A m \in Names : openTx[m] # y
          BY <2>1, <3>8, <4>2
        <5> QED
          BY <1>1, <2>3, <3>5, <4>2, <5>1 DEF LoggedInv, KnownInv, Mine
      <4> QED
        BY <4>1, <4>2
    <3>9. \A l, m \in Open' : openTx'[l] = openTx'[m] => l = m
      BY <2>1 DEF LoggedInv, KnownInv, Open
    <3> QED
      BY <3>1, <3>4, <3>5, <3>6, <3>7, <3>8, <3>9
         DEF LoggedInv, KnownInv, Mine
  <2>4. ASSUME doubt' = [doubt EXCEPT ![x] = audit.ops[n]],
               Say("commit", n, Relation, FALSE), UNCHANGED <<records, audit>>
        PROVE  LoggedInv'
    <3> DEFINE line == Line("commit", n, Relation, FALSE)
    <3>1. /\ line \in Lines /\ answer' = line /\ pc' = "answer"
          /\ line.what = "commit" /\ line.name = n /\ ~line.ok
      BY <2>4 DEF Say, Line, Lines, NamedLines, Things
    <3>2. Heeded' = audit
      BY <1>1, <2>4, <3>1, HeardNothing DEF Heeded
    <3>3. /\ doubt' \in [Tx -> Ops] /\ doubt'[x] = audit.ops[n]
          /\ \A y \in Tx \ {x} : doubt'[y] = doubt[y]
      BY <2>1, <2>2, <2>4 DEF LoggedInv, SessionTypes
    <3>4. UNCHANGED <<now, kept, touched>>
      BY <2>4 DEF records
    <3>5. SessionTypes' /\ AnswerInv'
      BY <1>1, <2>1, <2>4, <3>1, <3>3, <3>4
         DEF LoggedInv, SessionTypes, AnswerInv, NamedLines
    <3>6. ApartInv' /\ RelationInv'
      BY <3>4 DEF LoggedInv, ApartInv, RelationInv
    <3>7. ASSUME NEW m \in Open'
          PROVE  Mine(openTx[m], audit.ops[m])' /\ doubt'[openTx'[m]] = NoOps
      <4>1. m \in Open \ {n} /\ m \in Names \ {n} /\ openTx[m] \in Tx \ {x}
        BY <2>1 DEF Open
      <4>2. Mine(openTx[m], audit.ops[m]) /\ doubt[openTx[m]] = NoOps
        BY <1>1, <4>1 DEF LoggedInv, KnownInv
      <4> QED
        BY <1>1, <2>1, <2>4, <3>3, <3>4, <4>1, <4>2 DEF Mine
    <3>8. ASSUME NEW y \in Tx, \A m \in Names : openTx'[m] # y
          PROVE  Mine(y, doubt[y])'
      <4>1. CASE y = x
        BY <2>2, <3>3, <3>4, <4>1 DEF Mine
      <4>2. CASE y # x
        <5>1. \A m \in Names : openTx[m] # y
          BY <2>1, <3>8, <4>2
        <5> QED
          BY <1>1, <3>3, <3>4, <4>2, <5>1 DEF LoggedInv, KnownInv, Mine
      <4> QED
        BY <4>1, <4>2
    <3>9. \A l, m \in Open' : openTx'[l] = openTx'[m] => l = m
      BY <2>1 DEF LoggedInv, KnownInv, Open
    <3>10. kept' = Heeded'.kept
      BY <1>1, <3>2, <3>4 DEF LoggedInv, KnownInv
    <3> QED
      BY <1>1, <2>4, <3>1, <3>2, <3>5, <3>6, <3>7, <3>8, <3>9, <3>10
         DEF LoggedInv, KnownInv, Mine
  <2>5. CASE /\ Records!Commit(x) /\ UNCHANGED <<doubt, audit>>
             /\ Say("commit", n, Relation, TRUE)
    <3> DEFINE line == Line("commit", n, Relation, TRUE)
    <3>1. /\ Heard(audit, line).kept = Applied(audit.kept, audit.ops[n])
          /\ \A m \in Names \ {n} : Heard(audit, line).ops[m] = audit.ops[m]
      BY <1>1 DEF Heard, Line, Audit
    <3>2. Heeded' = Heard(audit, line)
      BY <2>5 DEF Heeded, Say
    <3> QED
      BY <1>1, <2>3, <2>5, <3>1, <3>2
  <2>6. CASE /\ Records!Commit(x) /\ UNCHANGED doubt
             /\ Say("commit", n, Relation, FALSE)
             /\ audit' = Told(audit.ops[n])
    <3>1. /\ audit' \in Audit /\ audit'.ops = audit.ops
          /\ audit'.kept = Applied(audit.kept, audit.ops[n])
      BY <1>1, <2>6 DEF Told, Audit, Applied
    <3>2. answer' \in Lines /\ ~answer'.ok
      BY <2>6 DEF Say, Line, Lines, NamedLines, Things
    <3>3. Heeded' = audit'
      BY <3>1, <3>2, HeardNothing DEF Heeded
    <3> QED
      BY <1>1, <2>3, <2>6, <3>1, <3>3
  <2> QED
    BY <1>1, <1>3, <2>1, <2>4, <2>5, <2>6 DEF TxCommit
<1> QED
  BY <1>2, <1>3

\* EXPLAIN changes a record outside any transaction.
LEMMA UnloggedStep ==
    ASSUME LoggedInv, pc = "input", UNCHANGED <<openTx, doubt, audit>>,
           NEW k \in Keys, Unlogged(k)
    PROVE  LoggedInv'
<1>1. PICK w \in {"in", "out"} :
         /\ Say(w, NoTx, k, TRUE)
         /\ now' = IF w = "in" THEN now \cup {k} ELSE now \ {k}
         /\ kept' = IF w = "in" THEN kept \cup {k} ELSE kept \ {k}
  BY DEF Unlogged
<1> DEFINE line == Line(w, NoTx, k, TRUE)
<1>2. audit \in Audit /\ Heeded = audit
  BY Heedful
<1>3. /\ line \in Lines /\ answer' = line /\ pc' = "answer" /\ line.what = w
  BY <1>1 DEF Say, Line, Lines, NamedLines, Things
<1>4. /\ Heard(audit, line).ops = audit.ops
      /\ Heard(audit, line).kept = IF w = "in" THEN audit.kept \cup {k}
                                               ELSE audit.kept \ {k}
  BY <1>2 DEF Heard, Line, Audit
<1>5. Heeded' = Heard(audit, line)
  BY <1>3 DEF Heeded
<1>6. /\ UNCHANGED touched /\ unlogged' = TRUE
      /\ k \in Things /\ k # Relation /\ Relation \in now
      /\ \A y \in Tx : k \notin touched[y] /\ Relation \notin touched[y]
  BY SessionConfig DEF Unlogged, Undisputed, Things
<1>7. SessionTypes' /\ AnswerInv'
  BY <1>1, <1>3, <1>6 DEF LoggedInv, SessionTypes, AnswerInv, NamedLines
<1>8. KnownInv'
  <2>1. kept' = Heeded'.kept
    BY <1>1, <1>2, <1>4, <1>5 DEF LoggedInv, KnownInv
  <2>2. ASSUME NEW x \in Tx, NEW ops, Mine(x, ops) PROVE Mine(x, ops)'
    BY <1>1, <1>6, <2>2 DEF Mine
  <2>3. \A n \in Open : Mine(openTx[n], Heeded.ops[n])'
    <3>1. ASSUME NEW n \in Open PROVE Mine(openTx[n], audit.ops[n])
                                      /\ openTx[n] \in Tx
      BY <1>2 DEF LoggedInv, KnownInv, SessionTypes, Open
    <3> QED
      BY <1>1, <1>4, <1>5, <1>6, <3>1 DEF Mine
  <2>4. \A x \in Tx : (\A n \in Names : openTx[n] # x) => Mine(x, doubt[x])'
    BY <1>1, <1>6 DEF LoggedInv, KnownInv, Mine
  <2> QED
    BY <1>3, <2>1, <2>3, <2>4 DEF LoggedInv, KnownInv, Open, Mine
<1>9. ApartInv'
  BY <1>1, <1>6 DEF LoggedInv, ApartInv
<1>10. RelationInv'
  <2>1. Relation \in kept
    BY <1>6 DEF LoggedInv, ApartInv, Things
  <2> QED
    BY <1>1, <1>6, <2>1 DEF LoggedInv, RelationInv
<1> QED
  BY <1>7, <1>8, <1>9, <1>10 DEF LoggedInv

LEMMA BareStep == LoggedInv /\ Bare => LoggedInv'
  BY Looked, UnloggedStep DEF Bare

LEMMA LogStep == LoggedInv /\ Log => LoggedInv'
<1> SUFFICES ASSUME LoggedInv, Log PROVE LoggedInv'
  OBVIOUS
<1>1. Heeded \in Audit /\ audit' = Heeded
  BY HeardTyped DEF Heeded, Log, LoggedInv, SessionTypes, AnswerInv, Audit
<1>2. /\ answer' = NoLine /\ NoLine \in Lines /\ NoLine.what = "none"
      /\ pc = "answer" /\ pc' = "input"
  BY NoLineSays DEF Log
<1>3. Heeded' = Heeded
  BY <1>1, <1>2, NoLineSays, HeardNothing DEF Heeded
<1>4. SessionTypes' /\ AnswerInv'
  BY <1>1, <1>2 DEF LoggedInv, SessionTypes, AnswerInv, Audit, NamedLines,
                    Log, records
<1> QED
  BY <1>2, <1>3, <1>4, Quiet DEF Log

LEMMA CrashStep == LoggedInv /\ Crash => LoggedInv'
<1> SUFFICES ASSUME LoggedInv, Crash PROVE LoggedInv'
  OBVIOUS
<1>1. Heeded \in Audit /\ audit \in Audit /\ Heeded.kept = kept
  BY HeardTyped
     DEF Heeded, LoggedInv, SessionTypes, AnswerInv, KnownInv, Audit
<1>2. audit' \in Audit /\ audit'.kept = kept
  BY <1>1 DEF Crash, Audit
<1>3. /\ UNCHANGED <<now, kept, touched, doubt, unlogged>>
      /\ openTx' = [n \in Names |-> NoTx] /\ Open' = {}
      /\ answer' = NoLine /\ NoLine \in Lines /\ NoLine.what = "none"
      /\ pc \in {"input", "answer"} /\ pc' = "down"
  BY NoLineSays DEF Crash, records, Open
<1>4. Heeded' = audit'
  BY <1>2, <1>3, NoLineSays, HeardNothing DEF Heeded
<1>5. SessionTypes' /\ AnswerInv'
  BY <1>2, <1>3 DEF LoggedInv, SessionTypes, AnswerInv, Audit, NamedLines
<1>6. KnownInv'
  <2>1. ASSUME NEW x \in Tx PROVE Mine(x, doubt[x])' \/ doubt'[x] = NoOps
    <3>1. CASE \A n \in Names : openTx[n] # x
      BY <1>3, <3>1 DEF LoggedInv, KnownInv, Mine
    <3>2. CASE \E n \in Names : openTx[n] = x
      BY <1>3, <3>2, SessionConfig DEF LoggedInv, KnownInv, Open
    <3> QED
      BY <3>1, <3>2
  <2> QED
    BY <1>2, <1>3, <1>4, <2>1 DEF KnownInv, Mine
<1>7. ApartInv' /\ RelationInv'
  BY <1>3 DEF LoggedInv, ApartInv, RelationInv
<1> QED
  BY <1>5, <1>6, <1>7 DEF LoggedInv

\* Recovery decides one commit that raised.
LEMMA FoundStep ==
    ASSUME LoggedInv, NEW x \in Tx, FoundCommitted(x)
    PROVE  LoggedInv'
<1>1. audit \in Audit /\ Heeded = audit /\ answer = NoLine /\ pc = "down"
  BY Heedful DEF FoundCommitted
<1>2. /\ \A n \in Names : openTx[n] # x
      /\ Mine(x, doubt[x]) /\ doubt[x] \in Ops
  BY SessionConfig
     DEF LoggedInv, SessionTypes, KnownInv, Open, FoundCommitted
<1>3. kept' = Applied(kept, doubt[x])
  BY <1>2, KeptByCommit DEF LoggedInv, FoundCommitted
<1>4. /\ ApartInv' /\ RelationInv'
      /\ kept' \subseteq Things /\ now' = now
      /\ touched' \in [Tx -> SUBSET Things] /\ touched'[x] = {}
      /\ \A y \in Tx \ {x} : touched'[y] = touched[y]
  BY CommitApart DEF FoundCommitted
<1>5. /\ audit' \in Audit /\ audit'.kept = kept' /\ audit'.ops = audit.ops
      /\ UNCHANGED <<openTx, unlogged, pc, answer>>
  BY <1>1, <1>3, <1>4 DEF FoundCommitted, Told, Audit, LoggedInv, KnownInv
<1>6. Heeded' = audit'
  BY <1>1, <1>5, NoLineSays, HeardNothing DEF Heeded
<1>7. /\ doubt' \in [Tx -> Ops] /\ doubt'[x] = NoOps
      /\ \A y \in Tx \ {x} : doubt'[y] = doubt[y]
  BY DEF FoundCommitted, LoggedInv, SessionTypes, NoOps, Ops
<1>8. SessionTypes' /\ AnswerInv'
  BY <1>1, <1>4, <1>5, <1>7, NoLineSays
     DEF LoggedInv, SessionTypes, AnswerInv, Audit, NamedLines
<1>9. ASSUME NEW n \in Open
      PROVE  Mine(openTx[n], audit.ops[n])' /\ doubt'[openTx'[n]] = NoOps
  <2>1. /\ Mine(openTx[n], audit.ops[n]) /\ doubt[openTx[n]] = NoOps
        /\ openTx[n] \in Tx \ {x}
    BY <1>1, <1>2 DEF LoggedInv, SessionTypes, KnownInv, Open
  <2> QED
    BY <1>4, <1>5, <1>7, <2>1 DEF Mine
<1>10. ASSUME NEW y \in Tx, \A n \in Names : openTx[n] # y
       PROVE  Mine(y, doubt[y])' \/ doubt'[y] = NoOps
  <2>1. CASE y = x
    BY <1>7, <2>1
  <2>2. CASE y # x
    BY <1>4, <1>7, <1>10, <2>2 DEF LoggedInv, KnownInv, Mine
  <2> QED
    BY <2>1, <2>2
<1>11. KnownInv'
  BY <1>1, <1>5, <1>6, <1>9, <1>10 DEF LoggedInv, KnownInv, Mine, Open
<1> QED
  BY <1>4, <1>8, <1>11 DEF LoggedInv

LEMMA RestartStep == LoggedInv /\ Restart => LoggedInv'
<1> SUFFICES ASSUME LoggedInv, Restart PROVE LoggedInv'
  OBVIOUS
<1>1. audit \in Audit /\ Heeded = audit /\ answer = NoLine
  BY Heedful DEF Restart
<1>2. /\ now' = kept /\ kept' = kept /\ touched' = [x \in Tx |-> {}]
      /\ doubt' = [x \in Tx |-> NoOps]
      /\ UNCHANGED <<openTx, unlogged, answer, audit>> /\ pc' = "input"
  BY DEF Restart, Records!Crash
<1>3. Heeded' = audit'
  BY <1>1, <1>2 DEF Heeded
<1>4. SessionTypes' /\ AnswerInv'
  BY <1>1, <1>2, NoLineSays
     DEF LoggedInv, SessionTypes, AnswerInv, NamedLines, NoOps, Ops
<1>5. Open = {}
  BY DEF LoggedInv, KnownInv, Restart
<1>6. KnownInv'
  <2>1. \A x \in Tx : Mine(x, doubt[x])'
    BY <1>2 DEF Mine, NoOps
  <2> QED
    BY <1>1, <1>2, <1>3, <1>5, <2>1 DEF LoggedInv, KnownInv, Mine, Open
<1>7. ApartInv' /\ RelationInv'
  BY <1>2 DEF LoggedInv, ApartInv, RelationInv
<1> QED
  BY <1>4, <1>6, <1>7 DEF LoggedInv

LEMMA AstrayStep == LoggedInv /\ RestartUnlogged => SessionInv'
<1> SUFFICES ASSUME LoggedInv, RestartUnlogged PROVE SessionInv'
  OBVIOUS
<1>1. answer' = NoLine /\ pc' = "astray"
  BY Heedful DEF RestartUnlogged
<1>2. SessionTypes'
  BY <1>1 DEF LoggedInv, SessionTypes, RestartUnlogged, NoOps, Ops
<1> QED
  BY <1>1, <1>2 DEF SessionInv

LEMMA SessionStep == SessionInv /\ [Next]_vars => SessionInv'
<1> SUFFICES ASSUME SessionInv, [Next]_vars PROVE SessionInv'
  OBVIOUS
<1>1. CASE LoggedInv /\ UNCHANGED vars
  <2>1. SessionTypes' /\ AnswerInv'
    BY <1>1 DEF LoggedInv, SessionTypes, AnswerInv, Found, vars, records
  <2> QED
    BY <1>1, <2>1, Quiet DEF SessionInv, vars, Heeded
<1>2. CASE LoggedInv /\ Next
  BY <1>2, BeginStep, OperationStep, CommitStep, BareStep, LogStep, CrashStep,
     FoundStep, RestartStep, AstrayStep DEF Next, SessionInv
<1>3. CASE pc = "astray" /\ SessionTypes /\ answer = NoLine
  <2>1. UNCHANGED vars
    BY <1>3 DEF Next, TxBegin, TxOp, TxCommit, Bare, Log, Crash, Restart,
                RestartUnlogged, FoundCommitted
  <2> QED
    BY <1>3, <2>1 DEF SessionInv, SessionTypes, vars, records
<1> QED
  BY <1>1, <1>2, <1>3 DEF SessionInv

LEMMA SessionStart == Init => SessionInv
<1> SUFFICES ASSUME Init PROVE SessionInv
  OBVIOUS
<1>1. audit \in Audit /\ answer = NoLine
  BY DEF Init, Audit, NoOps, Ops
<1>2. Heeded = audit
  BY <1>1, NoLineSays, HeardNothing DEF Heeded
<1>3. SessionTypes /\ AnswerInv
  BY <1>1, NoLineSays
     DEF Init, Records!Init, SessionTypes, AnswerInv, Audit, NoOps, Ops, NamedLines
<1>4. KnownInv
  BY <1>2 DEF Init, Records!Init, KnownInv, Mine, NoOps, Open
<1>5. ApartInv /\ RelationInv
  BY DEF Init, Records!Init, ApartInv, RelationInv
<1> QED
  BY <1>3, <1>4, <1>5 DEF SessionInv, LoggedInv

-----------------------------------------------------------------------------
(* What follows *)

\* Whose change every change is, for any number of names, keys and
\* transactions, through crashes, raised commits and what restarts make of
\* them, up to a restart after changes outside any transaction.
THEOREM SessionIsSound == Spec => []SessionInv
  BY SessionStart, SessionStep, PTL DEF Spec

\* AuditExplains, for any number of names, keys and transactions: the data
\* holds what log.csv says, and the raised commits that restarts found in the
\* log, up to a restart after changes outside any transaction.
THEOREM AuditExplainsData == Spec => []AuditExplains
<1>1. SessionInv => AuditExplains
  BY DEF SessionInv, LoggedInv, KnownInv, AuditExplains
<1> QED
  BY <1>1, SessionIsSound, PTL

\* ReportedByName, for any number of names, keys and transactions.
THEOREM ChangesAreReported == Spec => []ReportedByName
<1>1. SessionInv => ReportedByName
  <2> SUFFICES ASSUME LoggedInv, pc = "input", NEW n \in Open
               PROVE  touched[openTx[n]] =
                        {t \in Things : audit.ops[n][t] # "none"}
    BY DEF ReportedByName, SessionInv
  <2>1. Mine(openTx[n], audit.ops[n])
    BY Heedful DEF LoggedInv, KnownInv
  <2>2. touched[openTx[n]] \subseteq Things
    BY DEF LoggedInv, SessionTypes, Open
  <2> QED
    BY <2>1, <2>2 DEF Mine
<1> QED
  BY <1>1, SessionIsSound, PTL

\* AnswersFollow, for any number of names, keys and transactions, up to a
\* restart after changes outside any transaction.
THEOREM AnswersFollowLog == Spec => []AnswersFollow
<1>1. SessionInv => AnswersFollow
  <2> DEFINE live == {audit.ops[n] : n \in Open} \cup {doubt[x] : x \in Tx}
             t == answer.thing
  <2> SUFFICES ASSUME LoggedInv, answer.what = "search"
               PROVE  Found(t) <=> \/ \E ops \in live : ops[t] = "in"
                                   \/ /\ t \in audit.kept
                                      /\ \A ops \in live : ops[t] # "out"
    BY NoLineSays DEF AnswersFollow, SessionInv, LoggedInv, AnswerInv
  <2>1. audit \in Audit /\ t \in Things /\ Heeded = audit
    BY HeardNothing
       DEF LoggedInv, SessionTypes, Audit, Lines, NamedLines, Heeded
  <2>0. pc = "answer"
    BY NoLineSays DEF LoggedInv, AnswerInv
  <2>2. Found(t) <=> t \in now
    BY DEF Found, LoggedInv, RelationInv
  <2>3. \A ops \in live : /\ ops[t] = "in" => t \in now
                          /\ ops[t] = "out" => t \notin now
    <3>1. ASSUME NEW n \in Open PROVE Mine(openTx[n], audit.ops[n])
      BY <2>1 DEF LoggedInv, KnownInv
    <3>2. ASSUME NEW x \in Tx PROVE doubt[x] = NoOps \/ Mine(x, doubt[x])
      BY SessionConfig DEF LoggedInv, SessionTypes, KnownInv, Open
    <3> QED
      BY <2>1, <3>1, <3>2 DEF Mine, NoOps
  <2>4. CASE \E x \in Tx : t \in touched[x]
    <3>1. PICK x \in Tx : t \in touched[x]
      BY <2>4
    <3>2. \E ops \in live : ops \in Ops /\ Mine(x, ops)
      <4>1. CASE \E n \in Names : openTx[n] = x
        <5>1. PICK n \in Names : openTx[n] = x
          BY <4>1
        <5>2. n \in Open
          BY <5>1, SessionConfig DEF Open
        <5> QED
          BY <2>1, <5>1, <5>2 DEF LoggedInv, KnownInv, Audit
      <4>2. CASE \A n \in Names : openTx[n] # x
        BY <2>0, <4>2 DEF LoggedInv, SessionTypes, KnownInv
      <4> QED
        BY <4>1, <4>2
    <3>3. \E ops \in live : ops[t] \in {"in", "out"}
      BY <2>1, <3>1, <3>2 DEF Mine, Ops
    <3> QED
      BY <2>2, <2>3, <3>3
  <2>5. CASE \A x \in Tx : t \notin touched[x]
    <3>1. t \in now <=> t \in audit.kept
      BY <2>1, <2>5 DEF LoggedInv, ApartInv, KnownInv
    <3> QED
      BY <2>2, <2>3, <3>1
  <2> QED
    BY <2>4, <2>5
<1> QED
  BY <1>1, SessionIsSound, PTL
=============================================================================
