----------------------------- MODULE QuerySession -----------------------------
(***************************************************************************)
(* QueryProcessor: lines of input under transaction names, on top of the   *)
(* map of records that the layers below implement (RecordMap), and the     *)
(* audit log log.csv, which survives restarts.  A line is carried out and  *)
(* then logged; the process may die before, between and after.             *)
(* log.csv itself is kept as what its reader can work out: the records     *)
(* that committed, and what each name did since its last tx_begin.         *)
(* A restart decides what becomes of a commit that raised.  After a change *)
(* outside any transaction, which is not logged, a restart may make        *)
(* anything of the records: there the model ends ("astray").               *)
(***************************************************************************)
CONSTANTS Names,           \* labels of transactions in the input
          Keys, Relation,  \* primary keys; the type
          Tx, NoTx         \* transaction ids; a name without one

ASSUME SessionConfig == Relation \notin Keys /\ NoTx \notin Tx \cup Names

VARIABLES now, kept, touched,  \* the records (RecordMap)
          openTx,   \* open_tx: name -> transaction id
          doubt,    \* transaction whose commit raised -> what it had logged
          unlogged, \* a record was changed outside any transaction
          pc,       \* "down", "input", "answer", "astray"
          answer,   \* the line of log.csv that comes next
          audit     \* what the reader of log.csv knows
records == <<now, kept, touched>>
vars == <<records, openTx, doubt, unlogged, pc, answer, audit>>

Records == INSTANCE RecordMap WITH Keys <- Keys, Tx <- Tx,
              Relation <- Relation, now <- now, kept <- kept, touched <- touched

Things == Keys \cup {Relation}
NoOps  == [t \in Things |-> "none"]
Open   == {n \in Names : openTx[n] # NoTx}
XidOfAny(n) == CHOOSE x \in Tx : \E m \in Open : openTx[m] = x  \* mutant
XidOf(n) == openTx[n]

\* A line: what it is about, the name, the record or type, the status.
Line(what, n, t, ok) == [what |-> what, name |-> n, thing |-> t, ok |-> ok]
NoLine == Line("none", NoTx, Relation, FALSE)
Say(what, n, t, ok) == answer' = Line(what, n, t, ok) /\ pc' = "answer"

Init ==
    /\ Records!Init
    /\ openTx = [n \in Names |-> NoTx]
    /\ doubt = [x \in Tx |-> NoOps]
    /\ unlogged = FALSE
    /\ pc = "down" /\ answer = NoLine
    /\ audit = [kept |-> {}, ops |-> [n \in Names |-> NoOps]]

-----------------------------------------------------------------------------
(* Transaction control *)

Unused == {x \in Tx : /\ x \notin {openTx[n] : n \in Names}
                      /\ touched[x] = {} /\ doubt[x] = NoOps}
TxBeginAnew(n) ==                                              \* mutant
    /\ pc = "input"
    /\ \E x \in Unused : openTx' = [openTx EXCEPT ![n] = x]
    /\ Say("begin", n, Relation, TRUE)
    /\ UNCHANGED <<records, doubt, unlogged, audit>>

TxBegin(n) ==
    /\ pc = "input"
    /\ \/ /\ n \notin Open
          /\ \E x \in Unused : openTx' = [openTx EXCEPT ![n] = x]
          /\ Say("begin", n, Relation, TRUE)
       \/ /\ n \in Open
          /\ Say("begin", n, Relation, FALSE)
          /\ UNCHANGED openTx
    /\ UNCHANGED <<records, doubt, unlogged, audit>>

CommitUnforced(n) ==                                           \* mutant
    /\ pc = "input" /\ n \in Open
    /\ openTx' = [openTx EXCEPT ![n] = NoTx]
    /\ doubt' = [doubt EXCEPT ![XidOf(n)] = audit.ops[n]]
    /\ Say("commit", n, Relation, TRUE)
    /\ UNCHANGED <<records, unlogged, audit>>

\* The reader is told that what ops says is kept.
Applied(before, ops) ==
    (before \ {t \in Things : ops[t] = "out"}) \cup {t \in Things : ops[t] = "in"}
Told(ops) == [audit EXCEPT !.kept = Applied(audit.kept, ops)]

\* The name is gone before commit() starts.  If that raises, the line says
\* failure: after the table's entry is "committed" that is done which no line
\* reports; before, the transaction stays "active", its commit record in
\* wal.log, in the log buffer or lost, and the next restart decides.
TxCommit(n) ==
    /\ pc = "input"
    /\ \/ /\ n \in Open
          /\ openTx' = [openTx EXCEPT ![n] = NoTx]
          /\ \/ /\ Records!Commit(XidOf(n))
                /\ Say("commit", n, Relation, TRUE)
                /\ UNCHANGED <<doubt, audit>>
             \/ /\ Records!Commit(XidOf(n))
                /\ Say("commit", n, Relation, FALSE)
                /\ audit' = Told(audit.ops[n])
                /\ UNCHANGED doubt
             \/ /\ doubt' = [doubt EXCEPT ![XidOf(n)] = audit.ops[n]]
                /\ Say("commit", n, Relation, FALSE)
                /\ UNCHANGED <<records, audit>>
       \/ /\ n \notin Open
          /\ Say("commit", n, Relation, FALSE)
          /\ UNCHANGED <<records, openTx, doubt, audit>>
    /\ UNCHANGED unlogged

-----------------------------------------------------------------------------
(* The commands of a tx_op, for the transaction of name n.  Each may fail on *)
(* its arguments; open transactions stay off each other's keys and type.     *)

Undisputed(x, things) == \A y \in Tx \ {x} : touched[y] \cap things = {}

HandleCreateType(n) ==
    \/ /\ Undisputed(XidOf(n), Things)
       /\ Records!Create(XidOf(n))
       /\ Say("in", n, Relation, TRUE)
    \/ Say("in", n, Relation, FALSE) /\ UNCHANGED records

HandleCreateRecord(n, k) ==
    \/ /\ Undisputed(XidOf(n), {k, Relation})
       /\ Records!Insert(XidOf(n), k)
       /\ Say("in", n, k, TRUE)
    \/ Say("in", n, k, FALSE) /\ UNCHANGED records

HandleDelete(n, k) ==
    \/ /\ Undisputed(XidOf(n), {k, Relation})
       /\ Records!Delete(XidOf(n), k)
       /\ Say("out", n, k, TRUE)
    \/ Say("out", n, k, FALSE) /\ UNCHANGED records

\* A record is found; no record, no type or a bad argument is a failure.
Found(k) == Relation \in now /\ k \in now
HandleSearch(n, k) == Say("search", n, k, Found(k)) /\ UNCHANGED records

\* A range without records is a success, a range without a type is none.
HandleRangeSearch(n) ==
    Say("search", n, Relation, Relation \in now) /\ UNCHANGED records

\* A record command runs under EXPLAIN as it does without; create type does
\* not, and everything else that can be written here changes no record.
HandleExplain(n) ==
    \/ \E k \in Keys : \/ HandleCreateRecord(n, k) \/ HandleDelete(n, k)
                       \/ HandleSearch(n, k)
    \/ HandleRangeSearch(n)
    \/ Say("other", n, Relation, FALSE) /\ UNCHANGED records
HandleStats(n) == \E ok \in BOOLEAN :
    Say("other", n, Relation, ok) /\ UNCHANGED records

Dispatch(n) ==
    \/ HandleCreateType(n) \/ HandleRangeSearch(n)
    \/ HandleExplain(n) \/ HandleStats(n)
    \/ \E k \in Keys : \/ HandleCreateRecord(n, k) \/ HandleDelete(n, k)
                       \/ HandleSearch(n, k)

TxOp(n) ==
    /\ pc = "input"
    /\ \/ n \in Open /\ Dispatch(n)
       \/ n \notin Open /\ Say("other", n, Relation, FALSE) /\ UNCHANGED records
    /\ UNCHANGED <<openTx, doubt, unlogged, audit>>

\* Outside a transaction EXPLAIN carries a record command out as well.  The
\* pages change at once and without a log record.
Unlogged(k) ==
    /\ Undisputed(NoTx, {k, Relation})
    /\ Relation \in now
    /\ \/ /\ k \notin now
          /\ now' = now \cup {k} /\ kept' = kept \cup {k}
          /\ Say("in", NoTx, k, TRUE)
       \/ /\ k \in now
          /\ now' = now \ {k} /\ kept' = kept \ {k}
          /\ Say("out", NoTx, k, TRUE)
    /\ unlogged' = TRUE
    /\ UNCHANGED touched

\* Other data commands are refused there, stats and searches are not.
Bare ==
    /\ pc = "input"
    /\ \/ \E k \in Keys : Unlogged(k)
       \/ /\ \/ \E k \in Keys : HandleSearch(NoTx, k)
             \/ HandleRangeSearch(NoTx)
             \/ HandleStats(NoTx)
          /\ UNCHANGED unlogged
    /\ UNCHANGED <<openTx, doubt, audit>>

-----------------------------------------------------------------------------
(* log.csv and its reader *)

\* The reader takes successful lines at their word: a tx_begin drops what the
\* name did before, a tx_commit keeps it, and a change under no name counts.
Heard(a, line) ==
    CASE line.ok /\ line.what = "begin" ->
           [a EXCEPT !.ops[line.name] = NoOps]
      [] line.ok /\ line.what \in {"in", "out"} /\ line.name # NoTx ->
           [a EXCEPT !.ops[line.name][line.thing] = line.what]
      [] line.ok /\ line.what \in {"in", "out"} /\ line.name = NoTx ->
           [a EXCEPT !.kept = IF line.what = "in" THEN a.kept \cup {line.thing}
                                                  ELSE a.kept \ {line.thing}]
      [] line.ok /\ line.what = "commit" ->
           [kept |-> Applied(a.kept, a.ops[line.name]),
            ops  |-> [a.ops EXCEPT ![line.name] = NoOps]]
      [] OTHER -> a

\* What the reader will know once the line that waits is written.
Heeded == Heard(audit, answer)

Log ==
    /\ pc = "answer"
    /\ audit' = Heeded
    /\ answer' = NoLine /\ pc' = "input"
    /\ UNCHANGED <<records, openTx, doubt, unlogged>>

\* The end of the input or of the process.  A change that was done for good
\* and not yet logged is another thing log.csv cannot tell.
Crash ==
    /\ pc \in {"input", "answer"}
    /\ audit' = [audit EXCEPT !.kept = Heeded.kept]
    /\ openTx' = [n \in Names |-> NoTx]
    /\ answer' = NoLine /\ pc' = "down"
    /\ UNCHANGED <<records, doubt, unlogged>>

-----------------------------------------------------------------------------
(* Restart: the constructor of the RecoveryManager *)

\* Analysis meets the commit record of a commit that raised.  It does if the
\* record reached wal.log, with a later flush perhaps, and no checkpoint came
\* after it: a checkpoint says "active", Analysis begins behind it, and Undo
\* takes back what was in wal.log all along.  It does after all if master.rec
\* was left empty.  No line tells which, so the reader is told.
FoundCommitted(x) ==
    /\ pc = "down" /\ doubt[x] # NoOps
    /\ Records!Commit(x)
    /\ audit' = Told(doubt[x])
    /\ doubt' = [doubt EXCEPT ![x] = NoOps]
    /\ UNCHANGED <<openTx, unlogged, pc, answer>>

RestartWithoutUndo ==                                          \* mutant
    /\ pc = "down" /\ ~unlogged
    /\ touched' = [x \in Tx |-> {}]
    /\ doubt' = [x \in Tx |-> NoOps]
    /\ pc' = "input"
    /\ UNCHANGED <<now, kept, openTx, unlogged, answer, audit>>

\* All others are losers.
Restart ==
    /\ pc = "down" /\ ~unlogged
    /\ Records!Crash
    /\ doubt' = [x \in Tx |-> NoOps]
    /\ pc' = "input"
    /\ UNCHANGED <<openTx, unlogged, answer, audit>>

\* Unlogged changes may have reached their pages or not, without the pageLSN
\* or the before-image that Redo and Undo go by.
RestartUnlogged ==
    /\ pc = "down" /\ unlogged
    /\ now' \in SUBSET Things /\ kept' = now'
    /\ touched' = [x \in Tx |-> {}]
    /\ doubt' = [x \in Tx |-> NoOps]
    /\ pc' = "astray"
    /\ UNCHANGED <<openTx, unlogged, answer, audit>>

Next ==
    \/ \E n \in Names : TxBegin(n) \/ TxOp(n) \/ TxCommit(n)
    \/ Bare \/ Log \/ Crash \/ Restart \/ RestartUnlogged
    \/ \E x \in Tx : FoundCommitted(x)
Spec == Init /\ [][Next]_vars

-----------------------------------------------------------------------------
(* What log.csv is good for *)

\* log.csv explains the data: apart from the changes of open transactions the
\* records are what its successful lines say, plus the commits no line could
\* report; and a restart finds just these, unless there were changes outside
\* any transaction (process, _log; the order of commit and line, of pop and
\* commit, and which commits that raised Analysis finds).
AuditExplains == pc # "astray" => kept = Heeded.kept

\* The changes of an open transaction are those that log.csv reports under
\* its name since its tx_begin: none under another name, none of a refused
\* command, none of a transaction that an earlier crash ended (_tx_op).
ReportedByName ==
    pc = "input" => \A n \in Open :
        touched[openTx[n]] = {t \in Things : audit.ops[n][t] # "none"}

\* A search answers what the lines before it imply, the changes of open
\* transactions and of commits in doubt included: there is no isolation.  A
\* restart forgets exactly the ones that did not commit.  With changes outside
\* a transaction among the lines this holds until the next restart.
AnswersFollow ==
    LET live == {audit.ops[n] : n \in Open} \cup {doubt[x] : x \in Tx}
    IN  answer.what = "search" =>
          (answer.ok <=>
             \/ \E ops \in live : ops[answer.thing] = "in"
             \/ /\ answer.thing \in audit.kept
                /\ \A ops \in live : ops[answer.thing] # "out")
=============================================================================
