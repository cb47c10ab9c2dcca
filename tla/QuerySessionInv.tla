--------------------------- MODULE QuerySessionInv ---------------------------
(***************************************************************************)
(* The inductive invariant behind the theorems about QuerySession.         *)
(***************************************************************************)
EXTENDS QuerySession

Ops == [Things -> {"none", "in", "out"}]
NamedLines == {"begin", "commit", "in", "out"}
Lines == [what : NamedLines \cup {"search", "other", "none"},
          name : Names \cup {NoTx}, thing : Things, ok : BOOLEAN]

SessionTypes ==
    /\ now \subseteq Things /\ kept \subseteq Things
    /\ touched \in [Tx -> SUBSET Things]
    /\ openTx \in [Names -> Tx \cup {NoTx}]
    /\ doubt \in [Tx -> Ops]
    /\ unlogged \in BOOLEAN
    /\ pc \in {"down", "input", "answer", "astray"}
    /\ answer \in Lines
    /\ audit \in [kept : SUBSET Things, ops : [Names -> Ops]]

\* A line waits exactly while its command is being answered.
AnswerInv ==
    /\ pc # "answer" => answer = NoLine
    /\ answer.what \in {"begin", "commit"} => answer.name \in Names
    /\ answer.what = "search" => (answer.ok <=> Found(answer.thing))

\* ops is what transaction x did.
Mine(x, ops) ==
    \A t \in Things : /\ t \in touched[x] <=> ops[t] # "none"
                      /\ ops[t] = "in" => t \in now
                      /\ ops[t] = "out" => t \notin now

\* Each transaction's changes are known: an open one's from log.csv, one that
\* is in doubt from what log.csv said before its commit raised.  After a crash
\* only the latter have a future.
KnownInv ==
    /\ kept = Heeded.kept
    /\ \A n \in Open : /\ Mine(openTx[n], Heeded.ops[n])
                       /\ doubt[openTx[n]] = NoOps
    /\ \A x \in Tx : (\A n \in Names : openTx[n] # x) =>
          Mine(x, doubt[x]) \/ (pc = "down" /\ doubt[x] = NoOps)
    /\ \A n, m \in Open : openTx[n] = openTx[m] => n = m
    /\ pc = "down" => Open = {}

\* Transactions change different things; what none has changed is kept.
ApartInv ==
    /\ \A x, y \in Tx : x # y => touched[x] \cap touched[y] = {}
    /\ \A t \in Things :
          (\A x \in Tx : t \notin touched[x]) => (t \in now <=> t \in kept)

\* There is a record only if there is its type.
RelationInv ==
    /\ now # {} => Relation \in now
    /\ kept # {} => Relation \in kept
    /\ Relation \in kept => Relation \in now
    /\ \A x \in Tx : touched[x] # {} =>
          Relation \in now /\ Relation \in kept \cup touched[x]

LoggedInv == SessionTypes /\ AnswerInv /\ KnownInv /\ ApartInv /\ RelationInv

\* Once unlogged changes have been through a restart, only types are left.
SessionInv == LoggedInv \/ (pc = "astray" /\ SessionTypes /\ answer = NoLine)
=============================================================================
