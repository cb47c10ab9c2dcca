---------------------------- MODULE WalEngineInv ----------------------------
(***************************************************************************)
(* The inductive invariant behind the theorems about WalEngine: what each  *)
(* step may rely on besides the types.  TLC checks it as an invariant, and *)
(* WalEngineProofs proves it.                                              *)
(***************************************************************************)
EXTENDS WalEngine

\* Where the thread stands decides what scan holds and whether a stamped
\* page waits to be installed.
ScanInv ==
    /\ bootLen <= Len(log.stable)
    /\ pc \in {"analysis", "redo", "redofresh"} => scan >= 1
    /\ pc = "redofresh" =>
          /\ scan <= bootLen
          /\ log.stable[scan].type = "update"
    /\ pc \in {"end", "endloser"} => scan \in Xids
    /\ pc = "install" => pending.page # NoPage
    /\ pc \notin {"install", "ckptbegin", "ckptend", "master"} =>
          pending.page = NoPage

TypeInv == TypeOK /\ ScanInv

\* The pool holds pages once, only pages that exist, and every dirty frame;
\* recovery runs with an empty pool.
HeldOnce(s) == \A i, j \in DOMAIN s : s[i] = s[j] => i = j
PoolInv ==
    /\ HeldOnce(pool.order)
    /\ \A p \in Pages : pool.frame[p].dirty => Cached(p)
    /\ \A p \in Pages : Cached(p) => Allocated(p)
    /\ pending.page # NoPage => Allocated(pending.page)
    /\ pc \in Recovering \cup {"down"} => pool = EmptyPool

\* LSNs of the buffer lie above flushedLSN and below the next one, and
\* recovery buffers no record of a change.
LsnsAhead(l) ==
    /\ l.flushed < l.next
    /\ \A rec \in Range(l.buf) : l.flushed < rec.lsn /\ rec.lsn < l.next
LsnInv ==
    /\ LsnsAhead(log)
    /\ pc \in Recovering \cup {"down"} =>
          \A rec \in Range(log.buf) : rec.type # "update"

\* A change whose record is still in the buffer is in memory: in the page
\* that waits to be installed, or else in a dirty frame, stamped with the
\* record's LSN or a later one.
StampedInv ==
    \A rec \in Range(log.buf) : rec.type = "update" =>
        IF pending.page = rec.page
        THEN ReadPageLsn(pending.data) >= rec.lsn
        ELSE /\ pool.frame[rec.page].dirty
             /\ ReadPageLsn(pool.frame[rec.page].data) >= rec.lsn

WalInv == TypeInv /\ PoolInv /\ LsnInv /\ StampedInv
=============================================================================
