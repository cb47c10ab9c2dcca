---------------------------- MODULE MCEngineStore ----------------------------
(* WalEngine and the store it implements, from an aged directory. *)
EXTENDS MCWalEngine, EngineStore

AllPages == Pages

AgedStoreSpec ==
    /\ AgedInit /\ ObserveNow
    /\ [][StoreNext]_<<vars, seen, kept, changed>>
=============================================================================
