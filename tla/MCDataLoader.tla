---------------------------- MODULE MCDataLoader ----------------------------
(* Model-checking instances of DataLoader: concurrent loads, two keys of   *)
(* which one has a row, chunks of one key.                                 *)
EXTENDS DataLoader
=============================================================================
