---------------------------- MODULE MCNativeAuth ----------------------------
(* Model-checking instances of NativeAuth.                                 *)
EXTENDS NativeAuth, TLC

Symmetry == Permutations(Requests) \cup Permutations(Users)
=============================================================================
