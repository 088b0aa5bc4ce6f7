---------------------------- MODULE MCTurboRouter ----------------------------
(* A query that is known by three hashes and one that selects a gated field. *)
EXTENDS TurboRouter, TLC

CONSTANTS plain, printed, gated, n1, r1, a1, n2, q1, q2, alice, guest

MCHashQuery == (plain :> n1) @@ (printed :> a1) @@ (gated :> n2)
MCHashRaw == (plain :> r1) @@ (printed :> a1) @@ (gated :> n2)
MCTextOf == (q1 :> plain) @@ (q2 :> gated)
MCApollo == (q1 :> a1) @@ (q2 :> NoHash)
MCStored == {<<q1, n1>>, <<q1, r1>>}
MCShapes == {<<gated, alice>>, <<plain, guest>>, <<printed, guest>>}

Symmetry == Permutations(Calls)
=============================================================================
