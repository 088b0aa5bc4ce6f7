------------------------------ MODULE MCCaches ------------------------------
(* Model-checking instances of CachedRepository and of TurboRouter with     *)
(* DecisionCache, which share no state: a behaviour is one of the cached    *)
(* repository or one of the turbo router.  The registry and the gates share *)
(* only the look-up at the start of an execution: the registry is explored  *)
(* first, then, from the state in which both queries are registered, the    *)
(* gates.                                                                   *)
EXTENDS CachedRepository, MCTurboRouter

VARIABLE part

MCInit == Init /\ TurboInit /\ part \in {"repository", "registry"}

TurnToGates ==
    /\ part = "registry"
    /\ queries = <<<<n1, q1>>, <<n2, q2>>>> /\ linked = {<<a1, n1>>} /\ shared = {}
    /\ \A c \in Calls : pc[c] = "idle"
    /\ part' = "gates"
    /\ UNCHANGED <<vars, turboVars>>

SameRegistry == Primaries(queries') = Primaries(queries) /\ UNCHANGED <<apollo, linked, shared>>

MCNext ==
    \/ part = "repository" /\ Next /\ UNCHANGED <<turboVars, part>>
    \/ part = "registry" /\ TurboNext /\ UNCHANGED <<cacheVars, vars, part>>
    \/ TurnToGates
    \/ part = "gates" /\ TurboNext /\ SameRegistry /\ UNCHANGED <<vars, part>>

MCSpec == MCInit /\ [][MCNext]_<<vars, turboVars, part>>

BothSymmetries == Permutations(Readers) \cup Symmetry
=============================================================================
