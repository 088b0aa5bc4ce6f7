------------------------- MODULE MCPersistedQueries -------------------------
(***************************************************************************)
(* A document with a query and a mutation, a document with one query that  *)
(* the TurboRouter may execute; an anonymous caller, two users of a tenant *)
(* and a caller without an id.                                             *)
(***************************************************************************)
EXTENDS PersistedQueries, TLC

CONSTANTS d1, d2, read, change, list, guest, alice, bob, service

MCDocOf == (read :> d1) @@ (change :> d1) @@ (list :> d2)
MCUser == (guest :> Anonymous) @@ (alice :> alice) @@ (bob :> bob) @@ (service :> NoId)
MCScope == (guest :> "none") @@ (alice :> "acme") @@ (bob :> "acme") @@ (service :> "none")

\* The policy denies alice the operation, a gate of it or a field, or filters.
MCChanges ==
    {[site |-> "gate", caller |-> alice, decision |-> "filter"]}
    \cup [site : {"gate", "resolver", "field"}, caller : {alice}, decision : {"deny"}]
Scoping == {x \in MCChanges : x.decision = "filter" \/ x.site = "field"}

Config(m, b, c, a, d, other, says) ==
    [mode |-> m, backend |-> b, caching |-> c, auth |-> a, decisions |-> d,
     foreign |-> other, changes |-> says]
MCConfigs == {Config("optional", "postgresql", TRUE, FALSE, FALSE, {}, Scoping),
              Config("optional", "memory", TRUE, TRUE, TRUE, {}, MCChanges),
              Config("optional", "postgresql", FALSE, FALSE, FALSE, {d2}, {}),
              Config("required", "postgresql", TRUE, FALSE, FALSE, {d2}, {}),
              Config("disabled", "memory", TRUE, FALSE, FALSE, {}, {})}

\* Every caller reads; alice also asks for the mutation of the same document, the
\* guest for the other document, with and without its hash.
Asks(kinds, o, c) == [process : Processes, kind : kinds, op : {o}, caller : {c}]
MCShapes ==
    Asks({"register"}, read, guest) \cup Asks({"hash"}, change, alice)
    \cup UNION {Asks({"hash"}, read, c) : c \in {alice, bob, service}}
    \cup Asks({"plain", "register", "mismatch", "hash"}, list, guest)

Symmetry == Permutations(Requests) \cup Permutations(Processes)
=============================================================================
