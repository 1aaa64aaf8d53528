--------------------------- MODULE MCRequestGate ---------------------------
(* Instances of RequestGate for TLC.                                       *)
EXTENDS RequestGate

CONSTANTS p1, p2, a, b

Entry(id, role, token) == [id |-> id, role |-> role, token |-> token]

\* Two principals; p2 is promoted to admin, and given p1's token.
Files ==
  {<<Entry(p1, "query", a), Entry(p2, "query", b)>>,
   <<Entry(p1, "query", a), Entry(p2, "admin", a)>>, Malformed}

Credentials == {[token |-> a, identity |-> NoValue], [token |-> b, identity |-> p1]}
AdminIdentities == {p1}
=============================================================================
