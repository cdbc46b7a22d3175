----------------------------- MODULE MCPeerTable -----------------------------
(***************************************************************************)
(* An instance of PeerTable for TLC.                                       *)
(***************************************************************************)
EXTENDS PeerTable

CONSTANTS r, a, b, x, i1, i2, i3

\* Each process has an id of its own; a and b are one node twice; all run
\* with the default id.
Own == [n \in Proc |-> IF n = r THEN i1 ELSE IF n = a THEN i2 ELSE i3]
Twice == [n \in Proc |-> IF n = r THEN i1 ELSE i2]
Default == [n \in Proc |-> i1]

\* The root has the address it bound, and another; the joining processes are
\* told of the first, of the second, or each of another.
HostAt == [q \in Addr |-> IF q = x THEN r ELSE q]
Bound == [n \in Proc |-> r]
Public == [n \in Proc |-> x]
Mixed == [n \in Proc |-> IF n = a THEN x ELSE r]

Setting(names, at, aware, k) ==
  [name |-> names, rootAt |-> at, selfAware |-> aware, maxMishaps |-> k]

\* Mishaps are looked at where the root has one address, several addresses
\* where there are none, and processes that do not recognise their own address
\* in either.
NetworkSettings ==
  {Setting(Own, Bound, Proc, 1), Setting(Twice, Bound, {r, a}, 1),
   Setting(Default, Bound, {r, a}, 1), Setting(Own, Bound, {r, a}, 0),
   Setting(Own, Public, Proc, 0), Setting(Twice, Mixed, Proc, 0)}
=============================================================================
