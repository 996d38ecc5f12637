----------------------------- MODULE MCDispatch -----------------------------
(* Small instances of Dispatch for TLC.                                    *)
EXTENDS Dispatch

CONSTANTS r1, r2, r3, s1, s2, m1

RequestSymmetry == Permutations(Requests)

OneModel == [r \in Requests |-> m1]

(* Two servers next to each other, or one behind the other.                *)
NearAndFar ==
  {[u \in Servers |-> [distance |-> 1, maxConn |-> 1]],
   [u \in Servers |-> [distance |-> IF u = s1 THEN 1 ELSE 2, maxConn |-> 1]]}

SingleSlots == {[u \in Servers |-> [distance |-> 1, maxConn |-> 1]]}

BothServers == {<<s1, s2>>}
AnyOrder == {<<s1, s2>>, <<s2, s1>>, <<s1>>, <<>>}
OneServer == {<<s1>>}
OneOrNone == {<<s1>>, <<>>}
=============================================================================
