---------------------------- MODULE MCLifecycle ----------------------------
(* A small instance of Lifecycle for TLC.                                  *)
EXTENDS Lifecycle

CONSTANTS r1, r2, s1, m1

OneModel == [r \in Requests |-> m1]

SingleSlots == {[u \in Servers |-> [distance |-> 1, maxConn |-> 1]]}

OneServer == {<<s1>>}

(* Requests are interchangeable, so what holds of r1 holds of each: once   *)
(* it calls Route it comes to a backend or is answered, and once the       *)
(* backend is done its slot is given back, or the process ends.            *)
Settled == IsSettled(r1)
=============================================================================
