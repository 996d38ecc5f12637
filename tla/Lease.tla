------------------------------- MODULE Lease -------------------------------
(***************************************************************************)
(* What the bridge promises about the slots of its servers, without how:   *)
(* the users lease slots, one at a time each, may leave one in a box for   *)
(* the user the box belongs to, and give them back; a gauge per server     *)
(* counts the slots that are out.  How many slots a server lends is not    *)
(* part of the promise: the router looks at the gauge and the limit before *)
(* it takes a slot, not when it takes it.                                  *)
(***************************************************************************)
EXTENDS Integers

CONSTANTS
  Servers,    \* the servers that lend slots
  Users,      \* the goroutines that may have a slot
  Boxes,      \* the users that have a box
  NoServer    \* no slot

VARIABLES
  inUse,      \* the server whose slot each user has
  parked,     \* the server of the slot in each box
  gauge       \* how many slots of each server are out

leaseVars == <<inUse, parked, gauge>>

Init ==
  /\ inUse = [p \in Users |-> NoServer]
  /\ parked = [r \in Boxes |-> NoServer]
  /\ gauge = [u \in Servers |-> 0]

Take(p, u) ==
  /\ inUse[p] = NoServer
  /\ inUse' = [inUse EXCEPT ![p] = u]
  /\ gauge' = [gauge EXCEPT ![u] = @ + 1]
  /\ UNCHANGED parked

GiveBack(p, u) ==
  /\ inUse[p] = u
  /\ inUse' = [inUse EXCEPT ![p] = NoServer]
  /\ gauge' = [gauge EXCEPT ![u] = @ - 1]
  /\ UNCHANGED parked

(* p leaves its slot in the empty box of r.                                *)
Park(p, r, u) ==
  /\ inUse[p] = u
  /\ parked[r] = NoServer
  /\ inUse' = [inUse EXCEPT ![p] = NoServer]
  /\ parked' = [parked EXCEPT ![r] = u]
  /\ UNCHANGED gauge

(* r takes the slot in its box.                                            *)
Collect(r, u) ==
  /\ inUse[r] = NoServer
  /\ parked[r] = u
  /\ inUse' = [inUse EXCEPT ![r] = u]
  /\ parked' = [parked EXCEPT ![r] = NoServer]
  /\ UNCHANGED gauge

Next ==
  \E u \in Servers :
    \/ \E p \in Users : Take(p, u) \/ GiveBack(p, u) \/ \E r \in Boxes : Park(p, r, u)
    \/ \E r \in Boxes : Collect(r, u)

Spec == Init /\ [][Next]_leaseVars
=============================================================================
