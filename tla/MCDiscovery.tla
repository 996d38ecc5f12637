----------------------------- MODULE MCDiscovery -----------------------------
(* Small instances of Discovery for TLC.                                   *)
EXTENDS Discovery

CONSTANTS s1, s2, m1, m2

BothOrOne == {<<s1, s2>>, <<s2>>}
=============================================================================
