--------------------------- MODULE MCCapsuleCache ---------------------------
(* Three processes, one of them without a reader; two members, so that a     *)
(* directory can be partly extracted; three faults, so that they can hit the *)
(* recovery from one another.                                                *)
EXTENDS CapsuleCache

CONSTANTS p1, p2, p3, f1, f2

MCProcs == {p1, p2, p3}
MCOffline == {p3}
MCFiles == <<f1, f2>>
=============================================================================
