---------------------------- MODULE MCSyncWatch ----------------------------
(* One source file and one artifact per mode suffice for the two threads to  *)
(* race; three edits allow an edit before, during and after a callback, one  *)
(* of them back to the first content.                                        *)
EXTENDS SyncWatch

CONSTANTS c1, a1, out

MCCode == {c1}
MCArtifacts == {a1}
=============================================================================
