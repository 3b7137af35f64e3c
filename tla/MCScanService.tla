--------------------------- MODULE MCScanService ---------------------------
(* Instances of ScanService for TLC. *)
EXTENDS ScanService

CONSTANTS ws1, ws2, j1, j2, s1, w1, w2

MCWorkspaceOf == [j \in Jobs |-> IF j = j2 THEN ws2 ELSE ws1]
=============================================================================
