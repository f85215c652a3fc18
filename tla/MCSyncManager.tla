--------------------------- MODULE MCSyncManager ---------------------------
(* Small instances of SyncManager: threads are model values. *)
EXTENDS SyncManager

CONSTANTS c1, c2, c3

TwoCallers == {c1, c2}

ThreeCallers == {c1, c2, c3}
=============================================================================
