--------------------------- MODULE MCScanOperations ---------------------------
(* Small instances of ScanOperations for TLC. *)
EXTENDS ScanOperations
=============================================================================
