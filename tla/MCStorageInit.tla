--------------------------- MODULE MCStorageInit ---------------------------
(* Three programs, so that two of one revision can race a third of another. *)
EXTENDS StorageInit

CONSTANTS a, b, c, r1, r2
============================================================================
