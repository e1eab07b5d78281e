--------------------------- MODULE MCAccesslogScan ---------------------------
(* Instance of AccesslogScan for TLC. *)
EXTENDS AccesslogScan
=============================================================================
