----------------------------- MODULE MCTaskOpLease -----------------------------
(***************************************************************************)
(* The TLC instance of TaskOpLease.  Which call takes the lease first is   *)
(* decided by the interleaving; the ids are model values.                  *)
(***************************************************************************)
EXTENDS TaskOpLease
================================================================================
