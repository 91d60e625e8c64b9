-------------------------- MODULE MCWriteBlocking --------------------------
(***************************************************************************)
(* WriteBlocking, and with it GCScheduler, for TLC.                        *)
(***************************************************************************)
EXTENDS WriteBlocking
=============================================================================
