---------------------------- MODULE MCStoreFile ----------------------------
(* Instances of StoreFile for TLC.                                         *)
EXTENDS StoreFile
=============================================================================
