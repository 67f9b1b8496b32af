-------------------------- MODULE MCStorageManager --------------------------
(* Small instances of StorageManager: model values and numbers in the .cfg   *)
(* files, so nothing is defined here.  Two clusters that want one claim.     *)
EXTENDS StorageManager
=============================================================================
