--------------------------- MODULE MCBackupRestore ---------------------------
(***************************************************************************)
(* Small instances of BackupRestore.                                       *)
(***************************************************************************)
EXTENDS BackupRestore

\* No change or restore met another one: state constraint. What may be
\* lost in the other behaviours is in ClusterConfig.
Calm == ~hurried

CONSTANTS m1, m2, manual, auto, c1, c2
=============================================================================
