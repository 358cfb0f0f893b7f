-------------------------- MODULE MCBackupController --------------------------
(* The provisioners are interchangeable: nothing of the controller orders     *)
(* them.                                                                      *)
EXTENDS BackupController, TLC

ProvisionersAlike == Permutations(Provisioners)

=============================================================================
