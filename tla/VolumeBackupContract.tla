------------------------- MODULE VolumeBackupContract -------------------------
(***************************************************************************)
(* What a volume service promises the controllers about one content        *)
(* object: the abstract specification that VolumeBackupService implements  *)
(* for a VolumeBackupContent (VBC) and VolumeRestoreService for a          *)
(* VolumeRestoreContent, and that the actions ProviderFinishes,            *)
(* ProviderDeletes and ProviderRemoves of BackupController and the actions *)
(* ServiceFinishes and ServiceRemoves of RestoreController rely on.        *)
(***************************************************************************)

VARIABLES
    phase,   \* "Pending" is every phase of which the reconciler decides nothing
    del      \* has the VBC a deletion timestamp?

vars == <<phase, del>>

Init == phase = "Pending" /\ del = FALSE

\* The volume backup ends, once. A deletion does not stop a result on its way.
Finish ==
    /\ phase = "Pending"
    /\ phase' \in {"Completed", "Failed"}
    /\ UNCHANGED del

\* The VBC is deleted; one that the service has not yet protected goes at once.
Delete ==
    /\ phase # "absent" /\ ~del
    /\ \/ del' = TRUE /\ UNCHANGED phase
       \/ phase' = "absent" /\ UNCHANGED del

\* The service takes up the deletion of a VBC whose backup has ended.
Deleting ==
    /\ del /\ phase \in {"Completed", "Failed"}
    /\ phase' = "Pending"
    /\ UNCHANGED del

\* The service lets a deleted VBC go.
Release ==
    /\ del
    /\ phase' = "absent"
    /\ del' = FALSE

Next == Finish \/ Delete \/ Deleting \/ Release

Spec == Init /\ [][Next]_vars

\* A volume backup ends and a deletion completes.
FairSpec == Spec /\ WF_vars(Finish) /\ WF_vars(Release)

=============================================================================
