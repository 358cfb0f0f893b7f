-------------------------- MODULE MCVolumeSnapshotting --------------------------
(* A CSI driver with two volumes, or a volume of a provisioner that is not  *)
(* one.                                                                      *)
EXTENDS VolumeSnapshotting

MCProvisioners == {"driver", "other"}
MCBackups      == {[driver |-> <<"v1", "v2">>, other |-> <<>>],
                   [driver |-> <<>>, other |-> <<"v3">>]}
MCDriverOf     == [c \in Classes |-> "driver"]

=============================================================================
