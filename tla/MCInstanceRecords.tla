-------------------------- MODULE MCInstanceRecords --------------------------
(* InstanceRecords on small sets.  Requests are told apart by their role and *)
(* the runs check liveness, so there is no symmetry.                         *)
EXTENDS InstanceRecords
=============================================================================
