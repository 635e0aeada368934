-------------------------------- MODULE MCVm --------------------------------
(***************************************************************************)
(* Vm and VmLayout for TLC.                                                *)
(***************************************************************************)
EXTENDS VmLayout

\* Program files whose pages differ from their neighbours, in one process and
\* from one process to the next.
DistinctImage == [p \in Pids |-> [v \in Vpns |-> (p * NumVpns + v) % NumWords]]
=============================================================================
