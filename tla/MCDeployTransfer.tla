-------------------------- MODULE MCDeployTransfer --------------------------
(* Values for model-checking DeployTransfer. *)
EXTENDS DeployTransfer

CONSTANTS t1, t2
=============================================================================
