---------------------------- MODULE MCDeployNodes ----------------------------
(* Two deploys: a release on the two nodes, and one file on the local one; both restart. *)
EXTENDS DeployNodes, TLC

CONSTANTS d1, d2, remote, own, f1, f2, cfg

MCTarget == (d1 :> {own, remote}) @@ (d2 :> {own})
MCZip == (d1 :> {f1, cfg}) @@ (d2 :> {f2})
MCClear == (d1 :> {{f2}}) @@ (d2 :> {})
==============================================================================
