---------------------------- MODULE MCDeployment ----------------------------
(* The instance of Deployment for TLC. *)
EXTENDS Deployment
=============================================================================
