--------------------------- MODULE MCDeployQueue ---------------------------
(* Small instances of DeployQueue: a contract of each way of compiling. *)
EXTENDS DeployQueue, TLC

CONSTANTS c1, c2
=============================================================================
